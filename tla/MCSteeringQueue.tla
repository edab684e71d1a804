--------------------------- MODULE MCSteeringQueue ---------------------------
(* SteeringQueue on small sets of steers. *)
EXTENDS SteeringQueue
CONSTANTS s1, s2, s3
=============================================================================

------------------------ MODULE MCOpenIDRefreshFlight ------------------------
(* OpenIDRefreshFlight with two requests. *)
EXTENDS OpenIDRefreshFlight
CONSTANTS p1, p2
=============================================================================

---------------------------- MODULE MCTriggerLate ----------------------------
(***************************************************************************)
(* One behaviour of TriggerLane that is too long to be searched for: three *)
(* helpers and four deliveries, step by step.  h1 chooses delivery 2 and   *)
(* is late with its reservation; meanwhile 2 is published and succeeds,    *)
(* h2 stops between the request for a clean-up and its end, h3 comes as    *)
(* far as the deletion of the lane, another helper deletes it, and         *)
(* delivery 3 begins the lane anew with 1.  The late reservation takes     *)
(* number 2, which is the number delivery 2 has, and so h1 concludes that  *)
(* it was this reservation which published it: 2 is the tail again, the    *)
(* request is made again, and h3 deletes the lane with 3 in it.            *)
(***************************************************************************)
EXTENDS TriggerLane
CONSTANTS h1, h2, h3
VARIABLES at, fresh   \* the line of the plot, and that it has yet to begin

Plot == <<
    <<h2, "enqueue", 1, "idle">>, <<h2, "enqueue", 2, "row">>,
    <<h1, "take row", 2, "acquire">>,
    <<h2, "go on", 2, "idle">>, <<h2, "claim", 1, "idle">>, <<h2, "complete", 1, "idle">>,
    <<h2, "claim", 2, "idle">>, <<h2, "complete", 2, "clear">>, <<h2, "stop", 2, "idle">>,
    <<h3, "reclaim", 2, "delete">>, <<h2, "reclaim", 2, "idle">>,
    <<h2, "enqueue", 3, "idle">>,
    <<h1, "go on", 2, "idle">>,
    <<h2, "clean", 2, "reclaim">>, <<h3, "go on", 2, "idle">>,
    <<h1, "enqueue", 4, "idle">> >>

Begin(h, what, d) ==
    \/ what = "enqueue"  /\ Enqueue(h, d)
    \/ what = "take row" /\ TakeRow(h, d)
    \/ what = "claim"    /\ Claim(d)
    \/ what = "complete" /\ Complete(h, d)
    \/ what = "stop"     /\ Crash(h)
    \/ what = "reclaim"  /\ TakeRequest(h)
    \/ what = "clean"    /\ TakeCleaning(h, d)
    \/ what = "go on"    /\ (Publication(h) \/ Settlement(h))

PlotInit == Init /\ at = 1 /\ fresh = TRUE

\* Each helper goes on until it is where its line of the plot says.
PlotNext ==
    /\ at <= Len(Plot)
    /\ LET h == Plot[at][1]
       IN  /\ Begin(h, IF fresh THEN Plot[at][2] ELSE "go on", Plot[at][3])
           /\ fresh' = (pc'[h] = Plot[at][4])
           /\ at' = IF fresh' THEN at + 1 ELSE at

PlotSpec == PlotInit /\ [][PlotNext]_<<vars, at, fresh>>
==============================================================================

------------------------------ MODULE MCServer ------------------------------
(***************************************************************************)
(* Instances of Server for TLC.                                            *)
(***************************************************************************)
EXTENDS Server

MCLoops == {"input", "processing", "output"}

\* A request that trades and one that is only logged.
MCEmits == [r \in {"crossing", "resting"} |-> IF r = "crossing" THEN 2 ELSE 1]
MCBadPackets == {"bad"}

\* The default configuration, and timed waits where tasks arrive: the input loop,
\* whose queue stays empty, spins.
BusySpin == [l \in MCLoops |-> "busy_spin"]
TimedWait == [l \in MCLoops |-> IF l = "input" THEN "busy_spin" ELSE "timed_wait"]

=============================================================================

----------------------------- MODULE ServerRun -----------------------------
(***************************************************************************)
(* The documented use of application::run (application.hpp:66-70): one     *)
(* thread sits in run() while another one calls stop().  The main thread   *)
(* of Server is here the one that calls stop().                            *)
(***************************************************************************)
EXTENDS Server

VARIABLE runner   \* the thread in run(): <<step, index of a loop>>

runVars == <<vars, runner>>

RunInit == Init /\ runner = <<"out", 1>>

\* run() is entered once the application is started.
CallRun ==
  /\ runner = <<"out", 1>>
  /\ main = <<"up", 1>>
  /\ runner' = <<"join", 1>>
  /\ UNCHANGED vars

\* run() joins the loops in the order of stop().
RunJoin ==
  /\ runner[1] = "join"
  /\ Join(StopOrder[runner[2]])
  /\ runner' = IF runner[2] = 3 THEN <<"returned", 1>> ELSE <<"join", runner[2] + 1>>
  /\ UNCHANGED <<appVars, netVars, flowVars>>

RunNext == (Next /\ UNCHANGED runner) \/ CallRun \/ RunJoin

RunSpec == RunInit /\ [][RunNext]_runVars

\* No std::jthread is joined by two threads at once: thread_.join() reads and
\* writes the thread object without synchronisation (event_loop.hpp:178-183),
\* and application.hpp:66-70 asks for run() and stop() on different threads.
NoConcurrentJoin ==
  ~(main[1] = "join" /\ runner = main /\ phase[StopOrder[main[2]]] # "joined")

=============================================================================

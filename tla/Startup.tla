------------------------------ MODULE Startup ------------------------------
(***************************************************************************)
(* The life of a server::application in the hands of a caller that may     *)
(* call start() again after a failure or a stop(), and stop() at any time  *)
(* (src/src/server/src/application.cpp), with the set-up of the three      *)
(* runtime composers and the opening of the receiver                       *)
(* (src/src/order_entry/src/runtime, src/src/matching_engine/src/runtime,  *)
(* src/src/market_data/src/runtime, src/src/lab/libs/network).             *)
(*                                                                         *)
(* What the threads do between the calls is Server's; here a loop is only  *)
(* a thread that runs or does not, and stop() is one step.                 *)
(***************************************************************************)
EXTENDS Integers, Sequences

CONSTANTS
  MaxStarts   \* bound on the calls of start()

VARIABLES
  config,    \* the receiver's type, and whether its address can be parsed
  at,        \* the step of start() that is next, or 0 outside start()
  started,   \* started_
  context,   \* io_context_: 0 if empty, else the call of start() that made it
  stages,    \* the composers that hold their stage
  receiver,  \* the optional receivers of the session that are engaged
  socket,    \* socket_ of the asio receiver, and the context it belongs to
  pollers,   \* how many pollers input_loop_ has
  loops,     \* the loops whose thread runs
  calls,     \* how often start() has been called
  last       \* the call that was made last

vars == <<config, at, started, context, stages, receiver, socket, pollers, loops, calls,
          last>>

Receivers == {"asio_udp", "ef_vi_udp"}
Closed == [state |-> "closed", context |-> 0]

ASSUME StartupAssumption == MaxStarts \in Nat \ {0}

\* The calls of start(), in their order.
Steps ==
  <<"session", "engine", "publisher", "wire", "open", "output", "processing", "input">>

Doing(step) == at # 0 /\ Steps[at] = step
Proceed == at' = (at + 1) % (Len(Steps) + 1) /\ started' = (at = Len(Steps))
Fail == at' = 0 /\ UNCHANGED started

Init ==
  /\ config \in [type : Receivers, address : BOOLEAN]
  /\ at = 0 /\ started = FALSE /\ calls = 0
  /\ context = 0 /\ stages = {} /\ receiver = {} /\ socket = Closed
  /\ pollers = 0 /\ loops = {} /\ last = "constructor"

-----------------------------------------------------------------------------
(* application::start *)

\* Faulty variant: start() does not look whether it has been called.
RefusedNever == FALSE
Refused == started

\* Up to the first set-up.  An asio receiver gets a context; emplace destroys the
\* one that is there.
Start ==
  /\ at = 0 /\ last # "destructor" /\ calls < MaxStarts
  /\ calls' = calls + 1
  /\ last' = "start"
  /\ at' = IF Refused THEN 0 ELSE 1
  /\ context' = IF ~Refused /\ config.type = "asio_udp" THEN calls + 1 ELSE context
  /\ UNCHANGED <<config, started, stages, receiver, socket, pollers, loops>>

\* Faulty variant: setup() does not look whether it has been called.
AlreadySetUpNever(stage) == FALSE
AlreadySetUp(stage) == stage \in stages

\* setup_receiver: the receiver of the configuration, its socket on the context.
Engage ==
  /\ receiver' = receiver \cup {config.type}
  /\ socket' = [Closed EXCEPT !.context = context]

\* session::setup: the session stands before its receiver is chosen, and the
\* receiver has to go with the context.
SetupSession ==
  /\ Doing("session")
  /\ stages' = stages \cup {"session"}
  /\ LET mismatch == (config.type = "asio_udp") # (context # 0)
     IN IF AlreadySetUp("session") \/ mismatch
        THEN Fail /\ UNCHANGED <<receiver, socket>>
        ELSE Proceed /\ Engage
  /\ UNCHANGED <<config, context, pollers, loops, calls, last>>

SetupStage(stage) ==
  /\ Doing(stage)
  /\ stages' = stages \cup {stage}
  /\ IF AlreadySetUp(stage) THEN Fail ELSE Proceed
  /\ UNCHANGED <<config, context, receiver, socket, pollers, loops, calls, last>>

SetupEngine == SetupStage("engine")
SetupPublisher == SetupStage("publisher")

\* wire_pipeline: the callbacks are bound, and the poller is added.
Wire ==
  /\ Doing("wire")
  /\ Proceed
  /\ pollers' = pollers + 1
  /\ UNCHANGED <<config, context, stages, receiver, socket, loops, calls, last>>

\* asio_udp_receiver::start: the address, open, set_option and bind may fail, and
\* a failure leaves the socket as it is by then.
OpenAsio ==
  /\ "asio_udp" \in receiver
  /\ \/ /\ config.address
        /\ \/ Proceed /\ socket' = [socket EXCEPT !.state = "receiving"]
           \/ Fail /\ socket' = [socket EXCEPT !.state = "open"]
     \/ Fail /\ UNCHANGED socket

\* ef_vi_udp_receiver::open is not implemented.
OpenEfVi ==
  /\ receiver = {"ef_vi_udp"}
  /\ Fail /\ UNCHANGED socket

\* session::start.
OpenReceiver ==
  /\ Doing("open")
  /\ OpenAsio \/ OpenEfVi
  /\ UNCHANGED <<config, context, stages, receiver, pollers, loops, calls, last>>

\* event_loop::start: it refuses a loop that is running; the thread may not start.
StartLoop(l) ==
  /\ Doing(l)
  /\ \/ l \notin loops /\ Proceed /\ loops' = loops \cup {l}
     \/ Fail /\ UNCHANGED loops
  /\ UNCHANGED <<config, context, stages, receiver, socket, pollers, calls, last>>

-----------------------------------------------------------------------------
(* application::stop and ~application *)

\* The receive is cancelled, the socket stays open; every loop is stopped.  An
\* application that is not started is left alone.
Stop ==
  /\ at = 0 /\ last # "destructor"
  /\ last' = "stop"
  /\ started' = FALSE
  /\ loops' = IF started THEN {} ELSE loops
  /\ socket' = [socket EXCEPT !.state =
                  IF started /\ @ = "receiving" THEN "open" ELSE @]
  /\ UNCHANGED <<config, at, context, stages, receiver, pollers, calls>>

\* stop(), and then the members in reverse: stages, loops, context.
Destroy ==
  /\ at = 0 /\ last # "destructor"
  /\ last' = "destructor"
  /\ started' = FALSE
  /\ context' = 0 /\ stages' = {} /\ receiver' = {} /\ socket' = Closed
  /\ pollers' = 0 /\ loops' = {}
  /\ UNCHANGED <<config, at, calls>>

Next ==
  \/ Start
  \/ SetupSession
  \/ SetupEngine
  \/ SetupPublisher
  \/ Wire
  \/ OpenReceiver
  \/ \E l \in {"output", "processing", "input"} : StartLoop(l)
  \/ Stop
  \/ Destroy

Spec == Init /\ [][Next]_vars

-----------------------------------------------------------------------------
(* Properties *)

\* What session::poll reaches for: the asio receiver if there is one, else the
\* other one, without a further test.
PollTarget == IF "asio_udp" \in receiver THEN "asio_udp" ELSE "ef_vi_udp"

\* Whenever the input thread runs it polls exactly once a round, through the one
\* receiver that is engaged, which receives from a socket of the living context,
\* and both stages behind it are set up and run (session.hpp:44-45,65,
\* application.cpp:68-78).  A start() that is tried again must not disturb that.
PollerIsSafe ==
  "input" \in loops =>
    /\ pollers = 1
    /\ receiver = {PollTarget}
    /\ PollTarget = "asio_udp" => /\ socket.state = "receiving"
                                  /\ socket.context = context
    /\ stages = {"session", "engine", "publisher"}
    /\ {"output", "processing"} \subseteq loops

\* "Bind the socket before any thread starts so failures surface before stdout
\* sees any record" (application.cpp:71-72): no thread of an application runs
\* unless its receiver is open, also when start() is tried again after a failure
\* that left threads running (session.cpp:25-27 refuses to build it anew).
\* "receiving" says that the socket is bound and its receive was armed on the
\* context it belongs to, alive or not: that one is ContextOutlivesReceiver's.
NoThreadBeforeBind == loops # {} => socket.state = "receiving"

\* The context outlives the receiver that borrows from it: io_context_ is
\* "Declared before order_entry_ so the receiver tears down before the context it
\* borrows from" (application.hpp:80-83), and "outlives this session"
\* (session.hpp:40-41).
ContextOutlivesReceiver == "asio_udp" \in receiver => socket.context = context

=============================================================================

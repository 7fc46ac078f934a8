---------------------------- MODULE StartupProofs ----------------------------
(***************************************************************************)
(* What an application that is started and stopped at will never does, for *)
(* any number of calls.                                                    *)
(***************************************************************************)
EXTENDS Startup, TLAPS

-----------------------------------------------------------------------------
(* The inductive invariant *)

Types ==
  /\ config \in [type : Receivers, address : BOOLEAN]
  /\ at \in 0 .. 8 /\ calls \in Nat /\ context \in Nat
  /\ socket \in [state : {"closed", "open", "receiving"}, context : Nat]
  /\ receiver \subseteq {config.type}
  /\ loops \subseteq {"output", "processing", "input"}

\* An application whose session was never set up holds nothing.
Untouched ==
  "session" \notin stages =>
    stages = {} /\ receiver = {} /\ socket = Closed /\ pollers = 0 /\ loops = {}

\* setup() succeeds at most once, so a start() that has got past it is the first
\* one to do so, and holds exactly what its steps so far have made.
InStart ==
  at > 1 =>
    /\ receiver = {config.type}
    /\ config.type = "asio_udp" => socket.context = context
    /\ stages = {"session"} \cup (IF at > 2 THEN {"engine"} ELSE {})
                            \cup (IF at > 3 THEN {"publisher"} ELSE {})
    /\ pollers = IF at > 4 THEN 1 ELSE 0
    /\ at > 5 => config.type = "asio_udp" /\ socket.state = "receiving"
    /\ loops = (IF at > 6 THEN {"output"} ELSE {})
                 \cup (IF at > 7 THEN {"processing"} ELSE {})

\* The input thread runs between the end of start() and stop() only, and start()
\* is refused in between.
InputOnlyStarted ==
  /\ started => at = 0
  /\ "input" \in loops => started

StartupInv ==
  /\ Types
  /\ Untouched
  /\ InStart
  /\ InputOnlyStarted
  /\ PollerIsSafe
  /\ NoThreadBeforeBind

\* Which step of start() is next.
LEMMA StepAt ==
  ASSUME Types
  PROVE  /\ Len(Steps) = 8
         /\ Doing("session") <=> at = 1
         /\ Doing("engine") <=> at = 2
         /\ Doing("publisher") <=> at = 3
         /\ Doing("wire") <=> at = 4
         /\ Doing("open") <=> at = 5
         /\ Doing("output") <=> at = 6
         /\ Doing("processing") <=> at = 7
         /\ Doing("input") <=> at = 8
<1>1. Len(Steps) = 8
  BY DEF Steps
<1>2. \/ at = 0 \/ at = 1 \/ at = 2 \/ at = 3 \/ at = 4
      \/ at = 5 \/ at = 6 \/ at = 7 \/ at = 8
  BY DEF Types
<1>3. QED
  BY <1>1, <1>2 DEF Doing, Steps

\* A step of start() that succeeds.
LEMMA ProceedStep ==
  ASSUME Types, Proceed, at # 0
  PROVE  /\ at < 8 => at' = at + 1 /\ ~started'
         /\ at = 8 => at' = 0 /\ started'
<1>1. Len(Steps) = 8
  BY StepAt
<1>2. at' = (at + 1) % (8 + 1) /\ started' = (at = 8)
  BY <1>1, Zenon DEF Proceed
<1>3. at \in 1 .. 8
  BY DEF Types
<1>4. (at < 8 => at' = at + 1 /\ at # 8) /\ (at = 8 => at' = 0)
  BY <1>2, <1>3
<1>5. (at # 8 => ~started') /\ (at = 8 => started')
  BY <1>2, Zenon
<1>6. QED
  BY <1>4, <1>5

-----------------------------------------------------------------------------
(* The steps *)

\* A new application holds nothing.
LEMMA InitStartup == Init => StartupInv
BY DEF Init, StartupInv, Types, Untouched, InStart, InputOnlyStarted, PollerIsSafe,
       NoThreadBeforeBind, Closed, Receivers

\* start() up to its first set-up: it is refused while the input thread runs, so
\* that the context is not replaced under its socket.
LEMMA StartHolds ==
  ASSUME StartupInv, Start
  PROVE  StartupInv'
BY DEF Start, Refused, StartupInv, Types, Untouched, InStart, InputOnlyStarted,
       PollerIsSafe, PollTarget, NoThreadBeforeBind

\* A failed step of start() that changes no more than the stages.
LEMMA FailHolds ==
  ASSUME StartupInv, at # 0, Fail, "session" \in stages', stages \subseteq stages',
         UNCHANGED <<config, context, receiver, socket, pollers, loops, calls>>
  PROVE  StartupInv'
BY DEF Fail, StartupInv, Types, Untouched, InStart, InputOnlyStarted,
       PollerIsSafe, PollTarget, NoThreadBeforeBind

\* session::setup.
LEMMA SessionHolds ==
  ASSUME StartupInv, SetupSession
  PROVE  StartupInv'
<1>1. at = 1 /\ ~started
  BY StepAt DEF SetupSession, StartupInv, InputOnlyStarted
<1>2. /\ stages' = stages \cup {"session"}
      /\ UNCHANGED <<config, context, pollers, loops, calls>>
  BY DEF SetupSession
<1>3. CASE Fail /\ UNCHANGED <<receiver, socket>>
  BY <1>1, <1>2, <1>3, FailHolds
<1>4. CASE ~AlreadySetUp("session") /\ Proceed /\ Engage
  <2>1. stages = {} /\ pollers = 0 /\ loops = {} /\ receiver = {}
    BY <1>4 DEF AlreadySetUp, StartupInv, Untouched
  <2>2. at' = 2 /\ ~started'
    BY <1>1, <1>4, ProceedStep DEF StartupInv
  <2>3. /\ receiver' = {config.type} /\ socket' = [Closed EXCEPT !.context = context]
    BY <1>4, <2>1 DEF Engage
  <2>4. QED
    BY <1>2, <2>1, <2>2, <2>3
    DEF StartupInv, Types, Untouched, InStart, InputOnlyStarted,
        PollerIsSafe, PollTarget, NoThreadBeforeBind, Closed
<1>5. QED
  BY <1>3, <1>4 DEF SetupSession

\* The set-ups of the engine and of the publisher.
LEMMA StageHolds ==
  ASSUME StartupInv, SetupEngine \/ SetupPublisher
  PROVE  StartupInv'
<1>1. PICK stage \in {"engine", "publisher"} : SetupStage(stage)
  BY DEF SetupEngine, SetupPublisher
<1>2. /\ stages' = stages \cup {stage}
      /\ Fail \/ Proceed
      /\ UNCHANGED <<config, context, receiver, socket, pollers, loops, calls>>
  BY <1>1 DEF SetupStage
<1>3. \/ stage = "engine" /\ at = 2
      \/ stage = "publisher" /\ at = 3
  BY <1>1, StepAt DEF SetupStage, StartupInv
<1>4. CASE Fail
  <2>1. "session" \in stages
    BY <1>3 DEF StartupInv, InStart
  <2>2. QED
    BY <1>2, <1>3, <1>4, <2>1, FailHolds
<1>5. CASE Proceed
  <2>1. at' = at + 1 /\ ~started'
    BY <1>3, <1>5, ProceedStep DEF StartupInv
  <2>2. QED
    BY <1>2, <1>3, <2>1
    DEF StartupInv, Types, Untouched, InStart, InputOnlyStarted,
        PollerIsSafe, PollTarget, NoThreadBeforeBind
<1>6. QED
  BY <1>2, <1>4, <1>5

\* wire_pipeline is reached once, so there is one poller.
LEMMA WireHolds ==
  ASSUME StartupInv, Wire
  PROVE  StartupInv'
<1>1. at = 4 /\ Proceed
  BY StepAt DEF Wire, StartupInv
<1>2. at' = 5 /\ ~started'
  BY <1>1, ProceedStep DEF StartupInv
<1>3. /\ pollers' = pollers + 1
      /\ UNCHANGED <<config, context, stages, receiver, socket, loops, calls>>
  BY DEF Wire
<1>4. QED
  BY <1>1, <1>2, <1>3
  DEF StartupInv, Types, Untouched, InStart, InputOnlyStarted,
      PollerIsSafe, PollTarget, NoThreadBeforeBind

\* The receiver is opened while no thread runs.
LEMMA OpenHolds ==
  ASSUME StartupInv, OpenReceiver
  PROVE  StartupInv'
<1>1. at = 5 /\ ~started /\ loops = {} /\ receiver = {config.type}
  BY StepAt DEF OpenReceiver, StartupInv, InStart, InputOnlyStarted
<1>2. UNCHANGED <<config, context, stages, receiver, pollers, loops, calls>>
  BY DEF OpenReceiver
<1>3. \/ "asio_udp" \in receiver /\ Proceed /\ socket' = [socket EXCEPT !.state = "receiving"]
      \/ Fail /\ socket' = [socket EXCEPT !.state = "open"]
      \/ Fail /\ socket' = socket
  BY DEF OpenReceiver, OpenAsio, OpenEfVi
<1>4. socket' \in [state : {"closed", "open", "receiving"}, context : Nat]
      /\ socket'.context = socket.context
  BY <1>3 DEF StartupInv, Types
<1>5. CASE Fail
  BY <1>1, <1>2, <1>4, <1>5
  DEF Fail, StartupInv, Types, Untouched, InStart, InputOnlyStarted,
      PollerIsSafe, PollTarget, NoThreadBeforeBind
<1>6. CASE /\ "asio_udp" \in receiver /\ Proceed
           /\ socket' = [socket EXCEPT !.state = "receiving"]
  <2>1. at' = 6 /\ ~started'
    BY <1>1, <1>6, ProceedStep DEF StartupInv
  <2>2. socket'.state = "receiving"
    BY <1>6 DEF StartupInv, Types
  <2>3. QED
    BY <1>1, <1>2, <1>4, <1>6, <2>1, <2>2
    DEF StartupInv, Types, Untouched, InStart, InputOnlyStarted,
        PollerIsSafe, PollTarget, NoThreadBeforeBind
<1>7. QED
  BY <1>3, <1>5, <1>6

\* The threads start last, the input thread after the two behind it.
LEMMA LoopHolds ==
  ASSUME StartupInv, NEW l \in {"output", "processing", "input"}, StartLoop(l)
  PROVE  StartupInv'
<1>1. \/ l = "output" /\ at = 6
      \/ l = "processing" /\ at = 7
      \/ l = "input" /\ at = 8
  BY StepAt DEF StartLoop, StartupInv
<1>2. /\ UNCHANGED <<config, context, stages, receiver, socket, pollers, calls>>
      /\ \/ Proceed /\ loops' = loops \cup {l}
         \/ Fail /\ loops' = loops
  BY DEF StartLoop
<1>3. CASE Fail /\ loops' = loops
  <2>1. "session" \in stages
    BY <1>1 DEF StartupInv, InStart
  <2>2. QED
    BY <1>1, <1>2, <1>3, <2>1, FailHolds
<1>4. CASE Proceed /\ loops' = loops \cup {l}
  <2>1. /\ at < 8 => at' = at + 1 /\ ~started'
        /\ at = 8 => at' = 0 /\ started'
    BY <1>1, <1>4, ProceedStep DEF StartupInv
  <2>2. QED
    BY <1>1, <1>2, <1>4, <2>1
    DEF StartupInv, Types, Untouched, InStart, InputOnlyStarted,
        PollerIsSafe, PollTarget, NoThreadBeforeBind
<1>5. QED
  BY <1>2, <1>3, <1>4

\* stop() and the destructor.
LEMMA StopHolds ==
  ASSUME StartupInv, Stop \/ Destroy
  PROVE  StartupInv'
<1>1. CASE Stop
  <2>1. /\ socket' \in [state : {"closed", "open", "receiving"}, context : Nat]
        /\ ~started => socket' = socket
        /\ "session" \notin stages => socket' = Closed
    BY <1>1 DEF Stop, StartupInv, Types, Untouched, Closed
  <2>2. QED
    BY <1>1, <2>1
    DEF Stop, StartupInv, Types, Untouched, InStart, InputOnlyStarted,
        PollerIsSafe, PollTarget, NoThreadBeforeBind
<1>2. CASE Destroy
  BY <1>2
  DEF Destroy, StartupInv, Types, Untouched, InStart, InputOnlyStarted,
      PollerIsSafe, PollTarget, NoThreadBeforeBind, Closed
<1>3. QED
  BY <1>1, <1>2

\* Every step preserves the invariant.
LEMMA NextStartup == StartupInv /\ [Next]_vars => StartupInv'
<1> SUFFICES ASSUME StartupInv, [Next]_vars PROVE StartupInv'
  OBVIOUS
<1>1. CASE UNCHANGED vars
  BY <1>1
  DEF vars, StartupInv, Types, Untouched, InStart, InputOnlyStarted,
      PollerIsSafe, PollTarget, NoThreadBeforeBind
<1>2. QED
  BY <1>1, StartHolds, SessionHolds, StageHolds, WireHolds, OpenHolds, LoopHolds, StopHolds
  DEF Next

-----------------------------------------------------------------------------
(* The theorems *)

\* The invariant holds however often start() and stop() are called.
THEOREM StartupInvariance == Spec => []StartupInv
BY InitStartup, NextStartup, PTL DEF Spec

\* Whenever the input thread runs, what session::poll reaches for is there, is
\* open on the living context, and is polled once a round.
THEOREM PollerIsSafeHolds == Spec => []PollerIsSafe
BY StartupInvariance, PTL DEF StartupInv

\* No thread of the application runs unless its receiver has been bound.
THEOREM NoThreadBeforeBindHolds == Spec => []NoThreadBeforeBind
BY StartupInvariance, PTL DEF StartupInv

-----------------------------------------------------------------------------
(* The context of an application that is started once, as main() does *)

\* Until start() is called a second time the receiver's context is the living one.
OneStart == calls <= 1 => ContextOutlivesReceiver

OnceInv ==
  /\ calls = 0 => receiver = {} /\ at = 0
  /\ OneStart

\* Every action keeps it: only start() makes a context, and the first one finds no
\* receiver.
LEMMA NextOnce == Types /\ OnceInv /\ [Next]_vars => OnceInv'
<1>1. SUFFICES ASSUME Types, OnceInv, [Next]_vars PROVE OnceInv'
  OBVIOUS
<1>2. calls \in Nat /\ at \in 0 .. 8
  BY <1>1 DEF Types
<1>3. CASE Start
  <2>1. calls' = calls + 1 /\ receiver' = receiver
    BY <1>3 DEF Start
  <2>2. calls' # 0 /\ (calls' <= 1 => calls = 0)
    BY <1>2, <2>1
  <2>3. QED
    BY <1>1, <2>1, <2>2 DEF OnceInv, OneStart, ContextOutlivesReceiver
<1>4. CASE SetupSession
  <2>1. /\ calls' = calls /\ context' = context
        /\ \/ receiver' = receiver /\ socket' = socket
           \/ Engage /\ Proceed
    BY <1>4 DEF SetupSession
  <2>2. calls # 0
    BY <1>1, <1>4 DEF OnceInv, SetupSession, Doing
  <2>3. CASE receiver' = receiver /\ socket' = socket
    BY <1>1, <2>1, <2>2, <2>3 DEF OnceInv, OneStart, ContextOutlivesReceiver
  <2>4. CASE Engage
    <3>1. socket'.context = context
      BY <2>4 DEF Engage, Closed
    <3>2. QED
      BY <2>1, <2>2, <3>1 DEF OnceInv, OneStart, ContextOutlivesReceiver
  <2>5. QED
    BY <2>1, <2>3, <2>4
<1>5. CASE Destroy
  BY <1>5 DEF Destroy, OnceInv, OneStart, ContextOutlivesReceiver
<1>6. CASE OpenReceiver
  <2>1. /\ calls' = calls /\ context' = context /\ receiver' = receiver
        /\ socket'.context = socket.context
    BY <1>1, <1>6 DEF Types, OpenReceiver, OpenAsio, OpenEfVi
  <2>2. calls # 0
    BY <1>1, <1>6 DEF OnceInv, OpenReceiver, Doing
  <2>3. QED
    BY <1>1, <2>1, <2>2 DEF OnceInv, OneStart, ContextOutlivesReceiver
<1>7. CASE Stop
  <2>1. /\ calls' = calls /\ context' = context /\ receiver' = receiver
        /\ socket'.context = socket.context /\ at' = at
    BY <1>1, <1>7 DEF Types, Stop
  <2>2. QED
    BY <1>1, <2>1 DEF OnceInv, OneStart, ContextOutlivesReceiver
<1>8. CASE \/ SetupEngine \/ SetupPublisher \/ Wire
           \/ \E l \in {"output", "processing", "input"} : StartLoop(l)
           \/ UNCHANGED vars
  <2>1. UNCHANGED <<calls, context, receiver, socket>> /\ (at' = at \/ at # 0)
    BY <1>8 DEF SetupEngine, SetupPublisher, SetupStage, Wire, StartLoop, Doing, vars
  <2>2. QED
    BY <1>1, <2>1 DEF OnceInv, OneStart, ContextOutlivesReceiver
<1>9. QED
  BY <1>1, <1>3, <1>4, <1>5, <1>6, <1>7, <1>8 DEF Next

\* The finding about start() is complete: ContextOutlivesReceiver can only fail once
\* start() has been called again, so never under main(), which calls it once
\* (application.cpp:51-82, main.cpp:122).
THEOREM ContextSafeOnce == Spec => []OneStart
<1>1. Init => OnceInv
  BY DEF Init, OnceInv, OneStart, ContextOutlivesReceiver
<1>2. StartupInv => Types
  BY DEF StartupInv
<1>3. OnceInv => OneStart
  BY DEF OnceInv
<1>4. QED
  BY <1>1, <1>2, <1>3, StartupInvariance, NextOnce, PTL DEF Spec

=============================================================================

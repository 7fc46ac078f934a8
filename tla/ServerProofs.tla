----------------------------- MODULE ServerProofs -----------------------------
(***************************************************************************)
(* The order in which the application starts, stops and destroys its loops *)
(* keeps tasks away from drained queues and from destroyed stages, for any *)
(* number of datagrams, any requests and either idle strategy.             *)
(***************************************************************************)
EXTENDS Server, SequenceTheorems, TLAPS

-----------------------------------------------------------------------------
(* The inductive invariant *)

\* TypeOK by the parts of the state.
LoopTypes ==
  /\ running \in [Loops -> BOOLEAN]
  /\ phase \in [Loops -> Phase]
  /\ visible \in [Loops -> Nat]
  /\ \A l \in Loops : visible[l] <= Len(queue[l])
  /\ synced \in [Loops -> BOOLEAN]
  /\ did_work \in [Loops -> BOOLEAN]
  /\ DOMAIN queue = Loops
  /\ queue["input"] = << >>
  /\ queue["processing"] \in Seq(RequestPackets)
  /\ queue["output"] \in Seq(Nat \X Nat)

AppTypes ==
  /\ main \in {"init", "start", "up", "stop", "join", "stopped", "destroy",
               "dstop", "djoin", "gone"} \X (1 .. 3)
  /\ alive \in BOOLEAN

NetTypes ==
  /\ receiver \in {"closed", "armed", "handling", "aborted", "ended"}
  /\ packet \in Seq(Packets) /\ socket \in Seq(Packets)
  /\ arrived \in 0 .. MaxDatagrams

FlowTypes ==
  /\ emitting \in Seq(Nat \X Nat)
  /\ accepted \in Seq(RequestPackets)
  /\ processed \in Nat
  /\ published \in Seq(Nat \X Nat)

\* A loop that has left its main loop has been told to stop.
FlagSeen == \A l \in Loops : phase[l] \in {"drain", "exited", "joined"} => ~running[l]

\* Without an input thread there is nothing to do.
QuietWithoutInput ==
  phase["input"] = "none" => emitting = << >> /\ \A l \in Loops : queue[l] = << >>

\* Messages are posted from inside a task of the processing loop.
EmittingInTask == emitting # << >> => phase["processing"] \in {"test", "tasks", "drain"}

AllJoined == \A l \in Loops : phase[l] = "joined"

\* What the main thread's position says of the loops.
MainOrder ==
  /\ main[1] \in {"init", "start", "destroy"} => phase["input"] = "none"
  /\ main[1] = "start" => \A j \in 1 .. 3 : j < main[2] =>
       running[StartOrder[j]] /\ phase[StartOrder[j]] # "none"
  /\ main[1] \in {"up", "stop", "join"} => \A l \in Loops : phase[l] # "none"
  /\ main[1] = "up" => \A l \in Loops : running[l]
  /\ main[1] \in {"stop", "join"} => \A j \in 1 .. 3 :
       /\ j < main[2] => phase[StopOrder[j]] = "joined"
       /\ j > main[2] => running[StopOrder[j]]
  /\ main[1] = "stop" => running[StopOrder[main[2]]]
  /\ main[1] = "stopped" => AllJoined
  /\ main[1] \in {"dstop", "djoin", "gone"} => phase["input"] = "none" \/ AllJoined
  /\ ~alive => main[1] \in {"dstop", "djoin", "gone"}

ServerInv ==
  /\ LoopTypes /\ AppTypes /\ NetTypes /\ FlowTypes
  /\ FlagSeen
  /\ QuietWithoutInput
  /\ EmittingInTask
  /\ MainOrder

\* A part that a step leaves alone keeps its types.
LEMMA SameTypes ==
  /\ LoopTypes /\ UNCHANGED loopVars => LoopTypes'
  /\ AppTypes /\ UNCHANGED appVars => AppTypes'
  /\ NetTypes /\ UNCHANGED netVars => NetTypes'
  /\ FlowTypes /\ UNCHANGED flowVars => FlowTypes'
<1>1. LoopTypes /\ UNCHANGED loopVars => LoopTypes'
  BY DEF LoopTypes, loopVars
<1>2. AppTypes /\ UNCHANGED appVars => AppTypes'
  BY DEF AppTypes, appVars
<1>3. NetTypes /\ UNCHANGED netVars => NetTypes'
  BY DEF NetTypes, netVars
<1>4. FlowTypes /\ UNCHANGED flowVars => FlowTypes'
  BY DEF FlowTypes, flowVars
<1>5. QED
  BY <1>1, <1>2, <1>3, <1>4

\* The three loops, and their order on each way.
LEMMA LoopsAre ==
  /\ Loops = {"input", "processing", "output"}
  /\ StartOrder[1] = "output" /\ StartOrder[2] = "processing" /\ StartOrder[3] = "input"
  /\ StopOrder[1] = "input" /\ StopOrder[2] = "processing" /\ StopOrder[3] = "output"
  /\ \A j \in 1 .. 3 : DestroyOrder[j] \in Loops
BY ServerAssumption DEF StartOrder, StopOrder, DestroyOrder

\* A consumer that has begun its drain has no producer any more.
LEMMA ProducerGone ==
  ASSUME ServerInv
  PROVE  /\ phase["processing"] \in {"drain", "exited", "joined"}
              => phase["input"] \in {"none", "joined"}
         /\ phase["output"] \in {"drain", "exited", "joined"} => emitting = << >>
<1>1. main[1] \in {"init", "start", "up", "stop", "join", "stopped", "destroy",
                   "dstop", "djoin", "gone"} /\ main[2] \in 1 .. 3
  BY DEF ServerInv, AppTypes
<1>2. CASE phase["input"] = "none" \/ AllJoined
  BY <1>2, LoopsAre DEF ServerInv, QuietWithoutInput, EmittingInTask, AllJoined
<1>3. CASE main[1] = "up"
  BY <1>3, LoopsAre DEF ServerInv, MainOrder, FlagSeen
<1>4. CASE main[1] \in {"stop", "join"}
  <2>1. /\ main[2] > 1 => phase["input"] = "joined"
        /\ main[2] > 2 => phase["processing"] = "joined"
        /\ main[2] < 2 => running["processing"]
        /\ main[2] < 3 => running["output"]
    BY <1>1, <1>4, LoopsAre DEF ServerInv, MainOrder
  <2>2. QED
    BY <1>1, <2>1, LoopsAre DEF ServerInv, FlagSeen, EmittingInTask
<1>5. QED
  BY <1>1, <1>2, <1>3, <1>4 DEF ServerInv, MainOrder

\* The invariant contains the properties.
LEMMA TypesHold == ServerInv => TypeOK
BY DEF ServerInv, TypeOK, LoopTypes, AppTypes, NetTypes, FlowTypes

\* The invariant contains what the main thread must see to before it destroys the stages.
LEMMA StagesHold == ServerInv => StagesOutliveTasks
<1> SUFFICES ASSUME ServerInv, ~alive PROVE StagesOutliveTasks
  BY DEF StagesOutliveTasks
<1>1. phase["input"] = "none" \/ AllJoined
  BY DEF ServerInv, MainOrder
<1>2. CASE phase["input"] = "none"
  BY <1>2 DEF ServerInv, QuietWithoutInput, StagesOutliveTasks, Live
<1>3. CASE AllJoined
  BY <1>3, LoopsAre DEF ServerInv, EmittingInTask, AllJoined, StagesOutliveTasks, Live
<1>4. QED
  BY <1>1, <1>2, <1>3

-----------------------------------------------------------------------------
(* The main thread *)

\* Nothing has been started.
LEMMA InitServer == Init => ServerInv
<1> SUFFICES ASSUME Init PROVE ServerInv
  OBVIOUS
<1>1. /\ \A l \in Loops : /\ running[l] = FALSE /\ phase[l] = "none"
                          /\ queue[l] = << >> /\ visible[l] = 0
      /\ main = <<"init", 1>> /\ alive = TRUE /\ emitting = << >>
  BY DEF Init, LoopInit
<1>2. LoopTypes /\ AppTypes /\ NetTypes /\ FlowTypes
  BY <1>1, LoopsAre, ServerAssumption
  DEF Init, LoopInit, LoopTypes, AppTypes, NetTypes, FlowTypes, Phase
<1>3. QED
  BY <1>1, <1>2, LoopsAre
  DEF ServerInv, FlagSeen, QuietWithoutInput, EmittingInTask, MainOrder

\* Steps that touch no loop and no task.
LEMMA SetupHolds ==
  ASSUME ServerInv, Setup \/ StopReceiver \/ DestroyStages \/ Arrive \/ Gone
  PROVE  ServerInv'
<1>1. UNCHANGED loopVars /\ UNCHANGED flowVars
  BY DEF Setup, StopReceiver, DestroyStages, Arrive, Gone, vars, loopVars, flowVars
<1>2. LoopTypes' /\ FlowTypes'
  BY <1>1, SameTypes DEF ServerInv
<1>3. AppTypes'
  <2>1. CASE Setup \/ StopReceiver \/ DestroyStages
    <3>1. main' \in {<<"start", 1>>, <<"destroy", 1>>, <<"stop", 1>>, <<"dstop", 1>>}
      BY <2>1 DEF Setup, StopReceiver, DestroyStages
    <3>2. alive' = alive \/ alive' = FALSE
      BY <2>1 DEF Setup, StopReceiver, DestroyStages
    <3>3. alive' \in BOOLEAN
      BY <3>2 DEF ServerInv, AppTypes
    <3>4. main' \in {"start", "destroy", "stop", "dstop"} \X (1 .. 3)
      BY <3>1
    <3>5. QED
      BY <3>3, <3>4 DEF AppTypes
  <2>2. CASE Arrive \/ Gone
    BY <2>2 DEF ServerInv, AppTypes, Arrive, Gone, vars, appVars
  <2>3. QED
    BY <2>1, <2>2
<1>4. NetTypes'
  <2>1. CASE Arrive
    BY <2>1, ServerAssumption DEF ServerInv, NetTypes, Arrive
  <2>2. CASE Setup \/ StopReceiver \/ Gone
    BY <2>2 DEF ServerInv, NetTypes, Setup, StopReceiver, Gone, vars
  <2>3. CASE DestroyStages
    BY <2>3 DEF ServerInv, NetTypes, DestroyStages
  <2>4. QED
    BY <2>1, <2>2, <2>3
<1>5. FlagSeen' /\ QuietWithoutInput' /\ EmittingInTask'
  BY <1>1 DEF ServerInv, FlagSeen, QuietWithoutInput, EmittingInTask, loopVars, flowVars
<1>6. MainOrder'
  <2>1. running' = running /\ phase' = phase
    BY <1>1 DEF loopVars
  <2>2. CASE Setup
    <3>1. main = <<"init", 1>> /\ main' \in {<<"start", 1>>, <<"destroy", 1>>} /\ alive' = alive
      BY <2>2 DEF Setup
    <3>2. QED
      BY <2>1, <3>1 DEF ServerInv, MainOrder
  <2>3. CASE StopReceiver
    <3>1. main = <<"up", 1>> /\ main' = <<"stop", 1>> /\ alive' = alive
      BY <2>3 DEF StopReceiver
    <3>2. QED
      BY <2>1, <3>1, LoopsAre DEF ServerInv, MainOrder
  <2>4. CASE DestroyStages
    <3>1. main[1] \in {"stopped", "destroy"} /\ main' = <<"dstop", 1>>
      BY <2>4 DEF DestroyStages
    <3>2. QED
      BY <2>1, <3>1 DEF ServerInv, MainOrder, AllJoined
  <2>5. CASE Arrive \/ Gone
    <3>1. main' = main /\ alive' = alive
      BY <2>5 DEF Arrive, Gone, vars, appVars
    <3>2. QED
      BY <2>1, <3>1 DEF ServerInv, MainOrder, AllJoined
  <2>6. QED
    BY <2>2, <2>3, <2>4, <2>5
<1>7. QED
  BY <1>2, <1>3, <1>4, <1>5, <1>6 DEF ServerInv

\* application::start: a loop starts, or the start is given up.
LEMMA StartLoopHolds ==
  ASSUME ServerInv, StartLoop
  PROVE  ServerInv'
<1> DEFINE i == main[2]
           l == StartOrder[i]
<1>1. i \in 1 .. 3 /\ main[1] = "start" /\ phase["input"] = "none" /\ l \in Loops
  BY LoopsAre DEF ServerInv, AppTypes, MainOrder, StartLoop
<1>2. UNCHANGED netVars /\ UNCHANGED flowVars /\ alive' = alive /\ queue' = queue
  BY DEF StartLoop, Start, StartFails, loopVars
<1>3. NetTypes' /\ FlowTypes'
  BY <1>2, SameTypes DEF ServerInv
<1>4. emitting' = << >> /\ \A m \in Loops : queue'[m] = << >>
  BY <1>1, <1>2 DEF ServerInv, QuietWithoutInput, flowVars
<1>5. CASE StartFails(l) /\ main' = <<"destroy", 1>>
  <2>1. UNCHANGED loopVars
    BY <1>5 DEF StartFails
  <2>2. LoopTypes' /\ AppTypes'
    BY <1>2, <1>5, <2>1, SameTypes DEF ServerInv, AppTypes
  <2>3. running' = running /\ phase' = phase
    BY <2>1 DEF loopVars
  <2>4. FlagSeen' /\ QuietWithoutInput' /\ EmittingInTask' /\ MainOrder'
    BY <1>1, <1>2, <1>4, <1>5, <2>3
    DEF ServerInv, FlagSeen, QuietWithoutInput, EmittingInTask, MainOrder
  <2>5. QED
    BY <1>3, <2>2, <2>4 DEF ServerInv
<1>6. CASE /\ Start(l)
           /\ main' = IF i = 3 THEN <<"up", 1>> ELSE <<"start", i + 1>>
  <2>1. /\ running' = [running EXCEPT ![l] = TRUE] /\ phase' = [phase EXCEPT ![l] = "test"]
        /\ UNCHANGED <<visible, synced, did_work>>
    BY <1>6 DEF Start
  <2>2. LoopTypes'
    BY <1>1, <1>2, <2>1 DEF ServerInv, LoopTypes, Phase
  <2>3. /\ running'[l] /\ phase'[l] = "test"
        /\ \A m \in Loops : m # l => running'[m] = running[m] /\ phase'[m] = phase[m]
    BY <1>1, <2>1 DEF ServerInv, LoopTypes
  <2>4. AppTypes'
    BY <1>1, <1>2, <1>6 DEF ServerInv, AppTypes
  <2>5. FlagSeen' /\ QuietWithoutInput' /\ EmittingInTask'
    BY <1>4, <2>3 DEF ServerInv, FlagSeen, QuietWithoutInput, EmittingInTask
  <2>6. MainOrder'
    <3>1. alive
      BY <1>1 DEF ServerInv, MainOrder
    <3>2. CASE i = 3
      <4>1. main' = <<"up", 1>> /\ l = "input"
        BY <1>6, <3>2, LoopsAre
      <4>2. \A m \in Loops : running'[m] /\ phase'[m] # "none"
        BY <1>1, <2>3, <3>2, <4>1, LoopsAre DEF ServerInv, MainOrder
      <4>3. QED
        BY <1>2, <3>1, <4>1, <4>2 DEF MainOrder
    <3>3. CASE i # 3
      <4>1. main' = <<"start", i + 1>> /\ l # "input"
        BY <1>1, <1>6, <3>3, LoopsAre
      <4>2. \A j \in 1 .. 3 : j < i + 1 =>
              running'[StartOrder[j]] /\ phase'[StartOrder[j]] # "none"
        BY <1>1, <2>3, LoopsAre DEF ServerInv, MainOrder
      <4>3. phase'["input"] = "none"
        BY <1>1, <2>3, <4>1, LoopsAre
      <4>4. QED
        BY <1>2, <3>1, <4>1, <4>2, <4>3 DEF MainOrder
    <3>4. QED
      BY <3>2, <3>3
  <2>7. QED
    BY <1>3, <2>2, <2>4, <2>5, <2>6 DEF ServerInv
<1>7. QED
  BY <1>5, <1>6 DEF StartLoop

\* stop() of one loop leaves threads and queues alone.
LEMMA StopTypes ==
  ASSUME ServerInv, NEW l \in Loops, NEW joined \in BOOLEAN, Stop(l, joined)
  PROVE  /\ LoopTypes' /\ phase' = phase /\ queue' = queue
         /\ ~running'[l] /\ \A m \in Loops : m # l => running'[m] = running[m]
<1>1. /\ running' = [running EXCEPT ![l] = FALSE] /\ synced' = [synced EXCEPT ![l] = joined]
      /\ UNCHANGED <<phase, queue, visible, did_work>>
  BY DEF Stop
<1>2. QED
  BY <1>1 DEF ServerInv, LoopTypes

\* join() of one loop.
LEMMA JoinTypes ==
  ASSUME ServerInv, NEW l \in Loops, Join(l)
  PROVE  /\ LoopTypes' /\ running' = running /\ queue' = queue
         /\ phase[l] \in {"none", "exited", "joined"}
         /\ phase'[l] = IF phase[l] = "none" THEN "none" ELSE "joined"
         /\ \A m \in Loops : m # l => phase'[m] = phase[m]
<1>1. /\ phase' = [phase EXCEPT ![l] = IF phase[l] = "none" THEN phase[l] ELSE "joined"]
      /\ phase[l] \in {"none", "exited", "joined"}
      /\ UNCHANGED <<running, queue, visible, synced, did_work>>
  BY DEF Join
<1>2. QED
  BY <1>1 DEF ServerInv, LoopTypes, Phase

\* application::stop: inbound to outbound, each loop joined before the next.
LEMMA StopLoopHolds ==
  ASSUME ServerInv, StopLoop
  PROVE  ServerInv'
<1> DEFINE i == main[2]
           l == StopOrder[i]
<1>1. i \in 1 .. 3 /\ main[1] = "stop" /\ l \in Loops /\ alive
  BY LoopsAre DEF ServerInv, AppTypes, MainOrder, StopLoop
<1>2. /\ Stop(l, ProducerJoined(l)) /\ main' = <<"join", i>> /\ alive' = alive
      /\ UNCHANGED netVars /\ UNCHANGED flowVars
  BY DEF StopLoop
<1>3. NetTypes' /\ FlowTypes' /\ AppTypes'
  BY <1>1, <1>2, SameTypes DEF ServerInv, AppTypes
<1>4. ProducerJoined(l) \in BOOLEAN
  BY DEF ProducerJoined
<1>5. /\ LoopTypes' /\ phase' = phase /\ queue' = queue
      /\ ~running'[l] /\ \A m \in Loops : m # l => running'[m] = running[m]
  BY <1>1, <1>2, <1>4, StopTypes
<1>6. FlagSeen' /\ QuietWithoutInput' /\ EmittingInTask'
  BY <1>2, <1>5 DEF ServerInv, FlagSeen, QuietWithoutInput, EmittingInTask, flowVars
<1>7. MainOrder'
  <2>1. \A j \in 1 .. 3 :
        /\ j < i => phase[StopOrder[j]] = "joined"
        /\ j > i => running[StopOrder[j]]
    BY <1>1 DEF ServerInv, MainOrder
  <2>2. \A j \in 1 .. 3 : j > i => StopOrder[j] # l /\ StopOrder[j] \in Loops
    BY <1>1, LoopsAre
  <2>3. \A m \in Loops : phase[m] # "none"
    BY <1>1 DEF ServerInv, MainOrder
  <2>4. main'[1] = "join" /\ main'[2] = i /\ alive'
    BY <1>1, <1>2
  <2>5. \A j \in 1 .. 3 :
        /\ j < i => phase'[StopOrder[j]] = "joined"
        /\ j > i => running'[StopOrder[j]]
    BY <1>5, <2>1, <2>2
  <2>6. \A m \in Loops : phase'[m] # "none"
    BY <1>5, <2>3
  <2>7. QED
    BY <2>4, <2>5, <2>6 DEF MainOrder
<1>8. QED
  BY <1>3, <1>5, <1>6, <1>7 DEF ServerInv

\* join() returns from a thread that has ended, in stop() and in the destructor.
LEMMA JoinLoopHolds ==
  ASSUME ServerInv, JoinLoop
  PROVE  ServerInv'
<1> DEFINE i == main[2]
           l == StopOrder[i]
<1>1. i \in 1 .. 3 /\ main[1] = "join" /\ l \in Loops /\ alive
  BY LoopsAre DEF ServerInv, AppTypes, MainOrder, JoinLoop
<1>2. /\ Join(l) /\ main' = (IF i = 3 THEN <<"stopped", 1>> ELSE <<"stop", i + 1>>)
      /\ alive' = alive /\ UNCHANGED netVars /\ UNCHANGED flowVars
  BY DEF JoinLoop
<1>3. NetTypes' /\ FlowTypes' /\ AppTypes'
  BY <1>1, <1>2, SameTypes DEF ServerInv, AppTypes
<1>4. \A m \in Loops : phase[m] # "none"
  BY <1>1 DEF ServerInv, MainOrder
<1>5. /\ LoopTypes' /\ running' = running /\ queue' = queue
      /\ phase[l] \in {"exited", "joined"} /\ phase'[l] = "joined"
      /\ \A m \in Loops : m # l => phase'[m] = phase[m]
  BY <1>1, <1>2, <1>4, JoinTypes
<1>6. FlagSeen' /\ QuietWithoutInput' /\ EmittingInTask'
  BY <1>1, <1>2, <1>4, <1>5, LoopsAre
  DEF ServerInv, FlagSeen, QuietWithoutInput, EmittingInTask, flowVars
<1>7. MainOrder'
  <2>1. \A j \in 1 .. 3 :
        /\ j < i => phase[StopOrder[j]] = "joined"
        /\ j > i => running[StopOrder[j]]
    BY <1>1 DEF ServerInv, MainOrder
  <2>2. \A j \in 1 .. 3 : j < i + 1 => phase'[StopOrder[j]] = "joined"
    <3>1. \A j \in 1 .. 3 : j < i + 1 => j < i \/ j = i
      BY <1>1
    <3>2. \A j \in 1 .. 3 : j < i => StopOrder[j] # l /\ StopOrder[j] \in Loops
      BY <1>1, LoopsAre
    <3>3. QED
      BY <1>5, <2>1, <3>1, <3>2
  <2>3. \A m \in Loops : phase'[m] # "none"
    BY <1>4, <1>5
  <2>4. CASE i = 3
    <3>1. AllJoined' /\ main' = <<"stopped", 1>>
      BY <1>2, <2>2, <2>4, LoopsAre DEF AllJoined
    <3>2. QED
      BY <1>1, <1>2, <3>1 DEF MainOrder
  <2>5. CASE i # 3
    <3>1. main' = <<"stop", i + 1>> /\ i + 1 \in 1 .. 3
      BY <1>1, <1>2, <2>5
    <3>2. running'[StopOrder[i + 1]] /\ \A j \in 1 .. 3 : j > i + 1 => running'[StopOrder[j]]
      BY <1>1, <1>5, <2>1, <3>1
    <3>3. QED
      BY <1>1, <1>2, <2>2, <2>3, <3>1, <3>2 DEF MainOrder
  <2>6. QED
    BY <2>4, <2>5
<1>8. QED
  BY <1>3, <1>5, <1>6, <1>7 DEF ServerInv

\* ~event_loop, when the stages are gone.
LEMMA DestroyLoopHolds ==
  ASSUME ServerInv, DestroyLoop
  PROVE  ServerInv'
<1> DEFINE i == main[2]
           l == DestroyOrder[i]
<1>1. /\ i \in 1 .. 3 /\ main[1] \in {"dstop", "djoin"} /\ l \in Loops
      /\ phase["input"] = "none" \/ AllJoined
  BY LoopsAre DEF ServerInv, AppTypes, MainOrder, DestroyLoop
<1>2. /\ UNCHANGED netVars /\ UNCHANGED flowVars /\ alive' = alive
      /\ \/ Stop(l, ProducerJoined(l)) /\ main' = <<"djoin", i>>
         \/ /\ Join(l)
            /\ main' = IF i = 3 THEN <<"gone", 1>> ELSE <<"dstop", i + 1>>
  BY DEF DestroyLoop
<1>3. NetTypes' /\ FlowTypes' /\ AppTypes'
  BY <1>1, <1>2, SameTypes DEF ServerInv, AppTypes
<1>4. main'[1] \in {"dstop", "djoin", "gone"}
  BY <1>1, <1>2
<1>5. ASSUME LoopTypes', queue' = queue, phase'["input"] = "none" \/ AllJoined',
             phase'["input"] = "none" => phase["input"] = "none", FlagSeen',
             phase["processing"] \in {"test", "tasks", "drain"}
               => phase'["processing"] = phase["processing"]
      PROVE  ServerInv'
  <2>1. QuietWithoutInput' /\ EmittingInTask'
    BY <1>2, <1>5 DEF ServerInv, QuietWithoutInput, EmittingInTask, flowVars
  <2>2. MainOrder'
    BY <1>4, <1>5 DEF MainOrder
  <2>3. QED
    BY <1>3, <1>5, <2>1, <2>2 DEF ServerInv
<1>6. CASE Stop(l, ProducerJoined(l))
  <2>1. ProducerJoined(l) \in BOOLEAN
    BY DEF ProducerJoined
  <2>2. /\ LoopTypes' /\ phase' = phase /\ queue' = queue
        /\ ~running'[l] /\ \A m \in Loops : m # l => running'[m] = running[m]
    BY <1>1, <1>6, <2>1, StopTypes
  <2>3. FlagSeen'
    BY <2>2 DEF ServerInv, FlagSeen
  <2>4. QED
    BY <1>1, <1>5, <2>2, <2>3 DEF AllJoined
<1>7. CASE Join(l)
  <2>1. /\ LoopTypes' /\ running' = running /\ queue' = queue
        /\ phase[l] \in {"none", "exited", "joined"}
        /\ phase'[l] = IF phase[l] = "none" THEN "none" ELSE "joined"
        /\ \A m \in Loops : m # l => phase'[m] = phase[m]
    BY <1>1, <1>7, JoinTypes
  <2>2. FlagSeen'
    BY <1>1, <2>1 DEF ServerInv, FlagSeen
  <2>3. phase'["input"] = "none" \/ AllJoined'
    BY <1>1, <2>1, LoopsAre DEF AllJoined
  <2>4. QED
    BY <1>1, <1>5, <2>1, <2>2, <2>3, LoopsAre
<1>8. QED
  BY <1>2, <1>6, <1>7

-----------------------------------------------------------------------------
(* The threads of the loops *)

\* The thread of loop l goes on, and nobody else moves.
Advances(l) ==
  /\ phase[l] \notin {"none", "exited", "joined"}
  /\ phase'[l] \notin {"none", "joined"}
  /\ phase'[l] \in {"drain", "exited"} => ~running[l]
  /\ \A m \in Loops : m # l => phase'[m] = phase[m]
  /\ running' = running /\ main' = main /\ alive' = alive

\* A thread that goes on is not one that the main thread counts as joined.
LEMMA ThreadStep ==
  ASSUME ServerInv, NEW l \in Loops, Advances(l)
  PROVE  /\ FlagSeen' /\ MainOrder'
         /\ phase'["input"] = "none" => phase["input"] = "none"
<1>1. FlagSeen'
  BY DEF ServerInv, FlagSeen, Advances
<1>2. \A m \in Loops : /\ phase'[m] = "none" <=> phase[m] = "none"
                       /\ phase[m] = "joined" => phase'[m] = "joined"
  BY DEF Advances
<1>3. /\ phase'["input"] = "none" <=> phase["input"] = "none"
      /\ AllJoined => AllJoined'
  BY <1>2, LoopsAre DEF AllJoined
<1>4. \A j \in 1 .. 3 : StartOrder[j] \in Loops /\ StopOrder[j] \in Loops
  BY LoopsAre
<1>5. running' = running /\ main' = main /\ alive' = alive
  BY DEF Advances
<1>6. MainOrder'
  BY <1>2, <1>3, <1>4, <1>5 DEF ServerInv, MainOrder
<1>7. QED
  BY <1>1, <1>3, <1>6

\* Queue and emission as they were: what is left of the invariant.
LEMMA ThreadHolds ==
  ASSUME ServerInv, NEW l \in Loops, Advances(l), LoopTypes', NetTypes', FlowTypes',
         emitting' # << >> => phase'["processing"] \in {"test", "tasks", "drain"},
         phase["input"] = "none" => emitting' = << >> /\ \A m \in Loops : queue'[m] = << >>
  PROVE  ServerInv'
<1>1. /\ FlagSeen' /\ MainOrder'
      /\ phase'["input"] = "none" => phase["input"] = "none"
  BY ThreadStep
<1>2. QuietWithoutInput' /\ EmittingInTask'
  BY <1>1 DEF QuietWithoutInput, EmittingInTask
<1>3. AppTypes'
  BY DEF ServerInv, AppTypes, Advances
<1>4. QED
  BY <1>1, <1>2, <1>3 DEF ServerInv

\* The loop condition, and a dequeue that finds nothing.
LEMMA LoopStepHolds ==
  ASSUME ServerInv, NEW l \in Loops, LoopStep(l)
  PROVE  ServerInv'
<1>1. /\ UNCHANGED netVars /\ UNCHANGED flowVars /\ main' = main /\ alive' = alive
      /\ l = "processing" => emitting = << >>
      /\ TestFlag(l) \/ DequeueFails(l)
  BY DEF LoopStep, appVars
<1>2. /\ running' = running /\ queue' = queue /\ synced' = synced /\ did_work' \in [Loops -> BOOLEAN]
      /\ phase[l] \in {"test", "tasks", "wait", "drain"}
      /\ \E next \in {"test", "tasks", "pollers", "drain", "exited"} :
           /\ phase' = [phase EXCEPT ![l] = next]
           /\ next \in {"drain", "exited"} => ~running[l]
      /\ \/ visible' = visible
         \/ visible' = [visible EXCEPT ![l] = Len(queue[l])]
  <2>1. CASE TestFlag(l)
    <3>1. /\ running' = running /\ queue' = queue /\ synced' = synced /\ phase[l] = "test"
          /\ did_work' \in [Loops -> BOOLEAN]
          /\ \/ running[l] /\ phase' = [phase EXCEPT ![l] = "tasks"] /\ visible' = visible
             \/ /\ ~running[l] /\ phase' = [phase EXCEPT ![l] = "drain"]
                /\ visible' = [visible EXCEPT ![l] = IF synced[l] THEN Len(queue[l])
                                                     ELSE visible[l]]
      BY <2>1 DEF TestFlag, ServerInv, LoopTypes
    <3>2. \/ visible' = visible
          \/ visible' = [visible EXCEPT ![l] = Len(queue[l])]
      BY <3>1 DEF ServerInv, LoopTypes
    <3>3. QED
      BY <3>1, <3>2
  <2>2. CASE DequeueFails(l)
    BY <2>2 DEF DequeueFails, ServerInv, LoopTypes, FlagSeen
  <2>3. QED
    BY <1>1, <2>1, <2>2
<1>3. PICK next \in {"test", "tasks", "pollers", "drain", "exited"} :
        /\ phase' = [phase EXCEPT ![l] = next]
        /\ next \in {"drain", "exited"} => ~running[l]
  BY <1>2
<1>4. phase'[l] = next /\ \A m \in Loops : m # l => phase'[m] = phase[m]
  BY <1>3 DEF ServerInv, LoopTypes
<1>5. LoopTypes'
  <2>1. Len(queue[l]) \in Nat
    BY LoopsAre DEF ServerInv, LoopTypes
  <2>2. visible' \in [Loops -> Nat] /\ \A m \in Loops : visible'[m] <= Len(queue[m])
    <3>1. CASE visible' = visible
      BY <3>1 DEF ServerInv, LoopTypes
    <3>2. CASE visible' = [visible EXCEPT ![l] = Len(queue[l])]
      <4>1. visible'[l] = Len(queue[l]) /\ \A m \in Loops : m # l => visible'[m] = visible[m]
        BY <3>2 DEF ServerInv, LoopTypes
      <4>2. visible' \in [Loops -> Nat]
        BY <2>1, <3>2 DEF ServerInv, LoopTypes
      <4>3. ASSUME NEW m \in Loops PROVE visible'[m] <= Len(queue[m])
        <5>1. CASE m = l
          BY <2>1, <4>1, <5>1
        <5>2. CASE m # l
          BY <4>1, <5>2 DEF ServerInv, LoopTypes
        <5>3. QED
          BY <5>1, <5>2
      <4>4. QED
        BY <4>2, <4>3
    <3>3. QED
      BY <1>2, <3>1, <3>2
  <2>3. phase' \in [Loops -> Phase]
    BY <1>3 DEF ServerInv, LoopTypes, Phase
  <2>4. QED
    BY <1>2, <2>2, <2>3 DEF ServerInv, LoopTypes
<1>6. NetTypes' /\ FlowTypes' /\ emitting' = emitting
  BY <1>1, SameTypes DEF ServerInv, flowVars
<1>7. Advances(l)
  BY <1>1, <1>2, <1>3, <1>4 DEF Advances
<1>8. emitting' # << >> => phase'["processing"] \in {"test", "tasks", "drain"}
  BY <1>1, <1>4, <1>6, LoopsAre DEF ServerInv, EmittingInTask
<1>9. QED
  BY <1>2, <1>5, <1>6, <1>7, <1>8, ThreadHolds DEF ServerInv, QuietWithoutInput

\* The end of a round of pollers.
LEMMA PollersAdvance ==
  ASSUME ServerInv, NEW l \in Loops, NEW worked, main' = main, alive' = alive,
         running' = running, phase[l] = "pollers",
         phase' = [phase EXCEPT ![l] = AfterPollers(l, worked)]
  PROVE  /\ Advances(l) /\ phase' \in [Loops -> Phase]
         /\ l = "processing" => emitting = << >>
         /\ emitting # << >> => phase'["processing"] \in {"test", "tasks", "drain"}
<1>1. AfterPollers(l, worked) \in {"wait", "test"}
  BY DEF AfterPollers
<1> DEFINE next == AfterPollers(l, worked)
<1> HIDE DEF next
<1>2. /\ phase' \in [Loops -> Phase] /\ phase'[l] = next
      /\ \A m \in Loops : m # l => phase'[m] = phase[m]
  BY <1>1 DEF ServerInv, LoopTypes, Phase, next
<1>3. Advances(l)
  BY <1>1, <1>2 DEF Advances, next
<1>4. l = "processing" => emitting = << >>
  BY DEF ServerInv, EmittingInTask
<1>5. QED
  BY <1>2, <1>3, <1>4, LoopsAre DEF ServerInv, EmittingInTask

\* A poller that posts nothing.
LEMMA PollQuietHolds ==
  ASSUME ServerInv, NEW l \in Loops, NEW worked, PollersDone(l, worked),
         main' = main, alive' = alive, UNCHANGED flowVars, NetTypes'
  PROVE  ServerInv'
<1>1. /\ phase[l] = "pollers" /\ phase' = [phase EXCEPT ![l] = AfterPollers(l, worked)]
      /\ UNCHANGED <<running, queue, visible, synced, did_work>>
  BY DEF PollersDone
<1>2. /\ Advances(l) /\ phase' \in [Loops -> Phase]
      /\ emitting # << >> => phase'["processing"] \in {"test", "tasks", "drain"}
  BY <1>1, PollersAdvance
<1>3. LoopTypes'
  BY <1>1, <1>2 DEF ServerInv, LoopTypes
<1>4. FlowTypes' /\ emitting' = emitting
  BY SameTypes DEF ServerInv, flowVars
<1>5. QED
  BY <1>1, <1>2, <1>3, <1>4, ThreadHolds DEF ServerInv, QuietWithoutInput

\* The poller of the input loop, and the loops without one.
LEMMA PollHolds ==
  ASSUME ServerInv, \/ PollReceive \/ PollForward \/ PollError
                    \/ \E l \in Loops : PollIdle(l)
  PROVE  ServerInv'
<1>1. CASE PollReceive
  <2>1. UNCHANGED loopVars /\ UNCHANGED appVars /\ UNCHANGED flowVars
    BY <1>1 DEF PollReceive
  <2>2. LoopTypes' /\ AppTypes' /\ FlowTypes'
    BY <2>1, SameTypes DEF ServerInv
  <2>3. NetTypes'
    BY <1>1 DEF ServerInv, NetTypes, PollReceive
  <2>4. FlagSeen' /\ QuietWithoutInput' /\ EmittingInTask' /\ MainOrder'
    BY <2>1
    DEF ServerInv, FlagSeen, QuietWithoutInput, EmittingInTask, MainOrder, AllJoined,
        loopVars, appVars, flowVars
  <2>5. QED
    BY <2>2, <2>3, <2>4 DEF ServerInv
<1>2. CASE PollForward
  <2>1. /\ main' = main /\ alive' = alive /\ NetTypes'
        /\ UNCHANGED <<emitting, processed, published>>
    BY <1>2 DEF PollForward, appVars, ServerInv, NetTypes
  <2>2. CASE PollersDone("input", TRUE) /\ accepted' = accepted
    BY <2>1, <2>2, LoopsAre, PollQuietHolds DEF flowVars
  <2>3. CASE /\ packet[1] \in RequestPackets
             /\ accepted' = Append(accepted, packet[1])
             /\ PollersDonePosting("input", "processing", packet[1])
    <3> DEFINE task == packet[1]
    <3>1. /\ phase["input"] = "pollers"
          /\ phase' = [phase EXCEPT !["input"] = AfterPollers("input", TRUE)]
          /\ queue' = [queue EXCEPT !["processing"] = Append(queue["processing"], task)]
          /\ UNCHANGED <<running, visible, synced, did_work>> /\ task \in RequestPackets
      BY <2>3 DEF PollersDonePosting
    <3> HIDE DEF task
    <3>2. /\ Advances("input") /\ phase' \in [Loops -> Phase]
          /\ emitting # << >> => phase'["processing"] \in {"test", "tasks", "drain"}
      BY <2>1, <3>1, LoopsAre, PollersAdvance
    <3>3. LoopTypes'
      <4>1. /\ DOMAIN queue' = Loops /\ queue'["input"] = queue["input"]
            /\ queue'["output"] = queue["output"]
            /\ queue'["processing"] = Append(queue["processing"], task)
        BY <3>1, LoopsAre DEF ServerInv, LoopTypes
      <4>2. /\ queue'["processing"] \in Seq(RequestPackets)
            /\ Len(queue'["processing"]) = Len(queue["processing"]) + 1
            /\ Len(queue["processing"]) \in Nat
        BY <3>1, <4>1 DEF ServerInv, LoopTypes
      <4>3. \A m \in Loops : visible'[m] <= Len(queue'[m])
        BY <3>1, <4>1, <4>2, LoopsAre DEF ServerInv, LoopTypes
      <4>4. QED
        BY <3>1, <3>2, <4>1, <4>2, <4>3 DEF ServerInv, LoopTypes
    <3>4. FlowTypes'
      BY <2>1, <2>3 DEF ServerInv, FlowTypes
    <3>5. QED
      BY <2>1, <3>1, <3>2, <3>3, <3>4, LoopsAre, ThreadHolds
  <2>4. QED
    BY <1>2, <2>2, <2>3 DEF PollForward
<1>3. CASE PollError
  BY <1>3, LoopsAre, PollQuietHolds DEF PollError, appVars, ServerInv, NetTypes
<1>4. CASE \E l \in Loops : PollIdle(l)
  <2>1. PICK l \in Loops : PollIdle(l)
    BY <1>4
  <2>2. /\ PollersDone(l, FALSE) /\ main' = main /\ alive' = alive
        /\ UNCHANGED netVars /\ UNCHANGED flowVars
    BY <2>1 DEF PollIdle, appVars
  <2>3. NetTypes'
    BY <2>2, SameTypes DEF ServerInv
  <2>4. QED
    BY <2>2, <2>3, PollQuietHolds
<1>5. QED
  BY <1>1, <1>2, <1>3, <1>4

-----------------------------------------------------------------------------
(* The tasks *)

\* A dequeue that succeeds.
LEMMA DequeueTypes ==
  ASSUME ServerInv, NEW l \in {"processing", "output"}, Dequeue(l),
         main' = main, alive' = alive
  PROVE  /\ LoopTypes' /\ Advances(l)
         /\ queue[l] # << >> /\ queue'[l] = Tail(queue[l])
         /\ \A m \in Loops : m # l => queue'[m] = queue[m]
         /\ phase'[l] \in {"test", "tasks", "drain"}
<1>1. /\ phase[l] \in {"tasks", "wait", "drain"} /\ visible[l] > 0
      /\ queue' = [queue EXCEPT ![l] = Tail(queue[l])]
      /\ visible' = [visible EXCEPT ![l] = visible[l] - 1]
      /\ phase' = [phase EXCEPT ![l] = IF phase[l] = "wait" THEN "test" ELSE phase[l]]
      /\ did_work' = [did_work EXCEPT ![l] = TRUE]
      /\ running' = running /\ synced' = synced
  BY DEF Dequeue
<1>2. l \in Loops /\ visible[l] \in Nat /\ visible[l] <= Len(queue[l])
  BY LoopsAre DEF ServerInv, LoopTypes
<1>3. \/ l = "processing" /\ queue[l] \in Seq(RequestPackets)
      \/ l = "output" /\ queue[l] \in Seq(Nat \X Nat)
  BY DEF ServerInv, LoopTypes
<1>4. /\ queue[l] # << >> /\ Len(Tail(queue[l])) = Len(queue[l]) - 1 /\ Len(queue[l]) \in Nat
      /\ l = "processing" => Tail(queue[l]) \in Seq(RequestPackets)
      /\ l = "output" => Tail(queue[l]) \in Seq(Nat \X Nat)
  <2>1. Len(queue[l]) > 0
    BY <1>1, <1>2, <1>3
  <2>2. QED
    BY <1>3, <2>1
<1>5. /\ DOMAIN queue' = Loops /\ queue'[l] = Tail(queue[l])
      /\ \A m \in Loops : m # l => queue'[m] = queue[m]
  BY <1>1, <1>2 DEF ServerInv, LoopTypes
<1>6. /\ phase' \in [Loops -> Phase] /\ phase'[l] \in {"test", "tasks", "drain"}
      /\ phase'[l] = "drain" => phase[l] = "drain"
      /\ \A m \in Loops : m # l => phase'[m] = phase[m]
  BY <1>1, <1>2 DEF ServerInv, LoopTypes, Phase
<1>7. /\ visible' \in [Loops -> Nat] /\ visible'[l] = visible[l] - 1
      /\ \A m \in Loops : m # l => visible'[m] = visible[m]
  BY <1>1, <1>2 DEF ServerInv, LoopTypes
<1>8. ASSUME NEW m \in Loops PROVE visible'[m] <= Len(queue'[m])
  <2>1. CASE m = l
    BY <1>2, <1>4, <1>5, <1>7, <2>1
  <2>2. CASE m # l
    BY <1>5, <1>7, <2>2 DEF ServerInv, LoopTypes
  <2>3. QED
    BY <2>1, <2>2
<1>9. did_work' \in [Loops -> BOOLEAN]
  BY <1>1, <1>2 DEF ServerInv, LoopTypes
<1>10. /\ queue'["input"] = << >> /\ queue'["processing"] \in Seq(RequestPackets)
       /\ queue'["output"] \in Seq(Nat \X Nat)
  BY <1>3, <1>4, <1>5, LoopsAre DEF ServerInv, LoopTypes
<1>11. LoopTypes'
  BY <1>1, <1>5, <1>6, <1>7, <1>8, <1>9, <1>10 DEF ServerInv, LoopTypes
<1>12. Advances(l)
  BY <1>1, <1>2, <1>6 DEF Advances, ServerInv, FlagSeen
<1>13. QED
  BY <1>4, <1>5, <1>6, <1>11, <1>12

\* engine_.send(req).
LEMMA EngineTaskHolds ==
  ASSUME ServerInv, RunEngineTask
  PROVE  ServerInv'
<1> DEFINE r == Head(queue["processing"])
<1>1. /\ Dequeue("processing") /\ processed' = processed + 1
      /\ emitting' = MessagesOf(processed + 1, r)
      /\ main' = main /\ alive' = alive /\ UNCHANGED netVars /\ UNCHANGED <<accepted, published>>
  BY DEF RunEngineTask, appVars
<1>2. /\ LoopTypes' /\ Advances("processing") /\ queue["processing"] # << >>
      /\ phase'["processing"] \in {"test", "tasks", "drain"}
  BY <1>1, DequeueTypes
<1>3. r \in RequestPackets
  BY <1>2 DEF ServerInv, LoopTypes
<1> HIDE DEF r
<1>4. emitting' \in Seq(Nat \X Nat)
  <2>1. Emits[r] \in Nat /\ processed + 1 \in Nat
    BY <1>3, ServerAssumption DEF ServerInv, FlowTypes
  <2>2. QED
    BY <1>1, <2>1 DEF MessagesOf
<1>5. NetTypes' /\ FlowTypes'
  BY <1>1, <1>4, SameTypes DEF ServerInv, FlowTypes
<1>6. phase["input"] # "none"
  BY <1>2, LoopsAre DEF ServerInv, QuietWithoutInput
<1>7. QED
  BY <1>2, <1>5, <1>6, LoopsAre, ThreadHolds

\* on_market_data: the running task posts to the output loop.
LEMMA EmitHolds ==
  ASSUME ServerInv, EmitMessage
  PROVE  ServerInv'
<1> DEFINE task == Head(emitting)
<1>1. /\ emitting # << >> /\ emitting' = Tail(emitting)
      /\ queue' = [queue EXCEPT !["output"] = Append(queue["output"], task)]
      /\ UNCHANGED <<running, phase, visible, synced, did_work>>
      /\ UNCHANGED appVars /\ UNCHANGED netVars /\ UNCHANGED <<accepted, processed, published>>
  BY DEF EmitMessage, Post
<1>2. task \in Nat \X Nat /\ Tail(emitting) \in Seq(Nat \X Nat)
  BY <1>1 DEF ServerInv, FlowTypes
<1> HIDE DEF task
<1>3. /\ DOMAIN queue' = Loops /\ queue'["input"] = queue["input"]
      /\ queue'["processing"] = queue["processing"]
      /\ queue'["output"] = Append(queue["output"], task)
  BY <1>1, LoopsAre DEF ServerInv, LoopTypes
<1>4. /\ queue'["output"] \in Seq(Nat \X Nat)
      /\ Len(queue'["output"]) = Len(queue["output"]) + 1 /\ Len(queue["output"]) \in Nat
  BY <1>2, <1>3 DEF ServerInv, LoopTypes
<1>5. \A m \in Loops : visible[m] <= Len(queue'[m])
  BY <1>3, <1>4, LoopsAre DEF ServerInv, LoopTypes
<1>6. LoopTypes'
  BY <1>1, <1>3, <1>4, <1>5 DEF ServerInv, LoopTypes
<1>7. AppTypes' /\ NetTypes' /\ FlowTypes'
  BY <1>1, <1>2, SameTypes DEF ServerInv, FlowTypes
<1>8. phase["input"] # "none" /\ phase["processing"] \in {"test", "tasks", "drain"}
  BY <1>1 DEF ServerInv, QuietWithoutInput, EmittingInTask
<1>9. FlagSeen' /\ QuietWithoutInput' /\ EmittingInTask' /\ MainOrder'
  BY <1>1, <1>8
  DEF ServerInv, FlagSeen, QuietWithoutInput, EmittingInTask, MainOrder, AllJoined, appVars
<1>10. QED
  BY <1>6, <1>7, <1>9 DEF ServerInv

\* publisher_.send(ev).
LEMMA PublisherTaskHolds ==
  ASSUME ServerInv, RunPublisherTask
  PROVE  ServerInv'
<1>1. /\ Dequeue("output") /\ published' = Append(published, Head(queue["output"]))
      /\ main' = main /\ alive' = alive /\ UNCHANGED netVars
      /\ UNCHANGED <<emitting, accepted, processed>>
  BY DEF RunPublisherTask, appVars
<1>2. /\ LoopTypes' /\ Advances("output") /\ queue["output"] # << >>
  BY <1>1, DequeueTypes
<1>3. Head(queue["output"]) \in Nat \X Nat
  BY <1>2 DEF ServerInv, LoopTypes
<1>4. NetTypes' /\ FlowTypes'
  BY <1>1, <1>3, SameTypes DEF ServerInv, FlowTypes
<1>5. phase["input"] # "none"
  BY <1>2, LoopsAre DEF ServerInv, QuietWithoutInput
<1>6. phase'["processing"] = phase["processing"]
  BY <1>2, LoopsAre DEF Advances
<1>7. QED
  BY <1>1, <1>2, <1>4, <1>5, <1>6, LoopsAre, ThreadHolds DEF ServerInv, EmittingInTask

\* An enqueue becomes visible.
LEMMA VisibilityHolds ==
  ASSUME ServerInv, NEW l \in Loops, Visibility(l)
  PROVE  ServerInv'
<1>1. /\ visible[l] < Len(queue[l]) /\ visible' = [visible EXCEPT ![l] = visible[l] + 1]
      /\ UNCHANGED <<running, phase, queue, synced, did_work>>
      /\ UNCHANGED appVars /\ UNCHANGED netVars /\ UNCHANGED flowVars
  BY DEF Visibility, Propagate
<1>2. visible[l] \in Nat /\ Len(queue[l]) \in Nat
  BY LoopsAre DEF ServerInv, LoopTypes
<1>3. /\ visible' \in [Loops -> Nat] /\ visible'[l] = visible[l] + 1
      /\ \A m \in Loops : m # l => visible'[m] = visible[m]
  BY <1>1, <1>2 DEF ServerInv, LoopTypes
<1>4. \A m \in Loops : visible'[m] <= Len(queue[m])
  BY <1>1, <1>2, <1>3 DEF ServerInv, LoopTypes
<1>5. LoopTypes'
  BY <1>1, <1>3, <1>4 DEF ServerInv, LoopTypes
<1>6. AppTypes' /\ NetTypes' /\ FlowTypes'
  BY <1>1, SameTypes DEF ServerInv
<1>7. FlagSeen' /\ QuietWithoutInput' /\ EmittingInTask' /\ MainOrder'
  BY <1>1
  DEF ServerInv, FlagSeen, QuietWithoutInput, EmittingInTask, MainOrder, AllJoined, appVars,
      flowVars
<1>8. QED
  BY <1>5, <1>6, <1>7 DEF ServerInv

-----------------------------------------------------------------------------
(* All steps *)

\* Every step preserves the invariant.
LEMMA NextServer == ServerInv /\ [Next]_vars => ServerInv'
<1> SUFFICES ASSUME ServerInv, [Next]_vars PROVE ServerInv'
  OBVIOUS
<1>1. CASE MainStep \/ StopReceiver \/ Arrive \/ Gone
  BY <1>1, SetupHolds, StartLoopHolds, StopLoopHolds, JoinLoopHolds, DestroyLoopHolds DEF MainStep
<1>2. CASE InputStep \/ ProcessingStep \/ OutputStep
  BY <1>2, LoopsAre, LoopStepHolds, PollHolds, EngineTaskHolds, EmitHolds, PublisherTaskHolds
  DEF InputStep, ProcessingStep, OutputStep
<1>3. CASE \E l \in Loops : Visibility(l)
  BY <1>3, VisibilityHolds
<1>4. CASE UNCHANGED vars
  <2>1. UNCHANGED loopVars /\ UNCHANGED appVars /\ UNCHANGED netVars /\ UNCHANGED flowVars
    BY <1>4 DEF vars, loopVars, appVars, netVars, flowVars
  <2>2. LoopTypes' /\ AppTypes' /\ NetTypes' /\ FlowTypes'
    BY <2>1, SameTypes DEF ServerInv
  <2>3. FlagSeen' /\ QuietWithoutInput' /\ EmittingInTask' /\ MainOrder'
    BY <2>1
    DEF ServerInv, FlagSeen, QuietWithoutInput, EmittingInTask, MainOrder, AllJoined,
        loopVars, appVars, flowVars
  <2>4. QED
    BY <2>2, <2>3 DEF ServerInv
<1>5. QED
  BY <1>1, <1>2, <1>3, <1>4 DEF Next

\* Nobody posts to a loop that has begun its drain: the only two posts come from
\* the input loop's poller and from a task of the processing loop.
LEMMA NoLatePost ==
  ASSUME ServerInv, [Next]_vars, NEW l \in Loops, phase[l] \in {"drain", "exited", "joined"}
  PROVE  Len(queue'[l]) <= Len(queue[l])
<1>1. Len(queue[l]) \in Nat
  BY LoopsAre DEF ServerInv, LoopTypes
<1>2. CASE queue' = queue
  BY <1>1, <1>2
<1>3. CASE PollForward
  <2>1. CASE PollersDone("input", TRUE)
    BY <1>2, <2>1 DEF PollersDone
  <2>2. CASE PollersDonePosting("input", "processing", packet[1])
    <3>1. /\ phase["input"] = "pollers"
          /\ queue' = [queue EXCEPT !["processing"] = Append(queue["processing"], packet[1])]
      BY <2>2 DEF PollersDonePosting
    <3>2. l # "processing"
      BY <3>1, ProducerGone
    <3>3. queue'[l] = queue[l]
      BY <3>1, <3>2 DEF ServerInv, LoopTypes
    <3>4. QED
      BY <1>1, <3>3
  <2>3. QED
    BY <1>3, <2>1, <2>2 DEF PollForward
<1>4. CASE EmitMessage
  <2>1. emitting # << >> /\ queue' = [queue EXCEPT !["output"] = Append(queue["output"], Head(emitting))]
    BY <1>4 DEF EmitMessage, Post
  <2>2. l # "output"
    BY <2>1, ProducerGone
  <2>3. queue'[l] = queue[l]
    BY <2>1, <2>2 DEF ServerInv, LoopTypes
  <2>4. QED
    BY <1>1, <2>3
<1>5. CASE RunEngineTask \/ RunPublisherTask
  <2>1. PICK m \in {"processing", "output"} : Dequeue(m) /\ main' = main /\ alive' = alive
    BY <1>5 DEF RunEngineTask, RunPublisherTask, appVars
  <2>2. /\ queue[m] # << >> /\ queue'[m] = Tail(queue[m])
        /\ \A x \in Loops : x # m => queue'[x] = queue[x]
    BY <2>1, DequeueTypes
  <2>3. Len(queue'[m]) <= Len(queue[m])
    <3>1. queue[m] \in Seq(RequestPackets) \/ queue[m] \in Seq(Nat \X Nat)
      BY DEF ServerInv, LoopTypes
    <3>2. QED
      BY <2>2, <3>1
  <2>4. CASE l # m
    <3>1. queue'[l] = queue[l]
      BY <2>2, <2>4
    <3>2. QED
      BY <1>1, <3>1
  <2>5. QED
    BY <2>3, <2>4
<1>6. CASE MainStep \/ StopReceiver \/ Arrive \/ Gone \/ UNCHANGED vars
  <2>1. CASE StartLoop \/ StopLoop \/ JoinLoop \/ DestroyLoop
    BY <1>2, <2>1
    DEF StartLoop, Start, StartFails, StopLoop, Stop, JoinLoop, Join, DestroyLoop, loopVars
  <2>2. CASE Setup \/ DestroyStages \/ StopReceiver \/ Arrive
    BY <1>2, <2>2 DEF Setup, DestroyStages, StopReceiver, Arrive, loopVars
  <2>3. CASE UNCHANGED vars
    BY <1>2, <2>3 DEF vars
  <2>4. QED
    BY <1>6, <2>1, <2>2, <2>3 DEF MainStep, Gone
<1>7. CASE \/ PollReceive \/ PollError \/ \E m \in Loops : PollIdle(m) \/ LoopStep(m) \/ Visibility(m)
  <2>1. queue' = queue
    BY <1>7
    DEF PollReceive, PollError, PollIdle, PollersDone, LoopStep, TestFlag, DequeueFails,
        Visibility, Propagate, loopVars
  <2>2. QED
    BY <1>2, <2>1
<1>8. QED
  BY <1>3, <1>4, <1>5, <1>6, <1>7, LoopsAre DEF Next, InputStep, ProcessingStep, OutputStep

-----------------------------------------------------------------------------
(* What is under way *)

\* q is what all has after its first n elements: requests wait for the engine in
\* the order in which they were accepted.
Rest(q, all, n) ==
  /\ Len(all) = n + Len(q)
  /\ \A i \in 1 .. Len(q) : q[i] = all[n + i]

Handed == Rest(queue["processing"], accepted, processed)

\* Messages that are published, posted or still to be posted.
InARow(p, q, e) == (p \o q) \o e

Stream == InARow(published, queue["output"], emitting)

\* The sequence s lists what the first n accepted requests cause, in order.
Lists(s, n) ==
  /\ s \in Seq(Nat \X Nat)
  /\ \A i, j \in DOMAIN s : i < j => Precedes(s[i], s[j])
  /\ \A i \in DOMAIN s : s[i] \in Due /\ s[i][1] <= n
  /\ \A m \in Due : m[1] <= n => \E i \in DOMAIN s : s[i] = m

\* A loop that drains sees its whole queue, and leaves nothing behind: it was
\* stopped after its producer was joined, or never had a producer.
DrainedAt(l) ==
  /\ phase[l] = "drain" => visible[l] = Len(queue[l])
  /\ phase[l] \in {"exited", "joined"} => queue[l] = << >>
  /\ ~running[l] /\ phase[l] # "none" => synced[l] \/ queue[l] = << >>

Drained == \A l \in Loops : DrainedAt(l)

FlowInv == Handed /\ Lists(Stream, processed) /\ Drained

\* What a step may do to the queues and the histories.
LEMMA FlowStep ==
  ASSUME ServerInv, [Next]_vars
  PROVE  \/ queue' = queue /\ UNCHANGED flowVars
         \/ \E p \in RequestPackets :
              /\ phase["input"] = "pollers"
              /\ accepted' = Append(accepted, p)
              /\ queue' = [queue EXCEPT !["processing"] = Append(@, p)]
              /\ UNCHANGED <<emitting, processed, published>>
         \/ RunEngineTask
         \/ EmitMessage
         \/ RunPublisherTask
<1>1. CASE PollForward
  <2>1. CASE /\ packet[1] \in RequestPackets
             /\ accepted' = Append(accepted, packet[1])
             /\ PollersDonePosting("input", "processing", packet[1])
    BY <1>1, <2>1 DEF PollForward, PollersDonePosting
  <2>2. CASE PollersDone("input", TRUE) /\ UNCHANGED accepted
    BY <1>1, <2>2 DEF PollForward, PollersDone, flowVars
  <2>3. QED
    BY <1>1, <2>1, <2>2 DEF PollForward
<1>2. CASE MainStep \/ StopReceiver \/ Arrive \/ Gone \/ UNCHANGED vars
  <2>1. CASE StartLoop \/ StopLoop \/ JoinLoop \/ DestroyLoop
    BY <2>1
    DEF StartLoop, Start, StartFails, StopLoop, Stop, JoinLoop, Join, DestroyLoop, loopVars
  <2>2. CASE Setup \/ DestroyStages \/ StopReceiver \/ Arrive
    BY <2>2 DEF Setup, DestroyStages, StopReceiver, Arrive, loopVars
  <2>3. CASE UNCHANGED vars
    BY <2>3 DEF vars, flowVars
  <2>4. QED
    BY <1>2, <2>1, <2>2, <2>3 DEF MainStep, Gone
<1>3. CASE \/ PollReceive \/ PollError \/ \E m \in Loops : PollIdle(m) \/ LoopStep(m) \/ Visibility(m)
  BY <1>3
  DEF PollReceive, PollError, PollIdle, PollersDone, LoopStep, TestFlag, DequeueFails,
      Visibility, Propagate, loopVars
<1>4. QED
  BY <1>1, <1>2, <1>3, LoopsAre DEF Next, InputStep, ProcessingStep, OutputStep

\* A queue grows with what it is the rest of, and loses its head to the front.
LEMMA RestMoves ==
  ASSUME NEW S, NEW all \in Seq(S), NEW q \in Seq(S), NEW n \in Nat, Rest(q, all, n)
  PROVE  /\ \A p \in S : Rest(Append(q, p), Append(all, p), n)
         /\ q # << >> => Rest(Tail(q), all, n + 1)
<1>1. ASSUME NEW p \in S PROVE Rest(Append(q, p), Append(all, p), n)
  <2>1. Len(Append(q, p)) = Len(q) + 1 /\ Len(Append(all, p)) = Len(all) + 1
    OBVIOUS
  <2>2. ASSUME NEW i \in 1 .. Len(q) + 1 PROVE Append(q, p)[i] = Append(all, p)[n + i]
    <3>1. CASE i = Len(q) + 1
      <4>1. n + i = Len(all) + 1
        BY <3>1 DEF Rest
      <4>2. Append(q, p)[Len(q) + 1] = p /\ Append(all, p)[Len(all) + 1] = p
        OBVIOUS
      <4>3. QED
        BY <3>1, <4>1, <4>2
    <3>2. CASE i \in 1 .. Len(q)
      BY <3>2 DEF Rest
    <3>3. i = Len(q) + 1 \/ i \in 1 .. Len(q)
      <4>1. Len(q) \in Nat
        OBVIOUS
      <4>2. QED
        BY <4>1
    <3>4. QED
      BY <3>1, <3>2, <3>3
  <2>3. QED
    BY <2>1, <2>2 DEF Rest
<1>2. ASSUME q # << >> PROVE Rest(Tail(q), all, n + 1)
  <2>1. Len(Tail(q)) = Len(q) - 1 /\ \A i \in 1 .. Len(q) - 1 : Tail(q)[i] = q[i + 1]
    BY <1>2
  <2>2. Len(q) \in Nat /\ Len(all) = n + Len(q)
    BY DEF Rest
  <2>3. ASSUME NEW i \in 1 .. Len(q) - 1 PROVE Tail(q)[i] = all[(n + 1) + i]
    <3>1. i + 1 \in 1 .. Len(q) /\ n + (i + 1) = (n + 1) + i
      BY <2>2
    <3>2. q[i + 1] = all[n + (i + 1)]
      BY <3>1 DEF Rest
    <3>3. QED
      BY <2>1, <3>1, <3>2
  <2>4. Len(all) = (n + 1) + Len(Tail(q))
    <3> DEFINE a == Len(all)
               b == Len(q)
               c == Len(Tail(q))
    <3>1. b \in Nat /\ a = n + b /\ c = b - 1
      BY <2>1, <2>2
    <3> HIDE DEF a, b, c
    <3>2. a = (n + 1) + c
      BY <3>1
    <3>3. QED
      BY <3>2 DEF a, c
  <2>5. \A i \in 1 .. Len(Tail(q)) : Tail(q)[i] = all[(n + 1) + i]
    BY <2>1, <2>3
  <2>6. QED
    BY <2>4, <2>5 DEF Rest
<1>3. QED
  BY <1>1, <1>2

\* A request moves from the session to the processing loop and from there to the
\* engine without changing its place.
LEMMA HandedHolds ==
  ASSUME ServerInv, Handed, [Next]_vars
  PROVE  Handed'
<1> DEFINE q == queue["processing"]
<1>1. q \in Seq(RequestPackets) /\ accepted \in Seq(RequestPackets) /\ processed \in Nat
      /\ "processing" \in DOMAIN queue /\ "output" \in DOMAIN queue
  BY LoopsAre DEF ServerInv, LoopTypes, FlowTypes
<1>2. CASE queue' = queue /\ UNCHANGED flowVars
  BY <1>2 DEF Handed, flowVars
<1>3. CASE \E p \in RequestPackets :
             /\ accepted' = Append(accepted, p)
             /\ queue' = [queue EXCEPT !["processing"] = Append(@, p)]
             /\ UNCHANGED <<emitting, processed, published>>
  <2>1. PICK p \in RequestPackets :
          /\ accepted' = Append(accepted, p)
          /\ queue'["processing"] = Append(q, p)
          /\ processed' = processed
    BY <1>1, <1>3
  <2>2. QED
    BY <1>1, <2>1, RestMoves DEF Handed
<1>4. CASE RunEngineTask
  <2>1. q # << >> /\ queue'["processing"] = Tail(q) /\ processed' = processed + 1
        /\ accepted' = accepted
    <3>1. Dequeue("processing") /\ main' = main /\ alive' = alive
      BY <1>4 DEF RunEngineTask, appVars
    <3>2. q # << >> /\ queue'["processing"] = Tail(q)
      BY <3>1, DequeueTypes
    <3>3. QED
      BY <1>4, <3>2 DEF RunEngineTask
  <2>2. QED
    BY <1>1, <2>1, RestMoves DEF Handed
<1>5. CASE EmitMessage
  BY <1>1, <1>5 DEF EmitMessage, Post, Handed
<1>6. CASE RunPublisherTask
  <2>1. queue'["processing"] = q /\ processed' = processed /\ accepted' = accepted
    <3>1. Dequeue("output") /\ main' = main /\ alive' = alive
      BY <1>6 DEF RunPublisherTask, appVars
    <3>2. queue'["processing"] = q
      BY <3>1, DequeueTypes, LoopsAre
    <3>3. QED
      BY <1>6, <3>2 DEF RunPublisherTask
  <2>2. QED
    BY <2>1 DEF Handed
<1>7. QED
  BY <1>2, <1>3, <1>4, <1>5, <1>6, FlowStep

\* An element that moves from the head of one sequence to the end of the one
\* before it stays in its place.
LEMMA HeadMoves ==
  ASSUME NEW S, NEW p \in Seq(S), NEW q \in Seq(S), q # << >>
  PROVE  Append(p, Head(q)) \o Tail(q) = p \o q
<1> DEFINE h == <<Head(q)>>
           r == Tail(q)
<1>1. Head(q) \in S /\ r \in Seq(S) /\ Len(r) = Len(q) - 1
      /\ \A i \in 1 .. Len(r) : r[i] = q[i + 1]
  BY HeadTailProperties
<1>2. h \in Seq(S) /\ Len(h) = 1 /\ h[1] = q[1]
  BY <1>1
<1>3. Append(p, Head(q)) = p \o h
  BY <1>1, AppendIsConcat
<1> HIDE DEF h, r
<1>h. h \in Seq(S)
  BY <1>2
<1>r. r \in Seq(S)
  BY <1>1
<1>4. h \o r = q
  <2>1. /\ h \o r \in Seq(S) /\ Len(h \o r) = Len(h) + Len(r)
        /\ \A i \in 1 .. Len(h) + Len(r) :
             (h \o r)[i] = IF i <= Len(h) THEN h[i] ELSE r[i - Len(h)]
    BY <1>h, <1>r, ConcatProperties
  <2>2. Len(q) \in Nat /\ Len(h) + Len(r) = Len(q)
    <3>1. Len(q) \in Nat
      BY LenProperties
    <3>2. QED
      BY <1>1, <1>2, <3>1
  <2>3. ASSUME NEW i \in 1 .. Len(q) PROVE (h \o r)[i] = q[i]
    <3>1. (h \o r)[i] = IF i <= 1 THEN h[i] ELSE r[i - 1]
      BY <1>2, <2>1, <2>2
    <3>2. CASE i = 1
      BY <1>2, <3>1, <3>2
    <3>3. CASE i # 1
      <4>1. i - 1 \in 1 .. Len(r) /\ (i - 1) + 1 = i /\ ~(i <= 1)
        BY <1>1, <2>2, <3>3
      <4>2. r[i - 1] = q[(i - 1) + 1]
        BY <1>1, <4>1
      <4>3. QED
        BY <3>1, <4>1, <4>2
    <3>4. QED
      BY <3>2, <3>3
  <2>4. QED
    BY <2>1, <2>2, <2>3, SeqEqual
<1>5. (p \o h) \o r = p \o (h \o r)
  BY <1>h, <1>r, ConcatAssociative
<1>6. QED
  BY <1>3, <1>4, <1>5 DEF r

\* Posting or publishing a message leaves the stream as it is.
LEMMA StreamMoves ==
  ASSUME NEW S, NEW p \in Seq(S), NEW q \in Seq(S), NEW e \in Seq(S)
  PROVE  /\ q # << >> => InARow(Append(p, Head(q)), Tail(q), e) = InARow(p, q, e)
         /\ e # << >> => InARow(p, Append(q, Head(e)), Tail(e)) = InARow(p, q, e)
<1>1. q # << >> => InARow(Append(p, Head(q)), Tail(q), e) = InARow(p, q, e)
  BY HeadMoves DEF InARow
<1>2. ASSUME e # << >> PROVE InARow(p, Append(q, Head(e)), Tail(e)) = InARow(p, q, e)
  <2> DEFINE a == Append(q, Head(e))
             r == Tail(e)
  <2>1. Head(e) \in S /\ r \in Seq(S)
    BY <1>2, HeadTailProperties
  <2>2. a \in Seq(S)
    BY <2>1, AppendProperties
  <2>3. a \o r = q \o e
    BY <1>2, HeadMoves
  <2>4. r \in Seq(S)
    BY <2>1
  <2> HIDE DEF a, r
  <2>5. (p \o a) \o r = p \o (a \o r)
    BY <2>2, <2>4, ConcatAssociative
  <2>6. p \o (q \o e) = (p \o q) \o e
    BY ConcatAssociative
  <2>7. QED
    BY <2>3, <2>5, <2>6 DEF a, r, InARow
<1>3. QED
  BY <1>1, <1>2

\* What is due, pair by pair.
LEMMA DueAre ==
  ASSUME ServerInv
  PROVE  \A m : m \in Due <=> \E n \in 1 .. Len(accepted) :
                                m \in {n} \X (1 .. Emits[accepted[n]])
<1>1. DOMAIN accepted = 1 .. Len(accepted)
  BY DEF ServerInv, FlowTypes
<1>2. QED
  BY <1>1 DEF Due

\* A newly accepted request is later than everything that has been handled.
LEMMA AcceptKeepsLists ==
  ASSUME ServerInv, ServerInv', NEW p \in RequestPackets, accepted' = Append(accepted, p),
         processed' = processed, NEW s, Lists(s, processed), processed <= Len(accepted)
  PROVE  Lists(s, processed)'
<1>1. /\ accepted \in Seq(RequestPackets) /\ processed \in Nat /\ Len(accepted) \in Nat
      /\ Len(accepted') = Len(accepted) + 1
      /\ \A n \in 1 .. Len(accepted) : accepted'[n] = accepted[n]
  BY DEF ServerInv, FlowTypes
<1>2. ASSUME NEW m, m[1] <= processed PROVE m \in Due' <=> m \in Due
  <2>1. ASSUME m \in Due PROVE m \in Due'
    <3>1. PICK n \in 1 .. Len(accepted) : m \in {n} \X (1 .. Emits[accepted[n]])
      BY <2>1, DueAre
    <3>2. n \in 1 .. Len(accepted') /\ accepted'[n] = accepted[n]
      BY <1>1
    <3>3. DOMAIN accepted' = 1 .. Len(accepted')
      BY DEF ServerInv, FlowTypes
    <3>4. QED
      BY <3>1, <3>2, <3>3 DEF Due
  <2>2. ASSUME m \in Due' PROVE m \in Due
    <3>1. PICK n \in 1 .. Len(accepted') : m \in {n} \X (1 .. Emits[accepted'[n]])
      <4>1. DOMAIN accepted' = 1 .. Len(accepted')
        BY DEF ServerInv, FlowTypes
      <4>2. QED
        BY <2>2, <4>1 DEF Due
    <3>2. n = m[1]
      BY <3>1
    <3>3. n \in 1 .. Len(accepted)
      BY <1>1, <1>2, <3>1, <3>2
    <3>4. QED
      BY <1>1, <3>1, <3>3, DueAre
  <2>3. QED
    BY <2>1, <2>2
<1>3. s \in Seq(Nat \X Nat) /\ \A i, j \in DOMAIN s : i < j => Precedes(s[i], s[j])
  BY DEF Lists
<1>4. \A i \in DOMAIN s : s[i] \in Due' /\ s[i][1] <= processed
  BY <1>2 DEF Lists
<1>5. \A m \in Due' : m[1] <= processed => \E i \in DOMAIN s : s[i] = m
  BY <1>2 DEF Lists
<1>6. QED
  BY <1>3, <1>4, <1>5 DEF Lists, Precedes

\* The messages of the request that the engine takes next come after all others.
LEMMA TaskExtendsLists ==
  ASSUME ServerInv, processed + 1 <= Len(accepted), NEW s, Lists(s, processed)
  PROVE  Lists(s \o MessagesOf(processed + 1, accepted[processed + 1]), processed + 1)
<1> DEFINE n == processed + 1
           k == Emits[accepted[n]]
           e == MessagesOf(n, accepted[n])
           t == s \o e
<1>1. /\ processed \in Nat /\ n \in Nat /\ n \in 1 .. Len(accepted)
      /\ accepted[n] \in RequestPackets
  BY DEF ServerInv, FlowTypes
<1>2. k \in Nat
  BY <1>1, ServerAssumption
<1>3. e \in Seq(Nat \X Nat) /\ Len(e) = k /\ \A i \in 1 .. k : e[i] = <<n, i>>
  BY <1>1, <1>2 DEF MessagesOf
<1>4. /\ \A i \in 1 .. k : <<n, i>> \in Due
      /\ \A m \in Due : m[1] \in Nat /\ (m[1] = n => \E i \in 1 .. k : m = <<n, i>>)
  BY <1>1, DueAre
<1>5. /\ s \in Seq(Nat \X Nat) /\ Len(s) \in Nat /\ DOMAIN s = 1 .. Len(s)
      /\ \A i \in 1 .. Len(s) : s[i] \in Due /\ s[i][1] <= processed
  BY DEF Lists
<1> HIDE DEF n, k, e
<1>6. /\ t \in Seq(Nat \X Nat) /\ DOMAIN t = 1 .. Len(s) + k
      /\ \A i \in 1 .. Len(s) + k : t[i] = IF i <= Len(s) THEN s[i] ELSE e[i - Len(s)]
  <2>1. e \in Seq(Nat \X Nat)
    BY <1>3
  <2>2. s \in Seq(Nat \X Nat)
    BY <1>5
  <2>3. /\ t \in Seq(Nat \X Nat) /\ Len(t) = Len(s) + Len(e)
        /\ \A i \in 1 .. Len(s) + Len(e) : t[i] = IF i <= Len(s) THEN s[i] ELSE e[i - Len(s)]
    BY <2>1, <2>2, ConcatProperties
  <2> HIDE DEF t
  <2>4. DOMAIN t = 1 .. Len(t)
    BY <2>3
  <2>5. QED
    BY <1>3, <2>3, <2>4
<1> HIDE DEF t
<1>7. ASSUME NEW i \in 1 .. Len(s) + k
      PROVE  \/ i \in 1 .. Len(s) /\ t[i] = s[i]
             \/ i - Len(s) \in 1 .. k /\ t[i] = <<n, i - Len(s)>>
  <2>1. CASE i <= Len(s)
    BY <1>5, <1>6, <2>1
  <2>2. CASE ~(i <= Len(s))
    <3>1. i - Len(s) \in 1 .. k
      BY <1>2, <1>5, <2>2
    <3>2. QED
      BY <1>3, <1>6, <2>2, <3>1
  <2>3. QED
    BY <2>1, <2>2
<1>8. ASSUME NEW i \in DOMAIN t, NEW j \in DOMAIN t, i < j PROVE Precedes(t[i], t[j])
  <2>1. i \in 1 .. Len(s) + k /\ j \in 1 .. Len(s) + k
    BY <1>6
  <2>2. CASE j \in 1 .. Len(s) /\ t[j] = s[j]
    <3>1. i \in 1 .. Len(s) /\ ~(i - Len(s) \in 1 .. k)
      BY <1>2, <1>5, <1>8, <2>1, <2>2
    <3>2. t[i] = s[i]
      BY <1>7, <2>1, <3>1
    <3>3. QED
      BY <1>5, <1>8, <2>2, <3>1, <3>2 DEF Lists
  <2>3. CASE j - Len(s) \in 1 .. k /\ t[j] = <<n, j - Len(s)>>
    <3>1. CASE i \in 1 .. Len(s) /\ t[i] = s[i]
      <4>1. s[i][1] \in Nat /\ s[i][1] <= processed
        BY <1>4, <1>5, <3>1
      <4>2. s[i][1] < n
        BY <1>1, <4>1 DEF n
      <4>3. QED
        BY <2>3, <3>1, <4>2 DEF Precedes
    <3>2. CASE i - Len(s) \in 1 .. k /\ t[i] = <<n, i - Len(s)>>
      <4>1. i - Len(s) < j - Len(s)
        BY <1>5, <1>8, <2>1
      <4>2. QED
        BY <2>3, <3>2, <4>1 DEF Precedes
    <3>3. QED
      BY <1>7, <2>1, <3>1, <3>2
  <2>4. QED
    BY <1>7, <2>1, <2>2, <2>3
<1>9. ASSUME NEW i \in DOMAIN t PROVE t[i] \in Due /\ t[i][1] <= n
  <2>1. i \in 1 .. Len(s) + k
    BY <1>6
  <2>2. CASE i \in 1 .. Len(s) /\ t[i] = s[i]
    <3>1. s[i] \in Due /\ s[i][1] \in Nat /\ s[i][1] <= processed
      BY <1>4, <1>5, <2>2
    <3>2. s[i][1] <= n
      BY <1>1, <3>1 DEF n
    <3>3. QED
      BY <2>2, <3>1, <3>2
  <2>3. CASE i - Len(s) \in 1 .. k /\ t[i] = <<n, i - Len(s)>>
    BY <1>1, <1>4, <2>3
  <2>4. QED
    BY <1>7, <2>1, <2>2, <2>3
<1>10. ASSUME NEW m \in Due, m[1] <= n PROVE \E i \in DOMAIN t : t[i] = m
  <2>1. CASE m[1] <= processed
    <3>1. PICK i \in 1 .. Len(s) : s[i] = m
      BY <1>5, <2>1 DEF Lists
    <3>2. i \in 1 .. Len(s) + k /\ i <= Len(s)
      BY <1>2, <1>5
    <3>3. QED
      BY <1>6, <3>1, <3>2
  <2>2. CASE m[1] = n
    <3>1. PICK i \in 1 .. k : m = <<n, i>>
      BY <1>4, <2>2
    <3>2. /\ Len(s) + i \in 1 .. Len(s) + k /\ ~(Len(s) + i <= Len(s))
          /\ (Len(s) + i) - Len(s) = i
      BY <1>2, <1>5
    <3>3. t[Len(s) + i] = e[i]
      BY <1>6, <3>2
    <3>4. QED
      BY <1>3, <1>6, <3>1, <3>2, <3>3
  <2>3. m[1] <= processed \/ m[1] = n
    BY <1>1, <1>4, <1>10 DEF n
  <2>4. QED
    BY <2>1, <2>2, <2>3
<1>11. Lists(t, n)
  BY <1>6, <1>8, <1>9, <1>10 DEF Lists
<1>12. QED
  BY <1>11 DEF t, e, n

\* What is published, posted or about to be posted is at any moment exactly what
\* the requests handled so far cause.
LEMMA StreamHolds ==
  ASSUME ServerInv, ServerInv', Handed, Lists(Stream, processed), [Next]_vars
  PROVE  Lists(Stream, processed)'
<1> DEFINE p == published
           q == queue["output"]
           e == emitting
<1>1. /\ p \in Seq(Nat \X Nat) /\ q \in Seq(Nat \X Nat) /\ e \in Seq(Nat \X Nat)
      /\ processed \in Nat /\ accepted \in Seq(RequestPackets)
      /\ queue["processing"] \in Seq(RequestPackets)
      /\ "processing" \in DOMAIN queue /\ "output" \in DOMAIN queue
  BY LoopsAre DEF ServerInv, LoopTypes, FlowTypes
<1>p. p \in Seq(Nat \X Nat)
  BY <1>1
<1>q. q \in Seq(Nat \X Nat)
  BY <1>1
<1>e. e \in Seq(Nat \X Nat)
  BY <1>1
<1>2. ASSUME Stream' = Stream, UNCHANGED <<processed, accepted>>
      PROVE  Lists(Stream, processed)'
  BY <1>2 DEF Lists, Due
<1>3. CASE queue' = queue /\ UNCHANGED flowVars
  BY <1>2, <1>3 DEF flowVars, Stream
<1>4. CASE \E r \in RequestPackets :
             /\ accepted' = Append(accepted, r)
             /\ queue' = [queue EXCEPT !["processing"] = Append(@, r)]
             /\ UNCHANGED <<emitting, processed, published>>
  <2>1. PICK r \in RequestPackets :
          /\ accepted' = Append(accepted, r)
          /\ queue'["output"] = q
          /\ UNCHANGED <<emitting, processed, published>>
    BY <1>1, <1>4
  <2>2. Stream' = Stream /\ processed' = processed
    BY <2>1 DEF Stream
  <2>3. processed <= Len(accepted)
    BY <1>1 DEF Handed, Rest
  <2>4. \A s : Lists(s, processed) => Lists(s, processed)'
    BY <2>1, <2>3, AcceptKeepsLists
  <2>5. QED
    BY <2>2, <2>4 DEF Lists
<1>5. CASE RunEngineTask
  <2>1. /\ e = << >> /\ Dequeue("processing") /\ main' = main /\ alive' = alive
        /\ processed' = processed + 1 /\ published' = published /\ accepted' = accepted
        /\ emitting' = MessagesOf(processed + 1, Head(queue["processing"]))
    BY <1>5 DEF RunEngineTask, appVars
  <2>2. queue["processing"] # << >> /\ queue'["output"] = q
    BY <2>1, DequeueTypes, LoopsAre
  <2>3. processed + 1 <= Len(accepted) /\ Head(queue["processing"]) = accepted[processed + 1]
    <3>1. Len(queue["processing"]) \in Nat /\ Len(queue["processing"]) >= 1
          /\ Head(queue["processing"]) = queue["processing"][1]
      BY <1>1, <2>2
    <3>2. 1 \in 1 .. Len(queue["processing"])
      BY <3>1
    <3>3. queue["processing"][1] = accepted[processed + 1]
      BY <3>2 DEF Handed, Rest
    <3>4. Len(accepted) = processed + Len(queue["processing"])
      BY DEF Handed, Rest
    <3>5. QED
      BY <1>1, <3>1, <3>3, <3>4
  <2>4. p \o q \in Seq(Nat \X Nat)
    BY <1>1, ConcatProperties
  <2>5. Stream = p \o q
    BY <2>1, <2>4, ConcatEmptySeq DEF Stream, InARow
  <2>6. Stream' = Stream \o MessagesOf(processed + 1, accepted[processed + 1])
    BY <2>1, <2>2, <2>3, <2>5 DEF Stream, InARow
  <2>7. Lists(Stream', processed + 1)
    BY <2>3, <2>6, TaskExtendsLists
  <2>8. QED
    BY <2>1, <2>7 DEF Lists, Due
<1>6. CASE EmitMessage
  <2>1. /\ e # << >> /\ queue'["output"] = Append(q, Head(e)) /\ emitting' = Tail(e)
        /\ published' = p /\ UNCHANGED <<processed, accepted>>
    BY <1>1, <1>6 DEF EmitMessage, Post
  <2>2. Stream' = InARow(p, Append(q, Head(e)), Tail(e))
    BY <2>1 DEF Stream
  <2>3. InARow(p, Append(q, Head(e)), Tail(e)) = InARow(p, q, e)
    BY <1>p, <1>q, <1>e, <2>1, StreamMoves
  <2>4. QED
    BY <1>2, <2>1, <2>2, <2>3 DEF Stream
<1>7. CASE RunPublisherTask
  <2>1. /\ Dequeue("output") /\ main' = main /\ alive' = alive
        /\ published' = Append(p, Head(q)) /\ UNCHANGED <<emitting, accepted, processed>>
    BY <1>7 DEF RunPublisherTask, appVars
  <2>2. q # << >> /\ queue'["output"] = Tail(q)
    BY <2>1, DequeueTypes
  <2>3. Stream' = InARow(Append(p, Head(q)), Tail(q), e)
    BY <2>1, <2>2 DEF Stream
  <2>4. InARow(Append(p, Head(q)), Tail(q), e) = InARow(p, q, e)
    BY <1>p, <1>q, <1>e, <2>2, StreamMoves
  <2>5. QED
    BY <1>2, <2>1, <2>3, <2>4 DEF Stream
<1>8. QED
  BY <1>3, <1>4, <1>5, <1>6, <1>7, FlowStep

\* Whoever can post finds the consumer's flag still set: stop() clears it only
\* after the producer's thread has been joined.
LEMMA ConsumerRunning ==
  ASSUME ServerInv
  PROVE  /\ phase["input"] = "pollers" => running["processing"]
         /\ emitting # << >> => running["output"]
<1>1. main[1] \in {"init", "start", "up", "stop", "join", "stopped", "destroy",
                   "dstop", "djoin", "gone"} /\ main[2] \in 1 .. 3
  BY DEF ServerInv, AppTypes
<1>2. CASE phase["input"] = "none" \/ AllJoined
  BY <1>2, LoopsAre DEF ServerInv, QuietWithoutInput, EmittingInTask, AllJoined
<1>3. CASE main[1] = "up"
  BY <1>3, LoopsAre DEF ServerInv, MainOrder
<1>4. CASE main[1] \in {"stop", "join"}
  <2>1. /\ main[2] > 1 => phase["input"] = "joined"
        /\ main[2] > 2 => phase["processing"] = "joined"
        /\ main[2] < 2 => running["processing"]
        /\ main[2] < 3 => running["output"]
    BY <1>1, <1>4, LoopsAre DEF ServerInv, MainOrder
  <2>2. QED
    BY <1>1, <2>1 DEF ServerInv, EmittingInTask
<1>5. QED
  BY <1>1, <1>2, <1>3, <1>4 DEF ServerInv, MainOrder

\* A loop that a step leaves alone.
LEMMA DrainedSame ==
  ASSUME NEW l, DrainedAt(l), phase'[l] = phase[l], queue'[l] = queue[l],
         visible'[l] = visible[l], running'[l] = running[l], synced'[l] = synced[l]
  PROVE  DrainedAt(l)'
BY DEF DrainedAt

\* stop() comes after the join of the producer, or finds nothing queued.
LEMMA DrainedStop ==
  ASSUME ServerInv, Drained, NEW l \in Loops, Stop(l, ProducerJoined(l)),
         ProducerJoined(l) \/ queue[l] = << >>
  PROVE  Drained'
<1>1. /\ running' = [running EXCEPT ![l] = FALSE]
      /\ synced' = [synced EXCEPT ![l] = ProducerJoined(l)]
      /\ phase' = phase /\ queue' = queue /\ visible' = visible
      /\ running \in [Loops -> BOOLEAN] /\ synced \in [Loops -> BOOLEAN]
  BY DEF Stop, ServerInv, LoopTypes
<1>2. ASSUME NEW m \in Loops PROVE DrainedAt(m)'
  <2>1. CASE m # l
    BY <1>1, <2>1, DrainedSame DEF Drained
  <2>2. CASE m = l
    <3>1. synced'[l] = ProducerJoined(l)
      BY <1>1
    <3>2. QED
      BY <1>1, <2>2, <3>1 DEF Drained, DrainedAt
  <2>3. QED
    BY <2>1, <2>2
<1>3. QED
  BY <1>2 DEF Drained

\* The thread that join() waited for left nothing behind.
LEMMA DrainedJoin ==
  ASSUME ServerInv, Drained, NEW l \in Loops, Join(l)
  PROVE  Drained'
<1>1. /\ phase[l] \in {"none", "exited", "joined"}
      /\ phase' = [phase EXCEPT ![l] = IF phase[l] = "none" THEN "none" ELSE "joined"]
      /\ UNCHANGED <<running, queue, visible, synced>> /\ phase \in [Loops -> Phase]
  BY DEF Join, ServerInv, LoopTypes
<1>2. ASSUME NEW m \in Loops PROVE DrainedAt(m)'
  <2>1. CASE m # l
    BY <1>1, <2>1, DrainedSame DEF Drained
  <2>2. CASE m = l
    BY <1>1, <2>2 DEF Drained, DrainedAt
  <2>3. QED
    BY <2>1, <2>2
<1>3. QED
  BY <1>2 DEF Drained

\* The main thread.
LEMMA DrainedMain ==
  ASSUME ServerInv, Drained, MainStep \/ StopReceiver \/ Arrive \/ Gone \/ UNCHANGED vars
  PROVE  Drained'
<1>1. main[2] \in 1 .. 3 /\ queue["input"] = << >>
  BY DEF ServerInv, AppTypes, LoopTypes
<1>2. CASE UNCHANGED loopVars
  <2>1. UNCHANGED <<running, phase, queue, visible, synced>>
    BY <1>2 DEF loopVars
  <2>2. QED
    BY <2>1, DrainedSame DEF Drained
<1>3. CASE StartLoop
  <2> DEFINE l == StartOrder[main[2]]
  <2>1. l \in Loops
    BY <1>1, LoopsAre
  <2>2. CASE Start(l)
    <3>1. /\ running' = [running EXCEPT ![l] = TRUE] /\ phase' = [phase EXCEPT ![l] = "test"]
          /\ UNCHANGED <<queue, visible, synced>>
          /\ running \in [Loops -> BOOLEAN] /\ phase \in [Loops -> Phase]
      BY <2>2 DEF Start, ServerInv, LoopTypes
    <3> HIDE DEF l
    <3>2. ASSUME NEW m \in Loops PROVE DrainedAt(m)'
      <4>1. CASE m # l
        BY <2>1, <3>1, <4>1, DrainedSame DEF Drained
      <4>2. CASE m = l
        BY <3>1, <4>2 DEF DrainedAt
      <4>3. QED
        BY <4>1, <4>2
    <3>3. QED
      BY <3>2 DEF Drained
  <2>3. CASE StartFails(l)
    BY <1>2, <2>3 DEF StartFails
  <2>4. QED
    BY <1>3, <2>2, <2>3 DEF StartLoop
<1>4. CASE StopLoop
  <2> DEFINE l == StopOrder[main[2]]
  <2>1. l \in Loops /\ Stop(l, ProducerJoined(l))
    BY <1>1, <1>4, LoopsAre DEF StopLoop
  <2>2. \A j \in 1 .. 3 : j < main[2] => phase[StopOrder[j]] = "joined"
    BY <1>4 DEF StopLoop, ServerInv, MainOrder
  <2>3. ProducerJoined(l) \/ queue[l] = << >>
    <3>1. CASE main[2] = 1
      BY <1>1, <3>1, LoopsAre
    <3>2. CASE main[2] = 2
      BY <2>2, <3>2, LoopsAre DEF ProducerJoined, ProducerOf
    <3>3. CASE main[2] = 3
      BY <2>2, <3>3, LoopsAre DEF ProducerJoined, ProducerOf
    <3>4. QED
      BY <1>1, <3>1, <3>2, <3>3
  <2> HIDE DEF l
  <2>4. QED
    BY <2>1, <2>3, DrainedStop
<1>5. CASE JoinLoop
  <2>1. StopOrder[main[2]] \in Loops /\ Join(StopOrder[main[2]])
    BY <1>1, <1>5, LoopsAre DEF JoinLoop
  <2>2. QED
    BY <2>1, DrainedJoin
<1>6. CASE DestroyLoop
  <2> DEFINE l == DestroyOrder[main[2]]
  <2>1. l \in Loops
    BY <1>1, LoopsAre
  <2> HIDE DEF l
  <2>2. CASE main[1] = "dstop" /\ Stop(l, ProducerJoined(l))
    <3>1. phase["input"] = "none" \/ AllJoined
      BY <2>2 DEF ServerInv, MainOrder
    <3>2. CASE phase["input"] = "none"
      BY <2>1, <2>2, <3>2, DrainedStop DEF ServerInv, QuietWithoutInput
    <3>3. CASE AllJoined
      <4>1. ProducerJoined(l)
        BY <2>1, <3>3, LoopsAre DEF AllJoined, ProducerJoined, ProducerOf
      <4>2. QED
        BY <2>1, <2>2, <4>1, DrainedStop
    <3>4. QED
      BY <3>1, <3>2, <3>3
  <2>3. CASE Join(l)
    BY <2>1, <2>3, DrainedJoin
  <2>4. QED
    BY <1>6, <2>2, <2>3 DEF DestroyLoop, l
<1>7. CASE Setup \/ StopReceiver \/ DestroyStages \/ Arrive \/ Gone \/ UNCHANGED vars
  <2>1. UNCHANGED loopVars
    BY <1>7 DEF Setup, StopReceiver, DestroyStages, Arrive, Gone, loopVars, vars
  <2>2. QED
    BY <1>2, <2>1
<1>8. QED
  BY <1>3, <1>4, <1>5, <1>6, <1>7 DEF MainStep

\* The pollers of a loop end; the input loop's may have posted a request.
LEMMA DrainedPollers ==
  ASSUME ServerInv, Drained, NEW l \in Loops, NEW worked, phase[l] = "pollers",
         phase' = [phase EXCEPT ![l] = AfterPollers(l, worked)],
         UNCHANGED <<running, visible, synced>>,
         NEW m \in Loops, running[m], \A k \in Loops : k # m => queue'[k] = queue[k]
  PROVE  Drained'
<1>1. AfterPollers(l, worked) \in {"wait", "test"}
  BY DEF AfterPollers
<1>2. phase'[l] \in {"wait", "test"} /\ \A k \in Loops : k # l => phase'[k] = phase[k]
  BY <1>1 DEF ServerInv, LoopTypes
<1>3. ASSUME NEW k \in Loops PROVE DrainedAt(k)'
  <2>1. CASE k = m
    <3>1. phase[m] \notin {"drain", "exited", "joined"}
      BY DEF ServerInv, FlagSeen
    <3>2. QED
      BY <1>2, <2>1, <3>1 DEF DrainedAt
  <2>2. CASE k # m
    BY <1>2, <2>2 DEF Drained, DrainedAt
  <2>3. QED
    BY <2>1, <2>2
<1>4. QED
  BY <1>3 DEF Drained

\* A task is taken off the queue.
LEMMA DrainedDequeue ==
  ASSUME ServerInv, Drained, NEW l \in {"processing", "output"}, Dequeue(l),
         main' = main, alive' = alive
  PROVE  Drained'
<1>1. /\ visible[l] > 0 /\ visible' = [visible EXCEPT ![l] = visible[l] - 1]
      /\ phase[l] \in {"tasks", "wait", "drain"}
      /\ phase' = [phase EXCEPT ![l] = IF phase[l] = "wait" THEN "test" ELSE phase[l]]
      /\ running' = running /\ synced' = synced /\ l \in Loops
      /\ visible \in [Loops -> Nat] /\ phase \in [Loops -> Phase]
  BY LoopsAre DEF Dequeue, ServerInv, LoopTypes
<1>2. /\ queue[l] # << >> /\ queue'[l] = Tail(queue[l])
      /\ \A m \in Loops : m # l => queue'[m] = queue[m]
  BY DequeueTypes
<1>3. Len(queue[l]) \in Nat /\ Len(Tail(queue[l])) = Len(queue[l]) - 1
  BY <1>2 DEF ServerInv, LoopTypes
<1>4. ASSUME NEW m \in Loops PROVE DrainedAt(m)'
  <2>1. CASE m # l
    BY <1>1, <1>2, <2>1, DrainedSame DEF Drained
  <2>2. CASE m = l
    <3>1. visible'[l] = visible[l] - 1 /\ phase'[l] \in {"tasks", "test", "drain"}
          /\ phase'[l] = "drain" => phase[l] = "drain"
      BY <1>1
    <3>2. phase'[l] = "drain" => visible'[l] = Len(queue'[l])
      BY <1>1, <1>2, <1>3, <3>1 DEF Drained, DrainedAt
    <3>3. ~running[l] => synced[l]
      BY <1>1, <1>2 DEF Drained, DrainedAt
    <3>4. QED
      BY <1>1, <2>2, <3>1, <3>2, <3>3 DEF DrainedAt
  <2>3. QED
    BY <2>1, <2>2
<1>5. QED
  BY <1>4 DEF Drained

\* The flag is tested, or a dequeue finds nothing: a loop leaves its main loop
\* seeing all of its queue, and returns from drain() only when that is empty.
LEMMA DrainedLoopStep ==
  ASSUME ServerInv, Drained, NEW l \in Loops, TestFlag(l) \/ DequeueFails(l)
  PROVE  Drained'
<1>1. /\ phase \in [Loops -> Phase] /\ visible \in [Loops -> Nat]
      /\ visible[l] <= Len(queue[l]) /\ visible[l] \in Nat
  BY DEF ServerInv, LoopTypes
<1>2. Len(queue[l]) \in Nat /\ (Len(queue[l]) = 0 => queue[l] = << >>)
      /\ (queue[l] = << >> => Len(queue[l]) = 0)
  BY LoopsAre DEF ServerInv, LoopTypes
<1>3. UNCHANGED <<running, queue, synced>>
  BY DEF TestFlag, DequeueFails
<1>4. CASE TestFlag(l) /\ running[l]
  <2>1. phase' = [phase EXCEPT ![l] = "tasks"] /\ visible' = visible
    BY <1>4 DEF TestFlag
  <2>2. ASSUME NEW m \in Loops PROVE DrainedAt(m)'
    BY <1>1, <1>3, <1>4, <2>1 DEF Drained, DrainedAt
  <2>3. QED
    BY <2>2 DEF Drained
<1>5. CASE TestFlag(l) /\ ~running[l]
  <2>1. /\ phase[l] = "test" /\ phase' = [phase EXCEPT ![l] = "drain"]
        /\ visible' = [visible EXCEPT ![l] = IF synced[l] THEN Len(queue[l]) ELSE visible[l]]
    BY <1>5 DEF TestFlag
  <2>2. phase'[l] = "drain" /\ visible'[l] = IF synced[l] THEN Len(queue[l]) ELSE visible[l]
    BY <1>1, <2>1
  <2>3. synced[l] \/ queue[l] = << >>
    BY <1>5, <2>1 DEF Drained, DrainedAt
  <2>4. visible'[l] = Len(queue[l])
    BY <1>1, <1>2, <2>2, <2>3
  <2>5. ASSUME NEW m \in Loops PROVE DrainedAt(m)'
    <3>1. CASE m # l
      BY <1>1, <1>3, <2>1, <3>1, DrainedSame DEF Drained
    <3>2. CASE m = l
      BY <1>3, <2>2, <2>3, <2>4, <3>2 DEF DrainedAt
    <3>3. QED
      BY <3>1, <3>2
  <2>6. QED
    BY <2>5 DEF Drained
<1>6. CASE DequeueFails(l)
  <2>1. /\ visible[l] = 0 /\ visible' = visible
        /\ \E next \in Phase : phase' = [phase EXCEPT ![l] = next]
        /\ phase[l] # "none"
        /\ phase'[l] \in {"pollers", "test"} \/ (phase[l] = "drain" /\ phase'[l] = "exited")
    BY <1>1, <1>6 DEF DequeueFails, Phase
  <2>2. \A m \in Loops : m # l => phase'[m] = phase[m]
    BY <1>1, <2>1
  <2>3. phase[l] = "drain" => queue[l] = << >>
    BY <1>2, <2>1 DEF Drained, DrainedAt
  <2>4. ASSUME NEW m \in Loops PROVE DrainedAt(m)'
    <3>1. CASE m # l
      BY <1>3, <2>1, <2>2, <3>1, DrainedSame DEF Drained
    <3>2. CASE m = l
      BY <1>3, <2>1, <2>3, <3>2 DEF Drained, DrainedAt
    <3>3. QED
      BY <3>1, <3>2
  <2>5. QED
    BY <2>4 DEF Drained
<1>7. QED
  BY <1>4, <1>5, <1>6

\* Every loop drains what its producer left, whatever the delay of the queue.
LEMMA DrainedHolds ==
  ASSUME ServerInv, Drained, [Next]_vars
  PROVE  Drained'
<1>1. CASE MainStep \/ StopReceiver \/ Arrive \/ Gone \/ UNCHANGED vars
  BY <1>1, DrainedMain
<1>2. CASE \E l \in Loops : LoopStep(l)
  BY <1>2, DrainedLoopStep DEF LoopStep
<1>3. CASE PollReceive
  <2>1. UNCHANGED <<running, phase, queue, visible, synced>>
    BY <1>3 DEF PollReceive, loopVars
  <2>2. QED
    BY <2>1, DrainedSame DEF Drained
<1>4. ASSUME NEW l \in Loops, NEW worked, PollersDone(l, worked) PROVE Drained'
  <2>1. /\ phase[l] = "pollers" /\ phase' = [phase EXCEPT ![l] = AfterPollers(l, worked)]
        /\ UNCHANGED <<running, visible, synced, queue>>
    BY <1>4 DEF PollersDone
  <2>2. AfterPollers(l, worked) \in {"wait", "test"}
    BY DEF AfterPollers
  <2>3. phase'[l] \in {"wait", "test"} /\ \A k \in Loops : k # l => phase'[k] = phase[k]
    BY <2>1, <2>2 DEF ServerInv, LoopTypes
  <2>4. QED
    BY <2>1, <2>3 DEF Drained, DrainedAt
<1>5. CASE PollForward
  <2>1. CASE PollersDone("input", TRUE)
    BY <1>4, <2>1, LoopsAre
  <2>2. CASE PollersDonePosting("input", "processing", packet[1])
    <3>1. /\ phase["input"] = "pollers"
          /\ phase' = [phase EXCEPT !["input"] = AfterPollers("input", TRUE)]
          /\ UNCHANGED <<running, visible, synced>>
          /\ \A k \in Loops : k # "processing" => queue'[k] = queue[k]
      BY <2>2 DEF PollersDonePosting, ServerInv, LoopTypes
    <3>2. running["processing"]
      BY <3>1, ConsumerRunning
    <3>3. QED
      BY <3>1, <3>2, LoopsAre, DrainedPollers
  <2>3. QED
    BY <1>5, <2>1, <2>2 DEF PollForward
<1>6. CASE PollError \/ \E l \in Loops : PollIdle(l)
  BY <1>4, <1>6, LoopsAre DEF PollError, PollIdle
<1>7. CASE RunEngineTask \/ RunPublisherTask
  BY <1>7, DrainedDequeue DEF RunEngineTask, RunPublisherTask, appVars
<1>8. CASE EmitMessage
  <2>1. /\ UNCHANGED <<running, phase, visible, synced>>
        /\ \A k \in Loops : k # "output" => queue'[k] = queue[k]
    BY <1>8 DEF EmitMessage, Post, ServerInv, LoopTypes
  <2>2. running["output"] /\ phase["output"] \notin {"drain", "exited", "joined"}
    BY <1>8, ConsumerRunning, LoopsAre DEF EmitMessage, ServerInv, FlagSeen
  <2>3. ASSUME NEW m \in Loops PROVE DrainedAt(m)'
    BY <2>1, <2>2 DEF Drained, DrainedAt
  <2>4. QED
    BY <2>3 DEF Drained
<1>9. ASSUME NEW l \in Loops, Visibility(l) PROVE Drained'
  <2>1. /\ visible[l] < Len(queue[l]) /\ UNCHANGED <<running, phase, queue, synced>>
        /\ \A m \in Loops : m # l => visible'[m] = visible[m]
    BY <1>9 DEF Visibility, Propagate, ServerInv, LoopTypes
  <2>2. phase[l] # "drain"
    <3>1. visible[l] \in Nat /\ Len(queue[l]) \in Nat
      BY LoopsAre DEF ServerInv, LoopTypes
    <3>2. visible[l] # Len(queue[l])
      BY <2>1, <3>1
    <3>3. QED
      BY <3>2 DEF Drained, DrainedAt
  <2>3. ASSUME NEW m \in Loops PROVE DrainedAt(m)'
    BY <2>1, <2>2 DEF Drained, DrainedAt
  <2>4. QED
    BY <2>3 DEF Drained
<1>10. QED
  BY <1>1, <1>2, <1>3, <1>5, <1>6, <1>7, <1>8, <1>9, LoopsAre
  DEF Next, InputStep, ProcessingStep, OutputStep

\* What is under way, step by step.
LEMMA NextFlow ==
  ASSUME ServerInv, ServerInv', FlowInv, [Next]_vars
  PROVE  FlowInv'
BY HandedHolds, StreamHolds, DrainedHolds DEF FlowInv

\* Nothing is under way at first.
LEMMA InitFlow == Init => FlowInv
<1> SUFFICES ASSUME Init PROVE FlowInv
  OBVIOUS
<1>1. /\ queue = [l \in Loops |-> << >>] /\ phase = [l \in Loops |-> "none"]
      /\ published = << >> /\ emitting = << >> /\ accepted = << >> /\ processed = 0
  BY DEF Init, LoopInit
<1>2. queue["processing"] = << >> /\ queue["output"] = << >>
  BY <1>1, LoopsAre
<1>3. Handed
  BY <1>1, <1>2 DEF Handed, Rest
<1>4. Stream = << >> /\ Due = {}
  BY <1>1, <1>2 DEF Stream, InARow, Due
<1>5. Lists(Stream, processed)
  BY <1>4 DEF Lists
<1>6. Drained
  BY <1>1 DEF Drained, DrainedAt
<1>7. QED
  BY <1>3, <1>5, <1>6 DEF FlowInv

\* What is published begins the stream.
LEMMA FlowInOrder == ServerInv /\ FlowInv => PublishedInOrder
<1> SUFFICES ASSUME ServerInv, FlowInv PROVE PublishedInOrder
  OBVIOUS
<1> DEFINE p == published
           r == queue["output"]
           e == emitting
           s == Stream
<1>1. p \in Seq(Nat \X Nat) /\ r \in Seq(Nat \X Nat) /\ e \in Seq(Nat \X Nat)
  BY DEF ServerInv, LoopTypes, FlowTypes
<1>2. Lists(s, processed)
  BY DEF FlowInv
<1>3. /\ DOMAIN p = 1 .. Len(p) /\ Len(p) \in Nat /\ DOMAIN s = 1 .. Len(s) /\ Len(s) \in Nat
      /\ Len(p) <= Len(s) /\ \A i \in 1 .. Len(p) : s[i] = p[i]
  BY <1>1 DEF Stream, InARow
<1>4. \A i \in DOMAIN p : i \in DOMAIN s
  BY <1>3
<1> HIDE DEF s
<1>5. \A i \in DOMAIN p : p[i] \in Due
  BY <1>2, <1>3, <1>4 DEF Lists
<1>6. \A i, j \in DOMAIN p : i < j => Precedes(p[i], p[j])
  BY <1>2, <1>3, <1>4 DEF Lists
<1>7. ASSUME NEW m \in Due, NEW j \in DOMAIN p, Precedes(m, p[j]) PROVE IsPublished(m)
  <2>1. m \in Nat \X Nat /\ p[j] \in Nat \X Nat
    <3>1. PICK n \in 1 .. Len(accepted) : m \in {n} \X (1 .. Emits[accepted[n]])
      BY DueAre
    <3>2. n \in Nat /\ accepted[n] \in RequestPackets
      BY DEF ServerInv, FlowTypes
    <3>3. Emits[accepted[n]] \in Nat
      BY <3>2, ServerAssumption
    <3>4. QED
      BY <1>1, <3>1, <3>2, <3>3
  <2>2. p[j][1] <= processed
    BY <1>2, <1>3, <1>4 DEF Lists
  <2>3. m[1] <= processed
    BY <1>7, <2>1, <2>2 DEF Precedes, ServerInv, FlowTypes
  <2>4. PICK i \in DOMAIN s : s[i] = m
    BY <1>2, <2>3 DEF Lists
  <2>5. CASE i \in DOMAIN p
    BY <1>3, <2>4, <2>5 DEF IsPublished
  <2>6. CASE i \notin DOMAIN p
    <3>1. j < i /\ j \in DOMAIN s /\ s[j] = p[j]
      BY <1>3, <2>6
    <3>2. Precedes(p[j], m)
      BY <1>2, <2>4, <3>1 DEF Lists
    <3>3. FALSE
      BY <1>7, <2>1, <3>2 DEF Precedes
    <3>4. QED
      BY <3>3
  <2>7. QED
    BY <2>5, <2>6
<1>8. QED
  BY <1>5, <1>6, <1>7 DEF PublishedInOrder

\* When all three threads are joined nothing is left in between.
LEMMA FlowComplete == ServerInv /\ FlowInv => NothingLostAtStop
<1> SUFFICES ASSUME ServerInv, FlowInv, main[1] = "stopped", NEW m \in Due
             PROVE  IsPublished(m)
  BY DEF NothingLostAtStop
<1>1. \A l \in Loops : phase[l] = "joined"
  BY DEF ServerInv, MainOrder, AllJoined
<1>2. queue["processing"] = << >> /\ queue["output"] = << >> /\ emitting = << >>
  BY <1>1, LoopsAre DEF FlowInv, Drained, DrainedAt, ServerInv, EmittingInTask
<1>3. Len(accepted) = processed
  BY <1>2 DEF FlowInv, Handed, Rest, ServerInv, FlowTypes
<1>4. Stream = published
  BY <1>2 DEF Stream, InARow, ServerInv, FlowTypes
<1>5. m[1] <= processed
  <2>1. PICK n \in 1 .. Len(accepted) : m \in {n} \X (1 .. Emits[accepted[n]])
    BY DueAre
  <2>2. m[1] = n /\ processed \in Nat
    BY <2>1 DEF ServerInv, FlowTypes
  <2>3. QED
    BY <1>3, <2>2
<1>6. QED
  BY <1>4, <1>5 DEF FlowInv, Lists, IsPublished

-----------------------------------------------------------------------------
(* The theorems *)

\* The invariant of the loops and the main thread holds in every reachable state.
THEOREM ServerInvariance == Spec => []ServerInv
BY InitServer, NextServer, PTL DEF Spec

\* Queues, histories and threads keep their types, and no consumer ever counts on
\* a task that is not in its queue.
THEOREM ServerTypeCorrect == Spec => []TypeOK
BY ServerInvariance, TypesHold, PTL

\* Whatever failed in start(), no task and no poller runs against a stage that
\* ~application has destroyed.
THEOREM StagesOutliveTasksHolds == Spec => []StagesOutliveTasks
BY ServerInvariance, StagesHold, PTL

\* drain()'s precondition: a loop that has left its main loop gets no more tasks.
THEOREM NoPostAfterDrainHolds == Spec => NoPostAfterDrain
<1>1. ServerInv /\ [Next]_vars =>
        [\A l \in Loops : phase[l] \in {"drain", "exited", "joined"}
                            => Len(queue'[l]) <= Len(queue[l])]_vars
  BY NoLatePost
<1>2. QED
  BY <1>1, ServerInvariance, PTL DEF Spec, NoPostAfterDrain

\* What is under way stays in order and complete: requests on their way to the
\* engine, messages on their way to the publisher, and drains that miss nothing.
THEOREM FlowInvariance == Spec => []FlowInv
<1>1. ServerInv /\ ServerInv' /\ FlowInv /\ [Next]_vars => FlowInv'
  BY NextFlow
<1>2. QED
  BY <1>1, InitFlow, ServerInvariance, PTL DEF Spec

\* On the two hops of the pipeline no message is lost, doubled or overtaken.
THEOREM PublishedInOrderHolds == Spec => []PublishedInOrder
BY ServerInvariance, FlowInvariance, FlowInOrder, PTL

\* When application::stop returns, all that the session accepted has been
\* handled and published, although only the running flags order the threads.
THEOREM NothingLostAtStopHolds == Spec => []NothingLostAtStop
BY ServerInvariance, FlowInvariance, FlowComplete, PTL

==============================================================================

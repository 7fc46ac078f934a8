------------------------------- MODULE Server -------------------------------
(***************************************************************************)
(* The server's three-thread pipeline: server::application and main()      *)
(* (src/src/server), the UDP receiver and the order-entry session polled   *)
(* on the input loop (src/src/order_entry, src/src/lab/libs/network), the  *)
(* engine's task on the processing loop and the publisher's task on the    *)
(* output loop.  main() starts the pipeline once, waits for a signal, stops *)
(* it and destroys it; every step of start() may fail.                     *)
(*                                                                         *)
(* The matching engine is abstracted to the number of market-data messages *)
(* it emits for a request: message <<n, i>> is the i-th one of the n-th    *)
(* request that the session accepted.                                      *)
(***************************************************************************)
EXTENDS EventLoop

CONSTANTS
  Emits,        \* request -> number of market-data messages it causes
  BadPackets,   \* datagrams the decoder rejects, or blank ones
  MaxDatagrams  \* bound on the datagrams that arrive in a behaviour

VARIABLES
  main,      \* the main thread: <<step, index of a loop>>
  alive,     \* the members order_entry_, engine_ and publisher_ exist
  receiver,  \* the pending async_receive_from
  packet,    \* the datagram in receive_buffer_ while its handler runs
  socket,    \* the kernel's buffer: datagrams not yet received
  arrived,   \* number of datagrams so far
  emitting,  \* the messages the running engine task has still to post
  accepted,  \* history: requests forwarded by the session, in order
  processed, \* history: number of requests the engine has been given
  published  \* history: messages the publisher has been given, in order

appVars == <<main, alive>>
netVars == <<receiver, packet, socket, arrived>>
flowVars == <<emitting, accepted, processed, published>>
vars == <<running, phase, queue, visible, synced, did_work, main, alive, receiver,
          packet, socket, arrived, emitting, accepted, processed, published>>

RequestPackets == DOMAIN Emits
Packets == RequestPackets \cup BadPackets

ASSUME ServerAssumption ==
  /\ Loops = {"input", "processing", "output"}
  /\ IdleStrategy \in [Loops -> {"timed_wait", "busy_spin"}]
  /\ Emits \in [RequestPackets -> Nat]
  /\ MaxDatagrams \in Nat

\* Faulty variant: the producer is started first.
StartInputFirst == <<"input", "processing", "output">>
\* start(): each consumer is live before its producer can post.
StartOrder == <<"output", "processing", "input">>
\* stop(): inbound to outbound.
StopOrder == <<"input", "processing", "output">>
\* ~application: members go in reverse order of declaration.
DestroyOrder == <<"output", "processing", "input">>

\* The loop whose thread posts to l, or l itself for the input loop.
ProducerOf(l) == CASE l = "processing" -> "input"
                   [] l = "output" -> "processing"
                   [] OTHER -> l

ProducerJoined(l) == phase[ProducerOf(l)] \in {"none", "joined"}

Init ==
  /\ LoopInit
  /\ main = <<"init", 1>> /\ alive = TRUE
  /\ receiver = "closed" /\ packet = << >> /\ socket = << >> /\ arrived = 0
  /\ emitting = << >> /\ accepted = << >> /\ processed = 0 /\ published = << >>

-----------------------------------------------------------------------------
(* The main thread: application::start, stop and ~application. *)

\* io_context, the three setups, wire_pipeline and the bind; any may fail.
Setup ==
  /\ main = <<"init", 1>>
  /\ \/ main' = <<"start", 1>> /\ receiver' = "armed"
     \/ main' = <<"destroy", 1>> /\ UNCHANGED receiver
  /\ UNCHANGED <<loopVars, alive, packet, socket, arrived, flowVars>>

StartLoop ==
  /\ main[1] = "start"
  /\ \/ /\ Start(StartOrder[main[2]])
        /\ main' = IF main[2] = 3 THEN <<"up", 1>> ELSE <<"start", main[2] + 1>>
     \/ /\ StartFails(StartOrder[main[2]])
        /\ main' = <<"destroy", 1>>
  /\ UNCHANGED <<alive, netVars, flowVars>>

\* g_stop_requested is seen; application::stop first cancels the receive.  The
\* socket is not synchronised: a cancel that meets the handler on the input
\* thread finds no pending operation, and the handler arms a new one.
StopReceiver ==
  /\ main = <<"up", 1>>
  /\ main' = <<"stop", 1>>
  /\ receiver' = IF receiver = "armed" THEN "aborted" ELSE receiver
  /\ UNCHANGED <<loopVars, alive, packet, socket, arrived, flowVars>>

\* Faulty variant: every loop is stopped before the first one is joined.
StopAllFirst ==
  /\ main[1] = "stop"
  /\ running' = [l \in Loops |-> FALSE]
  /\ synced' = [l \in Loops |-> ProducerJoined(l)]
  /\ main' = <<"join", main[2]>>
  /\ UNCHANGED <<phase, queue, visible, did_work, alive, netVars, flowVars>>

StopLoop ==
  /\ main[1] = "stop"
  /\ Stop(StopOrder[main[2]], ProducerJoined(StopOrder[main[2]]))
  /\ main' = <<"join", main[2]>>
  /\ UNCHANGED <<alive, netVars, flowVars>>

JoinLoop ==
  /\ main[1] = "join"
  /\ Join(StopOrder[main[2]])
  /\ main' = IF main[2] = 3 THEN <<"stopped", 1>> ELSE <<"stop", main[2] + 1>>
  /\ UNCHANGED <<alive, netVars, flowVars>>

\* started_ is false here, so ~application's own stop() does nothing; then the
\* publisher, the engine and the session go, before the loops.
DestroyStages ==
  /\ main[1] \in {"stopped", "destroy"}
  /\ main' = <<"dstop", 1>>
  /\ alive' = FALSE
  /\ receiver' = "closed" /\ packet' = << >> /\ socket' = << >>
  /\ UNCHANGED <<loopVars, arrived, flowVars>>

\* ~event_loop: stop(), then join().
DestroyLoop ==
  /\ \/ /\ main[1] = "dstop"
        /\ Stop(DestroyOrder[main[2]], ProducerJoined(DestroyOrder[main[2]]))
        /\ main' = <<"djoin", main[2]>>
     \/ /\ main[1] = "djoin"
        /\ Join(DestroyOrder[main[2]])
        /\ main' = IF main[2] = 3 THEN <<"gone", 1>> ELSE <<"dstop", main[2] + 1>>
  /\ UNCHANGED <<alive, netVars, flowVars>>

\* The process has ended.
Gone == main = <<"gone", 1>> /\ UNCHANGED vars

-----------------------------------------------------------------------------
(* The network and the input loop's poller: session::poll is poll_one.      *)

\* UDP: any datagram may arrive at any time, in any order, or again.
Arrive ==
  /\ receiver # "closed"
  /\ arrived < MaxDatagrams
  /\ \E p \in Packets : socket' = Append(socket, p)
  /\ arrived' = arrived + 1
  /\ UNCHANGED <<loopVars, appVars, receiver, packet, flowVars>>

\* The receive completes and its handler is entered.
PollReceive ==
  /\ phase["input"] = "pollers"
  /\ receiver = "armed"
  /\ socket # << >>
  /\ receiver' = "handling"
  /\ packet' = <<Head(socket)>>
  /\ socket' = Tail(socket)
  /\ UNCHANGED <<loopVars, appVars, arrived, flowVars>>

\* Faulty variant: the handler returns early for what is not a request.
PollForwardRequestsOnly ==
  /\ receiver = "handling"
  /\ \/ /\ packet[1] \in RequestPackets
        /\ accepted' = Append(accepted, packet[1])
        /\ PollersDonePosting("input", "processing", packet[1])
        /\ receiver' = "armed"
     \/ /\ packet[1] \in BadPackets
        /\ PollersDone("input", TRUE)
        /\ receiver' = "unarmed"
        /\ UNCHANGED accepted
  /\ packet' = << >>
  /\ UNCHANGED <<appVars, socket, arrived, emitting, processed, published>>

\* session::send: a request goes to the processing loop, anything else is
\* logged or ignored; then the handler arms the next receive.
PollForward ==
  /\ receiver = "handling"
  /\ \/ /\ packet[1] \in RequestPackets
        /\ accepted' = Append(accepted, packet[1])
        /\ PollersDonePosting("input", "processing", packet[1])
     \/ /\ packet[1] \in BadPackets
        /\ PollersDone("input", TRUE)
        /\ UNCHANGED accepted
  /\ packet' = << >>
  /\ receiver' = "armed"
  /\ UNCHANGED <<appVars, socket, arrived, emitting, processed, published>>

\* The receive ends with an error: the abort of stop(), or a socket failure,
\* after which the server runs on without receiving.
PollError ==
  /\ receiver \in {"armed", "aborted"}
  /\ receiver' = "ended"
  /\ PollersDone("input", TRUE)
  /\ UNCHANGED <<appVars, packet, socket, arrived, flowVars>>

\* Nothing is ready, or the loop has no poller.
PollIdle(l) ==
  /\ \/ l # "input"
     \/ /\ receiver \notin {"handling", "aborted"}
        /\ receiver = "armed" => socket = << >>
  /\ PollersDone(l, FALSE)
  /\ UNCHANGED <<appVars, netVars, flowVars>>

-----------------------------------------------------------------------------
(* The tasks. *)

MessagesOf(n, r) == [i \in 1 .. Emits[r] |-> <<n, i>>]

\* engine_.send(req): the handler runs, and posts its messages one by one.
RunEngineTask ==
  /\ emitting = << >>
  /\ Dequeue("processing")
  /\ processed' = processed + 1
  /\ emitting' = MessagesOf(processed + 1, Head(queue["processing"]))
  /\ UNCHANGED <<appVars, netVars, accepted, published>>

\* on_market_data: one post to the output loop.
EmitMessage ==
  /\ emitting # << >>
  /\ Post("output", Head(emitting))
  /\ emitting' = Tail(emitting)
  /\ UNCHANGED <<appVars, netVars, accepted, processed, published>>

\* publisher_.send(ev).
RunPublisherTask ==
  /\ Dequeue("output")
  /\ published' = Append(published, Head(queue["output"]))
  /\ UNCHANGED <<appVars, netVars, emitting, accepted, processed>>

\* The other steps of a consumer thread; a thread inside a task takes none.
LoopStep(l) ==
  /\ l = "processing" => emitting = << >>
  /\ TestFlag(l) \/ DequeueFails(l)
  /\ UNCHANGED <<appVars, netVars, flowVars>>

Visibility(l) ==
  /\ Propagate(l)
  /\ UNCHANGED <<appVars, netVars, flowVars>>

-----------------------------------------------------------------------------
MainStep ==
  \/ Setup
  \/ StartLoop
  \/ StopLoop
  \/ JoinLoop
  \/ DestroyStages
  \/ DestroyLoop

InputStep ==
  LoopStep("input") \/ PollReceive \/ PollForward \/ PollError \/ PollIdle("input")

ProcessingStep ==
  LoopStep("processing") \/ PollIdle("processing") \/ RunEngineTask \/ EmitMessage

OutputStep == LoopStep("output") \/ PollIdle("output") \/ RunPublisherTask

Next ==
  \/ MainStep
  \/ StopReceiver
  \/ InputStep
  \/ ProcessingStep
  \/ OutputStep
  \/ \E l \in Loops : Visibility(l)
  \/ Arrive
  \/ Gone

Spec == Init /\ [][Next]_vars

\* The scheduler runs every thread, and an enqueue becomes visible in the end.
\* Nothing obliges a signal or a datagram to come.
Fairness ==
  /\ WF_vars(MainStep)
  /\ WF_vars(InputStep)
  /\ WF_vars(ProcessingStep)
  /\ WF_vars(OutputStep)
  /\ \A l \in Loops : WF_vars(Visibility(l))

FairSpec == Spec /\ Fairness

-----------------------------------------------------------------------------
(* Properties *)

\* Types of the loops, the main thread, the receiver and the histories.
TypeOK ==
  /\ running \in [Loops -> BOOLEAN]
  /\ phase \in [Loops -> Phase]
  /\ visible \in [Loops -> Nat]
  /\ \A l \in Loops : visible[l] <= Len(queue[l])
  /\ synced \in [Loops -> BOOLEAN]
  /\ did_work \in [Loops -> BOOLEAN]
  /\ DOMAIN queue = Loops
  /\ queue["input"] = << >>
  /\ queue["processing"] \in Seq(RequestPackets)
  /\ queue["output"] \in Seq(Nat \X Nat)
  /\ main \in {"init", "start", "up", "stop", "join", "stopped", "destroy",
               "dstop", "djoin", "gone"} \X (1 .. 3)
  /\ alive \in BOOLEAN
  /\ receiver \in {"closed", "armed", "handling", "aborted", "ended"}
  /\ packet \in Seq(Packets) /\ socket \in Seq(Packets)
  /\ arrived \in 0 .. MaxDatagrams
  /\ emitting \in Seq(Nat \X Nat)
  /\ accepted \in Seq(RequestPackets)
  /\ processed \in Nat
  /\ published \in Seq(Nat \X Nat)

\* The messages that the accepted requests are to cause.
Due == UNION {{n} \X (1 .. Emits[accepted[n]]) : n \in DOMAIN accepted}

\* The order in which a single thread would have produced them.
Precedes(a, b) == a[1] < b[1] \/ (a[1] = b[1] /\ a[2] < b[2])

IsPublished(m) == \E i \in DOMAIN published : published[i] = m

\* The output stream is what one thread would have produced: no message is
\* duplicated, dropped or overtaken on the two hops, at any moment
\* (docs/event-loop.md, "What else stages can assume").
PublishedInOrder ==
  /\ \A i \in DOMAIN published : published[i] \in Due
  /\ \A i, j \in DOMAIN published : i < j => Precedes(published[i], published[j])
  /\ \A m \in Due, j \in DOMAIN published :
       Precedes(m, published[j]) => IsPublished(m)

\* When application::stop returns, every request that the session accepted,
\* even one received after the cancel, has been handled and all its messages
\* published: each drain sees all its stopped producer posted although
\* nothing but the running flag synchronises them (application.cpp:93-114).
NothingLostAtStop == main[1] = "stopped" => \A m \in Due : IsPublished(m)

\* drain()'s precondition (event_loop.hpp:248-249): once a loop has left its
\* main loop nobody posts to it any more, so no task is left in its queue.
NoPostAfterDrain ==
  [][\A l \in Loops : phase[l] \in {"drain", "exited", "joined"}
                        => Len(queue'[l]) <= Len(queue[l])]_vars

\* The stages are destroyed before the loops (application.hpp:79-91), also
\* when start() failed half-way with loops already running: no task and no
\* poller can then run against a destroyed stage.
StagesOutliveTasks ==
  ~alive =>
    /\ ~Live("input")
    /\ emitting = << >>
    /\ \A l \in Loops : Live(l) => queue[l] = << >>

\* Once asked to stop, the server ends: no join waits for ever, whatever the
\* receiver and the loops were doing (application.cpp:93-114).
StopCompletes == main[1] = "stop" ~> main[1] = "gone"

\* Without any stop, everything accepted is published in the end: no loop
\* parks or spins for ever with a task in its queue (event_loop.hpp:207-246).
AcceptedIsPublished == []<>(\A m \in Due : IsPublished(m))

\* No datagram waits in the socket for ever while the server is up, unless the
\* receive has ended with an error: the handler arms the next receive whatever
\* the session made of this datagram, and the input loop never stops polling
\* (asio_udp_receiver.cpp:85-103).  After an error, which nothing reports, the
\* server runs on and reads no more.
ReceptionGoesOn == []<>(socket = << >> \/ receiver \in {"ended", "closed"})

=============================================================================

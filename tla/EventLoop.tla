----------------------------- MODULE EventLoop -----------------------------
(***************************************************************************)
(* lab::event_loop (src/src/lab/lab/event_loop.hpp): a consumer thread, an *)
(* SPSC queue of posted tasks, pollers, and a running flag.  The operators *)
(* are the steps of one loop l; a module that composes loops adds what the *)
(* tasks and the pollers do.                                               *)
(*                                                                         *)
(* The queue publishes an enqueue to the consumer with some delay: of      *)
(* queue[l] the consumer sees the first visible[l] tasks.  The one         *)
(* guarantee is the acquire/release pair on running_: a consumer that      *)
(* loads false sees everything that happened before the store.            *)
(***************************************************************************)
EXTENDS Integers, Sequences

CONSTANTS
  Loops,
  IdleStrategy   \* Loops -> {"timed_wait", "busy_spin"}

VARIABLES
  running,   \* running_
  phase,     \* where thread_ is; "none" before start(), "joined" after join()
  queue,     \* task_queue_
  visible,   \* how many tasks of queue[l] its consumer can see
  synced,    \* the last stop() was issued after the producer was joined
  did_work   \* local of run_timed_wait

loopVars == <<running, phase, queue, visible, synced, did_work>>

Phase == {"none", "test", "tasks", "pollers", "wait", "drain", "exited", "joined"}

\* The thread exists and has not returned from run().
Live(l) == phase[l] \notin {"none", "exited", "joined"}

LoopInit ==
  /\ running = [l \in Loops |-> FALSE]
  /\ phase = [l \in Loops |-> "none"]
  /\ queue = [l \in Loops |-> << >>]
  /\ visible = [l \in Loops |-> 0]
  /\ synced = [l \in Loops |-> FALSE]
  /\ did_work = [l \in Loops |-> FALSE]

-----------------------------------------------------------------------------
(* The API: called on the controlling thread. *)

\* start() that spawns the thread; it refuses a loop that is running.
Start(l) ==
  /\ ~running[l]
  /\ running' = [running EXCEPT ![l] = TRUE]
  /\ phase' = [phase EXCEPT ![l] = "test"]
  /\ UNCHANGED <<queue, visible, synced, did_work>>

\* start() whose thread creation throws: the flag is put back.
StartFails(l) ==
  /\ ~running[l]
  /\ UNCHANGED loopVars

\* Faulty variant: the flag is not cleared.
StopForgotten(l, producerJoined) == UNCHANGED loopVars

\* stop(), by a controller that has or has not joined the loop's producer.
Stop(l, producerJoined) ==
  /\ running' = [running EXCEPT ![l] = FALSE]
  /\ synced' = [synced EXCEPT ![l] = producerJoined]
  /\ UNCHANGED <<phase, queue, visible, did_work>>

\* join() returns at once when there is no thread to wait for.
Join(l) ==
  /\ phase[l] \in {"none", "exited", "joined"}
  /\ phase' = [phase EXCEPT ![l] = IF @ = "none" THEN @ ELSE "joined"]
  /\ UNCHANGED <<running, queue, visible, synced, did_work>>

-----------------------------------------------------------------------------
(* The consumer thread. *)

\* Faulty variant: the flag is read without acquiring what preceded the store.
TestFlagRelaxed(l) ==
  /\ phase[l] = "test"
  /\ phase' = [phase EXCEPT ![l] = IF running[l] THEN "tasks" ELSE "drain"]
  /\ did_work' = [did_work EXCEPT ![l] = FALSE]
  /\ UNCHANGED <<running, queue, visible, synced>>

\* The loop condition: a load-acquire of running_.
TestFlag(l) ==
  /\ phase[l] = "test"
  /\ \/ /\ running[l]
        /\ phase' = [phase EXCEPT ![l] = "tasks"]
        /\ UNCHANGED visible
     \/ /\ ~running[l]
        /\ phase' = [phase EXCEPT ![l] = "drain"]
        /\ visible' = [visible EXCEPT ![l] = IF synced[l] THEN Len(queue[l]) ELSE @]
  /\ did_work' = [did_work EXCEPT ![l] = FALSE]
  /\ UNCHANGED <<running, queue, synced>>

\* Faulty variant: the front of the queue is not advanced for the consumer.
DequeueKeepsFront(l) ==
  /\ phase[l] \in {"tasks", "wait", "drain"}
  /\ visible[l] > 0
  /\ queue' = [queue EXCEPT ![l] = Tail(@)]
  /\ phase' = [phase EXCEPT ![l] = IF @ = "wait" THEN "test" ELSE @]
  /\ did_work' = [did_work EXCEPT ![l] = TRUE]
  /\ UNCHANGED <<running, synced, visible>>

\* A dequeue that succeeds, in any of the three places that try one.
Dequeue(l) ==
  /\ phase[l] \in {"tasks", "wait", "drain"}
  /\ visible[l] > 0
  /\ queue' = [queue EXCEPT ![l] = Tail(@)]
  /\ visible' = [visible EXCEPT ![l] = @ - 1]
  /\ phase' = [phase EXCEPT ![l] = IF @ = "wait" THEN "test" ELSE @]
  /\ did_work' = [did_work EXCEPT ![l] = TRUE]
  /\ UNCHANGED <<running, synced>>

\* A dequeue that finds nothing: on to the pollers, round again, or done.
DequeueFails(l) ==
  /\ visible[l] = 0
  /\ \/ phase[l] = "tasks" /\ phase' = [phase EXCEPT ![l] = "pollers"]
     \/ phase[l] = "wait" /\ phase' = [phase EXCEPT ![l] = "test"]
     \/ phase[l] = "drain" /\ phase' = [phase EXCEPT ![l] = "exited"]
  /\ UNCHANGED <<running, queue, visible, synced, did_work>>

\* Faulty variant: an idle loop keeps to its pollers.
AfterPollersAgain(l, worked) == IF did_work[l] \/ worked THEN "test" ELSE "pollers"

\* After the pollers: park on the queue only when the iteration was idle.
AfterPollers(l, worked) ==
  IF IdleStrategy[l] = "timed_wait" /\ ~did_work[l] /\ ~worked THEN "wait" ELSE "test"

\* The end of the for loop over pollers_.
PollersDone(l, worked) ==
  /\ phase[l] = "pollers"
  /\ phase' = [phase EXCEPT ![l] = AfterPollers(l, worked)]
  /\ UNCHANGED <<running, queue, visible, synced, did_work>>

\* As PollersDone, for a poller that posted a task to loop m.
PollersDonePosting(l, m, task) ==
  /\ phase[l] = "pollers"
  /\ phase' = [phase EXCEPT ![l] = AfterPollers(l, TRUE)]
  /\ queue' = [queue EXCEPT ![m] = Append(@, task)]
  /\ UNCHANGED <<running, visible, synced, did_work>>

\* Faulty variant: the queue is not FIFO.
PostInFront(l, task) ==
  /\ queue' = [queue EXCEPT ![l] = <<task>> \o @]
  /\ UNCHANGED <<running, phase, visible, synced, did_work>>

\* post(), from a task running on another loop.
Post(l, task) ==
  /\ queue' = [queue EXCEPT ![l] = Append(@, task)]
  /\ UNCHANGED <<running, phase, visible, synced, did_work>>

\* The next enqueued task reaches the consumer's view of the queue.
Propagate(l) ==
  /\ visible[l] < Len(queue[l])
  /\ visible' = [visible EXCEPT ![l] = @ + 1]
  /\ UNCHANGED <<running, phase, queue, synced, did_work>>

=============================================================================

-------------------------- MODULE QueueTestClients --------------------------
(***************************************************************************)
(* The client of IntrusiveQueue in Multiple_Producers_Consumers_Threads of *)
(* test_queue.cpp.  Producers push every item of `input' once.  Consumers  *)
(* pop in a loop; when pop returns false they look at producers_finished,  *)
(* in that order, and stop if it is set (lines 297-310).                   *)
(***************************************************************************)
EXTENDS IntrusiveQueue

CONSTANTS Producers, Consumers      \* Threads is Producers \cup Consumers

VARIABLES
    toPush,     \* items of input not yet handed to push
    finished,   \* producers_finished
    checking,   \* consumers whose pop returned false
    ended,      \* consumers that left their loop
    output      \* output_per_consumer, as the times each item was popped

clientVars == <<vars, toPush, finished, checking, ended, output>>

ClientInit ==
    /\ Init
    /\ toPush = Items
    /\ finished = FALSE
    /\ checking = {}
    /\ ended = {}
    /\ output = [i \in Items |-> 0]

\* queue.push(&element)
Produce(t) ==
    /\ \/ \E i \in toPush : PushLoad(t, i) /\ toPush' = toPush \ {i}
       \/ (PushLink(t) \/ PushCas(t) \/ PushRetry(t)) /\ UNCHANGED toPush
    /\ UNCHANGED <<finished, checking, ended, output>>

\* WaitAll(producers); producers_finished = true
Finish ==
    /\ toPush = {}
    /\ \A t \in Producers : pc[t] = "idle"
    /\ ~finished
    /\ finished' = TRUE
    /\ UNCHANGED <<vars, toPush, checking, ended, output>>

\* if (queue.pop(element)) elements.push_back(*element);
Consume(t) ==
    /\ t \notin checking \cup ended
    /\ PopStep(t)
    /\ output' = [i \in Items |->
            IF pc[t] = "done" /\ value[t] = i THEN output[i] + 1 ELSE output[i]]
    /\ checking' = IF pc[t] = "empty" THEN checking \cup {t} ELSE checking
    /\ UNCHANGED <<toPush, finished, ended>>

\* else if (producers_finished) break;
Check(t) ==
    /\ t \in checking
    /\ checking' = checking \ {t}
    /\ ended' = IF finished THEN ended \cup {t} ELSE ended
    /\ UNCHANGED <<vars, toPush, finished, output>>

ClientNext ==
    \/ \E t \in Producers : Produce(t)
    \/ Finish
    \/ \E t \in Consumers : Consume(t) \/ Check(t)

ClientSpec == ClientInit /\ [][ClientNext]_clientVars

----------------------------------------------------------------------------
\* bool is_empty() const
IsEmpty == head = Null

\* test_queue.cpp:318, ASSERT_TRUE(queue.is_empty()), and the is_permutation
\* assertion of test_queue.cpp:322: when every consumer has left its loop the
\* queue is empty and every element is in the output.
DrainedWhenConsumersEnd ==
    ended = Consumers => IsEmpty /\ \A i \in Items : output[i] = 1

\* The test starts a thread for each producer and each consumer, at least one.
TestThreads ==
    /\ Threads = Producers \cup Consumers
    /\ Producers \cap Consumers = {}
    /\ Consumers # {}

\* What holds when the assertions fail: an element that is not in the output is in
\* the list at head_, and none is there and in the output, or in it twice.  So the
\* permutation is wrong only when the queue is not empty.
MissingAreInQueue ==
    ended = Consumers =>
        \A i \in Items : output[i] = IF i \in Range(shared) THEN 0 ELSE 1

----------------------------------------------------------------------------
(* The inductive invariant of the test *)

\* Producers push what nobody else uses; an element was popped, once, if it is
\* neither with its producer nor in the queue or a call of it.
PoppedOnce ==
    /\ toPush \subseteq Items
    /\ \A i \in Items :
          /\ i \in toPush => Outside(i)
          /\ output[i] = IF i \in toPush \/ ~Outside(i) THEN 0 ELSE 1

\* Producers end before the flag is set, and consumers leave after it is.
ProducersFirst ==
    /\ finished => toPush = {} /\ \A t \in Producers : pc[t] = "idle"
    /\ ended # {} => finished
    /\ ended \cup checking \subseteq Consumers
    /\ \A t \in ended \cup checking : pc[t] = "idle"

ClientInv == IInv /\ PoppedOnce /\ ProducersFirst
=============================================================================

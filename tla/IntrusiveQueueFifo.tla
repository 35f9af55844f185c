------------------------- MODULE IntrusiveQueueFifo -------------------------
(***************************************************************************)
(* The order in which IntrusiveQueue gives items back.  Two history        *)
(* variables are added to it: the waiting items in the order in which      *)
(* their pushes took effect, and whether a push ever took effect while a   *)
(* pop had the list.                                                       *)
(***************************************************************************)
EXTENDS IntrusiveQueue, SequencesExt

VARIABLES
    order,      \* items pushed and not yet taken by a pop, oldest first
    disturbed   \* a push succeeded between a pop's exchange and its merge

fifoVars == <<vars, order, disturbed>>

FifoInit == Init /\ order = <<>> /\ disturbed = FALSE

\* The pop of thread t fixes its item when it takes the list.
TakenBy(t) == shared[Len(shared)]

FifoNext ==
    \E t \in Threads :
        \/ /\ PushCas(t)
           /\ order' = Append(order, value[t])
           /\ disturbed' = (disturbed \/ \E u \in Threads : pc[u] \in Holding)
        \/ /\ PopExchange(t)
           /\ order' = IF shared = <<>> THEN order ELSE RemoveFirst(order, TakenBy(t))
           /\ UNCHANGED disturbed
        \/ /\ PushStep(t) \/ PopStep(t)
           /\ ~PushCas(t) /\ ~PopExchange(t)
           /\ UNCHANGED <<order, disturbed>>

FifoSpec == FifoInit /\ [][FifoNext]_fifoVars

Quiet == \A t \in Threads : pc[t] \notin Holding

\* intrusive_queue.h:14 calls the class a "Lock-free, intrusive, non-owning
\* queue" and the test Pop_Returns_In_FIFO_Order (test_queue.cpp:104) asks for
\* first in, first out: when no pop is under way the list is in push order.  In
\* general it is not: the list that a pop puts back goes on top of newer items.
FirstInFirstOut == Quiet => shared = Reverse(order)

\* What remains true: the order is first in, first out as long as no push took
\* effect while a pop had the list; any number of threads may race in push.
FifoUnlessDisturbed == ~disturbed => FirstInFirstOut

----------------------------------------------------------------------------
(* The inductive invariant of the order *)

\* Where the list of the waiting items is while nobody pushes: at head_, or with
\* the one pop that has taken it, whose own item is the last one until it is cut
\* off.
OneListInOrder ==
    /\ order \in Seq(Items)
    /\ FirstInFirstOut
    /\ \A t \in Threads : pc[t] \in Holding =>
          /\ shared = <<>>
          /\ \A u \in Threads : pc[u] \in Holding => u = t
          /\ Reverse(order) = IF pc[t] = "walk" THEN Front(private[t]) ELSE private[t]

FifoInv == IInv /\ (~disturbed => OneListInOrder)
=============================================================================

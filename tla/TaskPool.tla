------------------------------ MODULE TaskPool ------------------------------
(***************************************************************************)
(* What detail::IntrusiveQueue promises to IoScheduler, the only client    *)
(* that shares it between threads: a pool of items.  A push adds an item   *)
(* in one step.  A pop takes SOME waiting item, not necessarily the oldest *)
(* one, and keeps the rest of the pool to itself ("holding") until it puts *)
(* it back; a pop may miss, that is return false, when nothing waits or    *)
(* while another pop is holding.                                           *)
(* IntrusiveQueue implements this module (IntrusiveQueue!Pool), and        *)
(* IoScheduler is built from its actions.                                  *)
(***************************************************************************)
CONSTANTS
    Threads,    \* threads that call pop
    Items,      \* the IoTask objects
    Null        \* the null pointer

VARIABLES
    waiting,    \* items pushed and not yet given to a pop
    stage,      \* where each thread stands in its call of pop
    hand        \* the item a pop has taken and not yet returned

poolVars == <<waiting, stage, hand>>

Stages == {"out", "holding", "done", "missed"}

PoolInit ==
    /\ waiting = {}
    /\ stage = [t \in Threads |-> "out"]
    /\ hand = [t \in Threads |-> Null]

InHand == {hand[t] : t \in Threads}

Push(i) ==
    /\ i \in Items \ (waiting \cup InHand)
    /\ waiting' = waiting \cup {i}
    /\ UNCHANGED <<stage, hand>>

\* Bug: the item stays in the pool.
Take_Copy(t, i) ==
    /\ stage[t] = "out"
    /\ i \in waiting
    /\ hand' = [hand EXCEPT ![t] = i]
    /\ stage' = [stage EXCEPT ![t] = "holding"]
    /\ UNCHANGED waiting

\* head_.exchange(nullptr) found a list: its oldest item is now the caller's,
\* the others are out of sight until Release.
Take(t, i) ==
    /\ stage[t] = "out"
    /\ i \in waiting
    /\ waiting' = waiting \ {i}
    /\ hand' = [hand EXCEPT ![t] = i]
    /\ stage' = [stage EXCEPT ![t] = "holding"]

\* Bug: the loop that puts the items back never succeeds.
Release_Never(t) ==
    /\ stage[t] = "holding"
    /\ UNCHANGED poolVars

\* The items that were out of sight are back (or there were none).
Release(t) ==
    /\ stage[t] = "holding"
    /\ stage' = [stage EXCEPT ![t] = "done"]
    /\ UNCHANGED <<waiting, hand>>

\* return true
ReturnItem(t) ==
    /\ stage[t] = "done"
    /\ stage' = [stage EXCEPT ![t] = "out"]
    /\ hand' = [hand EXCEPT ![t] = Null]
    /\ UNCHANGED waiting

\* head_.exchange(nullptr) found nothing: either nothing waits, or another
\* pop has the list.
Miss(t) ==
    /\ stage[t] = "out"
    /\ waiting = {} \/ \E u \in Threads : stage[u] = "holding"
    /\ stage' = [stage EXCEPT ![t] = "missed"]
    /\ UNCHANGED <<waiting, hand>>

\* return false
ReturnMissed(t) ==
    /\ stage[t] = "missed"
    /\ stage' = [stage EXCEPT ![t] = "out"]
    /\ UNCHANGED <<waiting, hand>>

PoolNext ==
    \/ \E i \in Items : Push(i)
    \/ \E t \in Threads :
          \/ \E i \in Items : Take(t, i)
          \/ Release(t)
          \/ ReturnItem(t)
          \/ Miss(t)
          \/ ReturnMissed(t)

PoolSpec == PoolInit /\ [][PoolNext]_poolVars
=============================================================================

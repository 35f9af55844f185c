--------------------------- MODULE IntrusiveQueue ---------------------------
(***************************************************************************)
(* detail::IntrusiveQueue<T> (win_io_coro/detail/intrusive_queue.h): the   *)
(* lock-free list in which IoScheduler keeps the coroutines that wait for  *)
(* I/O.  Threads call push() with an item nobody else uses, and pop(), at  *)
(* any time.  One action is one access to memory another thread may reach: *)
(* the atomic head_, or the `next' link of an item.                        *)
(*                                                                         *)
(* head and next are the memory of the program; pc, value, localHead, tail *)
(* and seen are the locals of the call a thread is in.  shared and private *)
(* are history variables: the items on the list at head_, and those on the *)
(* list a pop has taken for itself, newest first.  No guard and no other   *)
(* variable depends on them.                                               *)
(***************************************************************************)
EXTENDS Integers, Sequences, Functions

CONSTANTS
    Threads,    \* threads that call push and pop
    Items,      \* the objects derived from IntrusiveQueue<T>::Item
    Null        \* nullptr

ASSUME NullAssumption == Null \notin Items

VARIABLES
    head,       \* head_
    next,       \* Item::next of each item
    pc,         \* where each thread stands in push or pop
    value,      \* `value' of push, and of pop
    localHead,  \* `local_head' of pop
    tail,       \* `tail' of pop
    seen,       \* `head' of push and `new_head' of pop: last value read of head_
    shared,     \* history: items reachable from head_, newest first
    private     \* history: items on the list taken by the pop of each thread

vars == <<head, next, pc, value, localHead, tail, seen, shared, private>>

Labels == {"idle", "link", "cas", "walk", "merge", "relink", "done", "empty"}

\* An item is the client's own when it is in no list and in no call.
Outside(i) ==
    /\ i \notin Range(shared)
    /\ \A t \in Threads : i \notin Range(private[t]) /\ value[t] # i

Init ==
    /\ head = Null
    /\ next = [i \in Items |-> Null]
    /\ pc = [t \in Threads |-> "idle"]
    /\ value = [t \in Threads |-> Null]
    /\ localHead = [t \in Threads |-> Null]
    /\ tail = [t \in Threads |-> Null]
    /\ seen = [t \in Threads |-> Null]
    /\ shared = <<>>
    /\ private = [t \in Threads |-> <<>>]

----------------------------------------------------------------------------
(* push *)

\* assert(value); head = head_.load()
PushLoad(t, i) ==
    /\ pc[t] = "idle"
    /\ Outside(i)
    /\ value' = [value EXCEPT ![t] = i]
    /\ seen' = [seen EXCEPT ![t] = head]
    /\ pc' = [pc EXCEPT ![t] = "link"]
    /\ UNCHANGED <<head, next, localHead, tail, shared, private>>

\* value->next = head
PushLink(t) ==
    /\ pc[t] = "link"
    /\ next' = [next EXCEPT ![value[t]] = seen[t]]
    /\ pc' = [pc EXCEPT ![t] = "cas"]
    /\ UNCHANGED <<head, value, localHead, tail, seen, shared, private>>

\* compare_exchange_weak succeeds; push returns
PushCas(t) ==
    /\ pc[t] = "cas"
    /\ head = seen[t]
    /\ head' = value[t]
    /\ shared' = <<value[t]>> \o shared
    /\ value' = [value EXCEPT ![t] = Null]
    /\ seen' = [seen EXCEPT ![t] = Null]
    /\ pc' = [pc EXCEPT ![t] = "idle"]
    /\ UNCHANGED <<next, localHead, tail, private>>

\* Bug: value->next = head is before the loop, not in it.
PushRetry_NoRelink(t) ==
    /\ pc[t] = "cas"
    /\ seen' = [seen EXCEPT ![t] = head]
    /\ UNCHANGED <<head, next, pc, value, localHead, tail, shared, private>>

\* Bug: compare_exchange gets a copy of `head', which is never loaded again.
PushRetry_Stale(t) ==
    /\ pc[t] = "cas"
    /\ pc' = [pc EXCEPT ![t] = "link"]
    /\ UNCHANGED <<head, next, value, localHead, tail, seen, shared, private>>

\* compare_exchange_weak fails, for a reason or (head = seen[t]) for none, and
\* loads head_ into `head'
PushRetry(t) ==
    /\ pc[t] = "cas"
    /\ seen' = [seen EXCEPT ![t] = head]
    /\ pc' = [pc EXCEPT ![t] = "link"]
    /\ UNCHANGED <<head, next, value, localHead, tail, shared, private>>

----------------------------------------------------------------------------
(* pop *)

\* Bug: head_.load() in place of head_.exchange(nullptr).
PopExchange_Load(t) ==
    /\ pc[t] = "idle"
    /\ localHead' = [localHead EXCEPT ![t] = head]
    /\ tail' = [tail EXCEPT ![t] = head]
    /\ private' = [private EXCEPT ![t] = shared]
    /\ pc' = [pc EXCEPT ![t] = IF head = Null THEN "empty" ELSE "walk"]
    /\ UNCHANGED <<head, next, value, seen, shared>>

\* value = nullptr; local_head = head_.exchange(nullptr); tail = local_head
PopExchange(t) ==
    /\ pc[t] = "idle"
    /\ head' = Null
    /\ localHead' = [localHead EXCEPT ![t] = head]
    /\ tail' = [tail EXCEPT ![t] = head]
    /\ private' = [private EXCEPT ![t] = shared]
    /\ shared' = <<>>
    /\ pc' = [pc EXCEPT ![t] = IF head = Null THEN "empty" ELSE "walk"]
    /\ UNCHANGED <<next, value, seen>>

\* return false
PopEmpty(t) ==
    /\ pc[t] = "empty"
    /\ pc' = [pc EXCEPT ![t] = "idle"]
    /\ UNCHANGED <<head, next, value, localHead, tail, seen, shared, private>>

\* tail->next is not the last item: tail = tail->next
PopAdvance(t) ==
    /\ pc[t] = "walk"
    /\ next[tail[t]] # Null
    /\ next[next[tail[t]]] # Null
    /\ tail' = [tail EXCEPT ![t] = next[tail[t]]]
    /\ UNCHANGED <<head, next, pc, value, localHead, seen, shared, private>>

\* Bug: the first pair is split, without looking for before_last.
PopDetach_FirstPair(t) ==
    /\ pc[t] = "walk"
    /\ next[tail[t]] # Null
    /\ value' = [value EXCEPT ![t] = next[tail[t]]]
    /\ next' = [next EXCEPT ![tail[t]] = value[t]]
    /\ private' = [private EXCEPT ![t] = SubSeq(@, 1, 1)]
    /\ pc' = [pc EXCEPT ![t] = "merge"]
    /\ UNCHANGED <<head, localHead, tail, seen, shared>>

\* tail->next is the last item: swap(value, tail->next); new_head = nullptr
PopDetach(t) ==
    /\ pc[t] = "walk"
    /\ next[tail[t]] # Null
    /\ next[next[tail[t]]] = Null
    /\ value' = [value EXCEPT ![t] = next[tail[t]]]
    /\ next' = [next EXCEPT ![tail[t]] = value[t]]
    /\ private' = [private EXCEPT ![t] = SubSeq(@, 1, Len(@) - 1)]
    /\ pc' = [pc EXCEPT ![t] = "merge"]
    /\ UNCHANGED <<head, localHead, tail, seen, shared>>

\* The loop ends without a swap.  A list of one item: swap(value, local_head)
\* and there is nothing to put back; otherwise on to the merge.
PopSingle(t) ==
    /\ pc[t] = "walk"
    /\ next[tail[t]] = Null
    /\ IF tail[t] = localHead[t] /\ value[t] = Null
       THEN /\ value' = [value EXCEPT ![t] = localHead[t]]
            /\ localHead' = [localHead EXCEPT ![t] = Null]
            /\ tail' = [tail EXCEPT ![t] = Null]
            /\ private' = [private EXCEPT ![t] = <<>>]
            /\ pc' = [pc EXCEPT ![t] = "done"]
       ELSE /\ pc' = [pc EXCEPT ![t] = "merge"]
            /\ UNCHANGED <<value, localHead, tail, private>>
    /\ UNCHANGED <<head, next, seen, shared>>

\* Bug: head_.store(local_head), without comparing.
PopMerge_Store(t) ==
    /\ pc[t] = "merge"
    /\ head' = localHead[t]
    /\ shared' = private[t]
    /\ private' = [private EXCEPT ![t] = <<>>]
    /\ localHead' = [localHead EXCEPT ![t] = Null]
    /\ tail' = [tail EXCEPT ![t] = Null]
    /\ seen' = [seen EXCEPT ![t] = Null]
    /\ pc' = [pc EXCEPT ![t] = "done"]
    /\ UNCHANGED <<next, value>>

\* compare_exchange_weak succeeds: the rest of the list goes on top of what
\* was pushed meanwhile
PopMerge(t) ==
    /\ pc[t] = "merge"
    /\ head = seen[t]
    /\ head' = localHead[t]
    /\ shared' = private[t] \o shared
    /\ private' = [private EXCEPT ![t] = <<>>]
    /\ localHead' = [localHead EXCEPT ![t] = Null]
    /\ tail' = [tail EXCEPT ![t] = Null]
    /\ seen' = [seen EXCEPT ![t] = Null]
    /\ pc' = [pc EXCEPT ![t] = "done"]
    /\ UNCHANGED <<next, value>>

\* Bug: the loop has no body, tail->next is not set again.
PopMergeRetry_NoRelink(t) ==
    /\ pc[t] = "merge"
    /\ seen' = [seen EXCEPT ![t] = head]
    /\ UNCHANGED <<head, next, pc, value, localHead, tail, shared, private>>

\* Bug: new_head is declared in the loop and nullptr at every attempt.
PopMergeRetry_Stale(t) ==
    /\ pc[t] = "merge"
    /\ pc' = [pc EXCEPT ![t] = "relink"]
    /\ UNCHANGED <<head, next, value, localHead, tail, seen, shared, private>>

\* compare_exchange_weak fails, for a reason or for none, and loads head_
PopMergeRetry(t) ==
    /\ pc[t] = "merge"
    /\ seen' = [seen EXCEPT ![t] = head]
    /\ pc' = [pc EXCEPT ![t] = "relink"]
    /\ UNCHANGED <<head, next, value, localHead, tail, shared, private>>

\* tail->next = new_head
PopRelink(t) ==
    /\ pc[t] = "relink"
    /\ next' = [next EXCEPT ![tail[t]] = seen[t]]
    /\ pc' = [pc EXCEPT ![t] = "merge"]
    /\ UNCHANGED <<head, value, localHead, tail, seen, shared, private>>

\* return true: the item is the caller's
PopReturn(t) ==
    /\ pc[t] = "done"
    /\ value' = [value EXCEPT ![t] = Null]
    /\ pc' = [pc EXCEPT ![t] = "idle"]
    /\ UNCHANGED <<head, next, localHead, tail, seen, shared, private>>

----------------------------------------------------------------------------
PushStep(t) ==
    \/ \E i \in Items : PushLoad(t, i)
    \/ PushLink(t)
    \/ PushCas(t)
    \/ PushRetry(t)

PopStep(t) ==
    \/ PopExchange(t)
    \/ PopEmpty(t)
    \/ PopAdvance(t)
    \/ PopDetach(t)
    \/ PopSingle(t)
    \/ PopMerge(t)
    \/ PopMergeRetry(t)
    \/ PopRelink(t)
    \/ PopReturn(t)

Next == \E t \in Threads : PushStep(t) \/ PopStep(t)

Spec == Init /\ [][Next]_vars

----------------------------------------------------------------------------
(* The lists in memory *)

\* The items of s are linked in this order, the last one to e.
Linked(s, e) ==
    \A k \in 1..Len(s) : next[s[k]] = IF k < Len(s) THEN s[k + 1] ELSE e

Distinct(s) == \A j, k \in 1..Len(s) : s[j] = s[k] => j = k

Holding == {"walk", "merge", "relink"}

\* head_ and the links hold items or nullptr, and each call its own locals.
TypeOK ==
    /\ head \in Items \cup {Null}
    /\ next \in [Items -> Items \cup {Null}]
    /\ pc \in [Threads -> Labels]
    /\ value \in [Threads -> Items \cup {Null}]
    /\ localHead \in [Threads -> Items \cup {Null}]
    /\ tail \in [Threads -> Items \cup {Null}]
    /\ seen \in [Threads -> Items \cup {Null}]
    /\ shared \in Seq(Items)
    /\ private \in [Threads -> Seq(Items)]

\* The memory reachable from head_ is the list of the items that were pushed
\* and not taken: no interleaving of compare-and-swaps loses the end of the
\* list, links an item twice or closes a cycle.
SharedListInMemory ==
    /\ head = (IF shared = <<>> THEN Null ELSE shared[1])
    /\ Linked(shared, Null)
    /\ Distinct(shared)

PrivateList(t) ==
    /\ (pc[t] \in Holding) = (private[t] # <<>>)
    /\ Distinct(private[t])
    /\ pc[t] \in Holding => localHead[t] = private[t][1]
    /\ pc[t] = "walk" =>
          /\ Linked(private[t], Null)
          /\ \E k \in 1..Len(private[t]) :
                tail[t] = private[t][k] /\ (k = 1 \/ k < Len(private[t]))
    /\ pc[t] \in {"merge", "relink"} =>
          /\ tail[t] = private[t][Len(private[t])]
          /\ Linked(private[t], next[tail[t]])
    /\ pc[t] = "merge" => next[tail[t]] = seen[t]

\* A pop that has taken the list keeps it whole between local_head and tail
\* while it looks for the last item and while it puts the others back.
PrivateListInMemory == \A t \in Threads : PrivateList(t)

\* An item is in one list at most, and in none while it is being pushed or
\* returned: two threads never work on the same item.
Exclusive ==
    \A t \in Threads :
        /\ Range(shared) \cap Range(private[t]) = {}
        /\ value[t] \notin Range(shared)
        /\ \A u \in Threads : value[t] \notin Range(private[u])
        /\ \A u \in Threads \ {t} :
              /\ Range(private[t]) \cap Range(private[u]) = {}
              /\ value[t] # Null => value[t] # value[u]

\* A pop that is going to return true has an item, one that is linked to
\* nothing; no other pop has one.
PopGivesItem ==
    \A t \in Threads :
        /\ pc[t] \in {"merge", "relink", "done"} =>
              value[t] \in Items /\ next[value[t]] = Null
        /\ pc[t] \in {"link", "cas"} => value[t] \in Items
        /\ pc[t] = "cas" => next[value[t]] = seen[t]
        /\ pc[t] \in {"idle", "walk", "empty"} => value[t] = Null
        /\ pc[t] \in {"idle", "walk", "empty", "done"} => seen[t] = Null

IInv == TypeOK /\ SharedListInMemory /\ PrivateListInMemory /\ Exclusive /\ PopGivesItem

----------------------------------------------------------------------------
(* What the queue promises *)

\* The item a pop takes is fixed when it takes the list: the last one.
PoolHand ==
    [t \in Threads |->
        IF pc[t] = "walk" THEN private[t][Len(private[t])]
        ELSE IF pc[t] \in {"merge", "relink", "done"} THEN value[t]
        ELSE Null]

PoolStage ==
    [t \in Threads |->
        IF pc[t] \in Holding THEN "holding"
        ELSE IF pc[t] = "done" THEN "done"
        ELSE IF pc[t] = "empty" THEN "missed"
        ELSE "out"]

Listed == Range(shared) \cup UNION {Range(private[t]) : t \in Threads}

PoolWaiting == Listed \ {PoolHand[t] : t \in Threads}

Pool == INSTANCE TaskPool WITH
    waiting <- PoolWaiting, stage <- PoolStage, hand <- PoolHand

\* Every push and pop of the lock-free list is one of the pool's: nothing is
\* lost, nothing is given out twice, an item is given out only after it was
\* pushed, and pop returns false only when nothing waits or while another pop
\* has the list.
ImplementsPool == Pool!PoolSpec

----------------------------------------------------------------------------
(* Progress *)

\* compare_exchange_weak without a spurious failure.
Cas(t) ==
    \/ PushCas(t)
    \/ head # seen[t] /\ PushRetry(t)
    \/ PopMerge(t)
    \/ head # seen[t] /\ PopMergeRetry(t)

Local(t) ==
    \/ PushLink(t) \/ PopEmpty(t) \/ PopAdvance(t) \/ PopDetach(t)
    \/ PopSingle(t) \/ PopRelink(t) \/ PopReturn(t)

\* A thread inside push or pop keeps running, and its compare_exchange_weak
\* does not fail spuriously for ever.  Nothing is assumed of idle threads.
Fairness == \A t \in Threads : WF_vars(Local(t)) /\ SF_vars(Cas(t))

FairSpec == Spec /\ Fairness

Busy == \E t \in Threads : pc[t] # "idle"

Complete == \E t \in Threads : pc[t] # "idle" /\ pc'[t] = "idle"

\* "Lock-free": as long as threads are inside push or pop, calls complete; the
\* compare-and-swap loops never fail each other for ever.
LockFree == []<>Busy => []<><<Complete>>_vars
=============================================================================

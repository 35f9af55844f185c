-------------------------- MODULE IoSchedulerProofs --------------------------
(***************************************************************************)
(* Proofs about IoScheduler, for any pollers, coroutines and entries: no   *)
(* entry and no coroutine is lost, or given out twice.  Inv is inductive;  *)
(* each of its parts speaks of a few variables only, so that a step has to *)
(* be looked at for the parts whose variables it changes.                  *)
(***************************************************************************)
EXTENDS IoScheduler, SequenceTheorems, TLAPS

Once(s) == \A j, k \in 1..Len(s) : s[j] = s[k] => j = k

----------------------------------------------------------------------------
(* The port *)

\* An entry that is posted comes to those in the port.
LEMMA PostFacts ==
  ASSUME port \in Seq(Entries), NEW e \in Entries, Port!Post(e)
  PROVE  /\ port' \in Seq(Entries)
         /\ Range(port') = Range(port) \cup {e}
         /\ Once(port) /\ e \notin Range(port) => Once(port')
<1>1. /\ port' \in Seq(Entries) /\ Len(port) \in Nat /\ Len(port') = Len(port) + 1
      /\ port'[Len(port) + 1] = e
      /\ \A k \in 1..Len(port) : port'[k] = port[k]
  BY AppendProperties, LenProperties DEF Port!Post
<1>2. DOMAIN port = 1..Len(port) /\ DOMAIN port' = 1..Len(port')
  BY <1>1, LenProperties
<1>3. 1..Len(port') = 1..Len(port) \cup {Len(port) + 1}
  BY <1>1
<1>4. Range(port') = Range(port) \cup {e}
  BY <1>1, <1>2, <1>3 DEF Range
<1>5. ASSUME Once(port), e \notin Range(port) PROVE Once(port')
  BY <1>1, <1>2, <1>3, <1>5 DEF Once, Range
<1> QED
  BY <1>1, <1>4, <1>5

\* The entry that is fetched is the one that leaves the port.
LEMMA GetFacts ==
  ASSUME port \in Seq(Entries), Port!Get
  PROVE  /\ port' \in Seq(Entries)
         /\ Port!Oldest \in Entries
         /\ Range(port) = Range(port') \cup {Port!Oldest}
         /\ Once(port) => Once(port') /\ Port!Oldest \notin Range(port')
<1>1. /\ port' \in Seq(Entries) /\ port # <<>> /\ Port!Oldest = port[1]
      /\ Len(port) \in Nat \ {0} /\ Len(port') = Len(port) - 1
      /\ \A k \in 1..Len(port') : port'[k] = port[k + 1]
  BY HeadTailProperties, LenProperties, EmptySeq DEF Port!Get, Port!Oldest
<1>2. DOMAIN port = 1..Len(port) /\ DOMAIN port' = 1..Len(port')
  BY <1>1, LenProperties
<1>3. Port!Oldest \in Entries
  BY <1>1, ElementOfSeq
<1>4. Range(port) = Range(port') \cup {Port!Oldest}
  <2>1. \A k \in 1..Len(port) : k = 1 \/ (k - 1 \in 1..Len(port') /\ port'[k - 1] = port[k])
    BY <1>1
  <2>2. 1 \in 1..Len(port) /\ \A k \in 1..Len(port') : k + 1 \in 1..Len(port)
    BY <1>1
  <2>3. ASSUME NEW e \in Range(port) PROVE e = Port!Oldest \/ e \in Range(port')
    <3>1. PICK k \in 1..Len(port) : e = port[k]
      BY <1>2 DEF Range
    <3> QED
      BY <1>1, <1>2, <2>1, <3>1 DEF Range
  <2>4. ASSUME NEW e \in Range(port') PROVE e \in Range(port)
    <3>1. PICK k \in 1..Len(port') : e = port'[k]
      BY <1>2 DEF Range
    <3> QED
      BY <1>1, <1>2, <2>2, <3>1 DEF Range
  <2>5. Port!Oldest \in Range(port)
    BY <1>1, <1>2, <2>2 DEF Range
  <2> QED
    BY <2>3, <2>4, <2>5
<1>5. ASSUME Once(port) PROVE Once(port') /\ Port!Oldest \notin Range(port')
  BY <1>1, <1>2, <1>5 DEF Once, Range
<1> QED
  BY <1>1, <1>3, <1>4, <1>5

----------------------------------------------------------------------------
(* Inv holds initially and is preserved by every action *)

partVars == <<port, posted, data, received, lost>>
suspendVars == <<waiting, hand, coro, cs, runner>>

\* A step that leaves their variables alone leaves the parts of Inv alone.
LEMMA EntryFrame ==
  ASSUME EntryInOnePlace, UNCHANGED partVars PROVE EntryInOnePlace'
  BY DEF EntryInOnePlace, InData, partVars

LEMMA SuspendedFrame ==
  ASSUME SuspendedIsQueued, UNCHANGED suspendVars PROVE SuspendedIsQueued'
  BY DEF SuspendedIsQueued, suspendVars

LEMMA PollerFrame ==
  ASSUME OneCoroutinePerPoller, UNCHANGED <<pc, runner>> PROVE OneCoroutinePerPoller'
  BY DEF OneCoroutinePerPoller

LEMMA StateFrame ==
  ASSUME PollerState, UNCHANGED <<pc, data, stage, hand>> PROVE PollerState'
  BY DEF PollerState

LEMMA InitInv == Init => Inv
<1> SUFFICES ASSUME Init PROVE Inv
  OBVIOUS
<1> USE IoSchedulerAssumption DEF Init, Tasks!PoolInit, Port!PortInit
<1>1. TypeOK
  BY DEF TypeOK, PollerLabels, CoroStates, Tasks!Stages
<1>2. EntryInOnePlace
  BY DEF EntryInOnePlace, InData, Range
<1>3. SuspendedIsQueued
  BY DEF SuspendedIsQueued
<1>4. OneCoroutinePerPoller
  BY DEF OneCoroutinePerPoller
<1>5. PollerState
  BY DEF PollerState
<1> QED
  BY <1>1, <1>2, <1>3, <1>4, <1>5 DEF Inv

LEMMA CompleteInv ==
  ASSUME Inv, NEW e \in Entries, Complete(e) PROVE Inv'
<1> USE DEF Complete, queueVars, coroVars
<1>1. /\ port' \in Seq(Entries) /\ Range(port') = Range(port) \cup {e}
      /\ Once(port) /\ e \notin Range(port) => Once(port')
  BY PostFacts DEF Inv, TypeOK
<1>2. TypeOK'
  BY <1>1 DEF Inv, TypeOK
<1>3. EntryInOnePlace'
  <2>1. e \notin Range(port) /\ ~InData(e) /\ received[e] = Null /\ e \notin lost
    BY DEF Inv, EntryInOnePlace
  <2>2. \A d : InData(d)' <=> InData(d)
    BY DEF InData
  <2> QED
    BY <1>1, <2>1, <2>2 DEF Inv, EntryInOnePlace, Once
<1>4. SuspendedIsQueued' /\ OneCoroutinePerPoller' /\ PollerState'
  BY SuspendedFrame, PollerFrame, StateFrame DEF Inv, suspendVars
<1> QED
  BY <1>2, <1>3, <1>4 DEF Inv

LEMMA StartInv ==
  ASSUME Inv, NEW c \in Coros, Start(c) PROVE Inv'
<1> USE IoSchedulerAssumption DEF Start, queueVars
<1>1. TypeOK'
  BY DEF Inv, TypeOK, CoroStates
<1>2. SuspendedIsQueued'
  BY DEF Inv, SuspendedIsQueued, TypeOK
<1>3. OneCoroutinePerPoller'
  BY DEF Inv, OneCoroutinePerPoller, SuspendedIsQueued, TypeOK
<1>4. EntryInOnePlace' /\ PollerState'
  BY EntryFrame, StateFrame DEF Inv, partVars
<1> QED
  BY <1>1, <1>2, <1>3, <1>4 DEF Inv

LEMMA AwaitSuspendInv ==
  ASSUME Inv, NEW c \in Coros, AwaitSuspend(c) PROVE Inv'
<1> USE DEF AwaitSuspend, queueVars
<1>1. TypeOK'
  BY DEF Inv, TypeOK, CoroStates
<1>2. SuspendedIsQueued'
  BY DEF Inv, SuspendedIsQueued, TypeOK
<1>3. EntryInOnePlace' /\ OneCoroutinePerPoller' /\ PollerState'
  BY EntryFrame, PollerFrame, StateFrame DEF Inv, partVars
<1> QED
  BY <1>1, <1>2, <1>3 DEF Inv

\* A coroutine that suspends or ends gives its poller back.
LEMMA BackInv ==
  ASSUME Inv, NEW c \in Coros, runner[c] # Null,
         Back(runner[c]), runner' = [runner EXCEPT ![c] = Null],
         UNCHANGED <<data, stage, hand>>
  PROVE  /\ pc' \in [Pollers -> PollerLabels]
         /\ runner' \in [Coros -> Pollers \cup {Outside, Null}]
         /\ OneCoroutinePerPoller' /\ PollerState'
<1> USE IoSchedulerAssumption DEF Back
<1>1. \A p \in Pollers : pc'[p] # pc[p] => p = runner[c] /\ pc[p] = "resumed" /\ pc'[p] = "true"
  BY DEF Inv, OneCoroutinePerPoller
<1>2. pc' \in [Pollers -> PollerLabels] /\ runner' \in [Coros -> Pollers \cup {Outside, Null}]
  BY DEF Inv, TypeOK, PollerLabels
<1>3. OneCoroutinePerPoller'
  BY <1>2 DEF Inv, OneCoroutinePerPoller, TypeOK
<1>4. PollerState'
  BY <1>1 DEF Inv, PollerState
<1> QED
  BY <1>2, <1>3, <1>4

LEMMA AddInv ==
  ASSUME Inv, NEW c \in Coros, Add(c) PROVE Inv'
<1> USE DEF Add, Tasks!Push
<1>1. runner[c] # Null
  BY DEF Inv, SuspendedIsQueued
<1>2. /\ pc' \in [Pollers -> PollerLabels]
      /\ runner' \in [Coros -> Pollers \cup {Outside, Null}]
      /\ OneCoroutinePerPoller' /\ PollerState'
  BY <1>1, BackInv
<1>3. TypeOK'
  BY <1>2 DEF Inv, TypeOK, CoroStates
<1>4. SuspendedIsQueued'
  BY DEF Inv, SuspendedIsQueued, TypeOK, Tasks!InHand
<1>5. EntryInOnePlace'
  BY EntryFrame DEF Inv, partVars
<1> QED
  BY <1>2, <1>3, <1>4, <1>5 DEF Inv

LEMMA FinishInv ==
  ASSUME Inv, NEW c \in Coros, Finish(c) PROVE Inv'
<1> USE DEF Finish, queueVars
<1>1. runner[c] # Null
  BY DEF Inv, SuspendedIsQueued
<1>2. /\ pc' \in [Pollers -> PollerLabels]
      /\ runner' \in [Coros -> Pollers \cup {Outside, Null}]
      /\ OneCoroutinePerPoller' /\ PollerState'
  BY <1>1, BackInv
<1>3. TypeOK'
  BY <1>2 DEF Inv, TypeOK, CoroStates
<1>4. SuspendedIsQueued'
  BY DEF Inv, SuspendedIsQueued, TypeOK
<1>5. EntryInOnePlace'
  BY EntryFrame DEF Inv, partVars
<1> QED
  BY <1>2, <1>3, <1>4, <1>5 DEF Inv

LEMMA PollInv ==
  ASSUME Inv, NEW p \in Pollers, Poll(p) PROVE Inv'
<1> USE DEF Poll, Goto, queueVars, coroVars
<1>1. TypeOK'
  BY DEF Inv, TypeOK, PollerLabels
<1>2. OneCoroutinePerPoller'
  BY DEF Inv, OneCoroutinePerPoller, TypeOK
<1>3. PollerState'
  BY DEF Inv, PollerState, TypeOK
<1>4. EntryInOnePlace' /\ SuspendedIsQueued'
  BY EntryFrame, SuspendedFrame DEF Inv, partVars, suspendVars
<1> QED
  BY <1>1, <1>2, <1>3, <1>4 DEF Inv

LEMMA QueryInv ==
  ASSUME Inv, NEW p \in Pollers, Query(p) PROVE Inv'
<1> USE DEF Query, Goto, queueVars, coroVars
<1>1. SuspendedIsQueued'
  BY SuspendedFrame DEF Inv, suspendVars
<1>2. CASE Port!Get /\ data' = [data EXCEPT ![p] = Port!Oldest] /\ Goto(p, "pop")
  <2>1. /\ port' \in Seq(Entries) /\ Port!Oldest \in Entries
        /\ Range(port) = Range(port') \cup {Port!Oldest}
        /\ Once(port) => Once(port') /\ Port!Oldest \notin Range(port')
    BY <1>2, GetFacts DEF Inv, TypeOK
  <2>2. TypeOK'
    BY <1>2, <2>1 DEF Inv, TypeOK, PollerLabels
  <2>3. data[p] = Null /\ Port!Oldest # Null
    BY <2>1, IoSchedulerAssumption DEF Inv, PollerState
  <2>4. EntryInOnePlace'
    <3>1. /\ Once(port) /\ ~InData(Port!Oldest)
          /\ received[Port!Oldest] = Null /\ Port!Oldest \notin lost
      BY <2>1 DEF Inv, EntryInOnePlace, Once
    <3>2. \A e \in Entries : InData(e)' <=> InData(e) \/ e = Port!Oldest
      BY <1>2, <2>3, IoSchedulerAssumption DEF InData, Inv, TypeOK
    <3>3. \A e \in Entries : e \in Range(port') <=> e \in Range(port) /\ e # Port!Oldest
      BY <2>1, <3>1
    <3>4. \A e \in Entries :
            /\ e \in posted' <=> e \in Range(port)' \/ InData(e)' \/ received'[e] # Null \/ e \in lost'
            /\ ~(e \in Range(port)' /\ InData(e)')
            /\ received'[e] # Null => e \notin Range(port)' /\ ~InData(e)'
            /\ e \in lost' => e \notin Range(port)' /\ ~InData(e)' /\ received'[e] = Null
      BY <2>1, <3>1, <3>2, <3>3 DEF Inv, EntryInOnePlace
    <3>5. \A q, r \in Pollers : data'[q] = data'[r] /\ data'[q] # Null => q = r
      BY <1>2, <3>1 DEF Inv, EntryInOnePlace, TypeOK, InData
    <3> QED
      BY <2>1, <3>1, <3>4, <3>5 DEF EntryInOnePlace, Once
  <2>5. OneCoroutinePerPoller'
    BY <1>2 DEF Inv, OneCoroutinePerPoller, TypeOK
  <2>6. PollerState'
    BY <1>2, <2>3 DEF Inv, PollerState, TypeOK
  <2> QED
    BY <1>1, <2>2, <2>4, <2>5, <2>6 DEF Inv
<1>3. CASE Port!TimeOut /\ Goto(p, "false") /\ UNCHANGED data
  <2>1. TypeOK'
    BY <1>3 DEF Inv, TypeOK, PollerLabels, Port!TimeOut
  <2>2. EntryInOnePlace'
    BY <1>3, EntryFrame DEF Inv, partVars, Port!TimeOut
  <2>3. OneCoroutinePerPoller'
    BY <1>3 DEF Inv, OneCoroutinePerPoller, TypeOK
  <2>4. PollerState'
    BY <1>3 DEF Inv, PollerState, TypeOK
  <2> QED
    BY <1>1, <2>1, <2>2, <2>3, <2>4 DEF Inv
<1> QED
  BY <1>2, <1>3

LEMMA PopInv ==
  ASSUME Inv, NEW p \in Pollers, Pop(p) PROVE Inv'
<1> USE DEF Pop, coroVars
<1>1. EntryInOnePlace' /\ OneCoroutinePerPoller'
  BY EntryFrame, PollerFrame DEF Inv, partVars
<1>2. ASSUME NEW c \in Coros, Tasks!Take(p, c) PROVE TypeOK' /\ SuspendedIsQueued' /\ PollerState'
  <2> USE <1>2, IoSchedulerAssumption DEF Tasks!Take
  <2>1. TypeOK'
    BY DEF Inv, TypeOK, Tasks!Stages
  <2>2. hand[p] = Null /\ \A q \in Pollers : hand[q] # c
    BY DEF Inv, PollerState, SuspendedIsQueued
  <2>3. SuspendedIsQueued'
    BY <2>2 DEF Inv, SuspendedIsQueued, TypeOK
  <2>4. PollerState'
    BY DEF Inv, PollerState, TypeOK
  <2> QED
    BY <2>1, <2>3, <2>4
<1>3. CASE Tasks!Release(p) \/ Tasks!Miss(p)
  <2> USE <1>3 DEF Tasks!Release, Tasks!Miss
  <2>1. TypeOK'
    BY DEF Inv, TypeOK, Tasks!Stages
  <2>2. SuspendedIsQueued'
    BY SuspendedFrame DEF Inv, suspendVars
  <2>3. PollerState'
    BY DEF Inv, PollerState, TypeOK
  <2> QED
    BY <1>1, <2>1, <2>2, <2>3 DEF Inv
<1> QED
  BY <1>1, <1>2, <1>3 DEF Inv

LEMMA PopFailedInv ==
  ASSUME Inv, NEW p \in Pollers, PopFailed(p) PROVE Inv'
<1> USE DEF PopFailed, Goto, coroVars, Tasks!ReturnMissed
<1>1. TypeOK'
  BY DEF Inv, TypeOK, PollerLabels, Tasks!Stages
<1>2. OneCoroutinePerPoller'
  BY DEF Inv, OneCoroutinePerPoller, TypeOK
<1>3. PollerState'
  BY DEF Inv, PollerState, TypeOK
<1>4. EntryInOnePlace' /\ SuspendedIsQueued'
  BY EntryFrame, SuspendedFrame DEF Inv, partVars, suspendVars
<1> QED
  BY <1>1, <1>2, <1>3, <1>4 DEF Inv

LEMMA PutBackInv ==
  ASSUME Inv, NEW p \in Pollers, PutBack(p) PROVE Inv'
<1> USE DEF PutBack, Goto, queueVars, coroVars
<1>1. data[p] \in Entries /\ data[p] # Null
  BY DEF Inv, PollerState, TypeOK
<1>2. /\ Once(port) /\ data[p] \notin Range(port) /\ received[data[p]] = Null
      /\ data[p] \notin lost /\ InData(data[p])
  BY <1>1 DEF Inv, EntryInOnePlace, InData, Once
<1>3. \A e \in Entries : InData(e)' <=> InData(e) /\ e # data[p]
  BY IoSchedulerAssumption DEF InData, Inv, TypeOK, EntryInOnePlace
<1>4. \A q, r \in Pollers : data'[q] = data'[r] /\ data'[q] # Null => q = r
  BY DEF Inv, EntryInOnePlace, TypeOK
<1>5. TypeOK' /\ EntryInOnePlace'
  <2>1. CASE Port!Post(data[p]) /\ UNCHANGED lost
    <3>1. /\ port' \in Seq(Entries) /\ Range(port') = Range(port) \cup {data[p]}
          /\ Once(port')
      BY <1>1, <1>2, <2>1, PostFacts DEF Inv, TypeOK
    <3>2. TypeOK'
      BY <2>1, <3>1 DEF Inv, TypeOK, PollerLabels
    <3>3. \A e \in Entries :
            /\ e \in posted' <=> e \in Range(port)' \/ InData(e)' \/ received'[e] # Null \/ e \in lost'
            /\ ~(e \in Range(port)' /\ InData(e)')
            /\ received'[e] # Null => e \notin Range(port)' /\ ~InData(e)'
            /\ e \in lost' => e \notin Range(port)' /\ ~InData(e)' /\ received'[e] = Null
      BY <1>2, <1>3, <2>1, <3>1 DEF Inv, EntryInOnePlace
    <3> QED
      BY <1>4, <3>1, <3>2, <3>3 DEF EntryInOnePlace, Once
  <2>2. CASE lost' = lost \cup {data[p]} /\ UNCHANGED port
    <3>1. TypeOK'
      BY <1>1, <2>2 DEF Inv, TypeOK, PollerLabels
    <3>2. \A e \in Entries :
            /\ e \in posted' <=> e \in Range(port)' \/ InData(e)' \/ received'[e] # Null \/ e \in lost'
            /\ ~(e \in Range(port)' /\ InData(e)')
            /\ received'[e] # Null => e \notin Range(port)' /\ ~InData(e)'
            /\ e \in lost' => e \notin Range(port)' /\ ~InData(e)' /\ received'[e] = Null
      BY <1>2, <1>3, <2>2 DEF Inv, EntryInOnePlace
    <3> QED
      BY <1>2, <1>4, <2>2, <3>1, <3>2 DEF EntryInOnePlace, Once
  <2> QED
    BY <2>1, <2>2
<1>6. OneCoroutinePerPoller'
  BY DEF Inv, OneCoroutinePerPoller, TypeOK
<1>7. PollerState'
  BY DEF Inv, PollerState, TypeOK
<1>8. SuspendedIsQueued'
  BY SuspendedFrame DEF Inv, suspendVars
<1> QED
  BY <1>5, <1>6, <1>7, <1>8 DEF Inv

LEMMA SetInv ==
  ASSUME Inv, NEW p \in Pollers, Set(p) PROVE Inv'
<1> USE IoSchedulerAssumption DEF Set, Goto, Tasks!ReturnItem
<1>1. data[p] \in Entries /\ data[p] # Null
  BY DEF Inv, PollerState, TypeOK
<1>2. hand[p] \in Coros /\ hand[p] # Null /\ cs[hand[p]] = "suspended" /\ runner[hand[p]] = Null
  BY DEF Inv, PollerState, TypeOK, SuspendedIsQueued
<1>3. TypeOK'
  BY <1>2 DEF Inv, TypeOK, PollerLabels, CoroStates, Tasks!Stages
<1>4. EntryInOnePlace'
  <2>1. /\ data[p] \notin Range(port) /\ received[data[p]] = Null
        /\ data[p] \in posted /\ data[p] \notin lost
    BY <1>1 DEF Inv, EntryInOnePlace, InData
  <2>2. \A e \in Entries : InData(e)' <=> InData(e) /\ e # data[p]
    BY DEF InData, Inv, TypeOK, EntryInOnePlace
  <2>3. \A e \in Entries : received'[e] # Null <=> received[e] # Null \/ e = data[p]
    BY <1>1, <1>2 DEF Inv, TypeOK
  <2>4. \A q, r \in Pollers : data'[q] = data'[r] /\ data'[q] # Null => q = r
    BY DEF Inv, EntryInOnePlace, TypeOK
  <2> QED
    BY <2>1, <2>2, <2>3, <2>4 DEF Inv, EntryInOnePlace
<1>5. SuspendedIsQueued'
  BY <1>2 DEF Inv, SuspendedIsQueued, TypeOK
<1>6. OneCoroutinePerPoller'
  BY <1>2 DEF Inv, OneCoroutinePerPoller, TypeOK
<1>7. PollerState'
  BY DEF Inv, PollerState, TypeOK
<1> QED
  BY <1>3, <1>4, <1>5, <1>6, <1>7 DEF Inv

LEMMA LoopInv ==
  ASSUME Inv, NEW p \in Pollers, Again(p) \/ Return(p) PROVE Inv'
<1> USE DEF Again, Return, Goto, queueVars, coroVars
<1>1. TypeOK'
  BY DEF Inv, TypeOK, PollerLabels
<1>2. OneCoroutinePerPoller'
  BY DEF Inv, OneCoroutinePerPoller, TypeOK
<1>3. PollerState'
  BY DEF Inv, PollerState, TypeOK
<1>4. EntryInOnePlace' /\ SuspendedIsQueued'
  BY EntryFrame, SuspendedFrame DEF Inv, partVars, suspendVars
<1> QED
  BY <1>1, <1>2, <1>3, <1>4 DEF Inv

LEMMA NextInv == Inv /\ [Next]_vars => Inv'
<1> SUFFICES ASSUME Inv, [Next]_vars PROVE Inv'
  OBVIOUS
<1>1. ASSUME NEW e \in Entries, Complete(e) PROVE Inv'
  BY <1>1, CompleteInv
<1>2. ASSUME NEW c \in Coros, Start(c) \/ CoroStep(c) PROVE Inv'
  BY <1>2, StartInv, AwaitSuspendInv, AddInv, FinishInv DEF CoroStep
<1>3. ASSUME NEW p \in Pollers, Poll(p) \/ PollStep(p) PROVE Inv'
  BY <1>3, PollInv, QueryInv, PopInv, PopFailedInv, PutBackInv, SetInv, LoopInv DEF PollStep
<1>4. CASE UNCHANGED vars
  <2>1. TypeOK'
    BY <1>4 DEF vars, queueVars, coroVars, Inv, TypeOK
  <2> QED
    BY <1>4, <2>1, EntryFrame, SuspendedFrame, PollerFrame, StateFrame
    DEF vars, queueVars, coroVars, partVars, suspendVars, Inv
<1> QED
  BY <1>1, <1>2, <1>3, <1>4 DEF Next

\* The scheduler's invariant, for any number of pollers, coroutines and entries.
THEOREM SchedulerCorrect == Spec => []Inv
<1> QED
  BY InitInv, NextInv, PTL DEF Spec

\* With any number of threads in poll at a time, an entry is given to one
\* coroutine at most, and is lost only by a post of poll_one that fails: taking
\* it out and putting it back keeps it, as long as the put-back succeeds.
THEOREM SchedulerKeepsEntries == Spec => []EntryInOnePlace
<1>1. Inv => EntryInOnePlace
  BY DEF Inv
<1> QED
  BY <1>1, SchedulerCorrect, PTL

\* A coroutine is suspended exactly while its IoTask is in the queue or in the
\* hands of one pop, so it is never resumed twice and never forgotten.
THEOREM SchedulerKeepsCoroutines == Spec => []SuspendedIsQueued
<1>1. Inv => SuspendedIsQueued
  BY DEF Inv
<1> QED
  BY <1>1, SchedulerCorrect, PTL

\* A poller runs one coroutine at a time, and until it suspends or ends.
THEOREM SchedulerRunsInline == Spec => []OneCoroutinePerPoller
<1>1. Inv => OneCoroutinePerPoller
  BY DEF Inv
<1> QED
  BY <1>1, SchedulerCorrect, PTL
=============================================================================

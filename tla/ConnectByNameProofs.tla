------------------------- MODULE ConnectByNameProofs -------------------------
(***************************************************************************)
(* Proofs about ConnectByName, for lists of any length: the lookup and the *)
(* connects each signal once, when nobody else holds their operation.      *)
(***************************************************************************)
EXTENDS ConnectByName, SequenceTheorems, TLAPS

----------------------------------------------------------------------------
(* The lookup *)

LEMMA InitLookup == Init => LookupInv
<1> SUFFICES ASSUME Init PROVE LookupInv
  OBVIOUS
<1>1. signals \in Seq({"value", "error", "done"})
  BY EmptySeq DEF Init
<1>2. TypeOK
  BY <1>1 DEF Init, TypeOK
<1>3. OneOwner /\ CallbackLifetime /\ WorkerHandles
  BY DEF Init, OneOwner, CallbackLifetime, WorkerHandles
<1> QED
  BY <1>2, <1>3 DEF LookupInv

\* Steps of start(), of the worker, of a stop and of the pump
LEMMA LookupStep ==
  ASSUME LookupInv,
         Start \/ QueryEnds \/ OnComplete \/ RequestStop \/ TryStop \/ Cancel \/ Fetch
  PROVE  LookupInv' /\ signals' = signals
<1> USE DEF LookupInv, TypeOK, OneOwner, CallbackLifetime, WorkerHandles, queryVars
<1>1. CASE TryConstruct
  BY <1>1 DEF TryConstruct
<1>2. CASE QueryDone
  BY <1>2 DEF QueryDone
<1>3. CASE QueryPending
  BY <1>3 DEF QueryPending
<1>4. CASE Publish
  BY <1>4 DEF Publish
<1>5. CASE QueryEnds
  BY <1>5 DEF QueryEnds
<1>6. CASE OnComplete
  <2>1. query = "ended" /\ signals = <<>> /\ ~port /\ handler = "none"
    BY <1>6 DEF OnComplete
  <2>2. CASE port' = TRUE /\ UNCHANGED <<handler, postFailed>>
    BY <1>6, <2>1, <2>2 DEF OnComplete
  <2>3. CASE handler' = "worker" /\ postFailed' = TRUE /\ UNCHANGED port
    BY <1>6, <2>1, <2>3 DEF OnComplete
  <2> QED
    BY <1>6, <2>2, <2>3 DEF OnComplete
<1>7. CASE RequestStop
  BY <1>7 DEF RequestStop
<1>8. CASE TryStop
  BY <1>8 DEF TryStop
<1>9. CASE Cancel
  BY <1>9 DEF Cancel
<1>10. CASE Fetch
  BY <1>10 DEF Fetch
<1> QED
  BY <1>1, <1>2, <1>3, <1>4, <1>5, <1>6, <1>7, <1>8, <1>9, <1>10 DEF Start

\* The handler: it waits for the stop callback, and its signal is the first.
LEMMA SignalStep ==
  ASSUME LookupInv, OnAddrInfoFinish
  PROVE  /\ LookupInv' /\ signals = <<>> /\ signals' = <<Outcome>>
         /\ UNCHANGED <<query, error, postFailed>> /\ query = "done"
         /\ handler = "worker" => postFailed
<1> USE DEF LookupInv
<1>1. signals = <<>> /\ query = "done" /\ ~port /\ handler # "none"
  BY DEF OnAddrInfoFinish, OneOwner
<1>2. signals' = <<Outcome>> /\ Outcome \in {"value", "error", "done"} /\ UNCHANGED <<query, error, postFailed>>
  BY <1>1 DEF OnAddrInfoFinish, Outcome
<1>3. signals' # <<>> /\ Len(signals') = 1 /\ signals' \in Seq({"value", "error", "done"})
  BY <1>2
<1>4. TypeOK' /\ OneOwner' /\ CallbackLifetime' /\ WorkerHandles'
  BY <1>1, <1>2, <1>3 DEF OnAddrInfoFinish, TypeOK, OneOwner, CallbackLifetime, WorkerHandles
<1> QED
  BY <1>1, <1>2, <1>4 DEF WorkerHandles

----------------------------------------------------------------------------
(* The connects *)

AttemptResults == {"connected", "failed"}
Outcomes == {"none", "value", "error"} \X Nat

\* An attempt ends: the results are those before and the new one.
LEMMA ResultAppended ==
  ASSUME results \in Seq(AttemptResults), NEW r \in AttemptResults, results' = Append(results, r)
  PROVE  /\ results' \in Seq(AttemptResults) /\ Len(results) \in Nat /\ Len(results') = Len(results) + 1
         /\ results'[Len(results) + 1] = r /\ \A k \in 1..Len(results) : results'[k] = results[k]
  BY AppendProperties, LenProperties

LEMMA InProgress ==
  ASSUME ConnectInv, op # "none"
  PROVE  /\ signals = <<"value">> /\ outcome = None /\ frees = 0 /\ Listed
         /\ count \in Nat /\ current \in 1..count /\ Len(results) = current - 1
         /\ results \in Seq(AttemptResults)
         /\ \A k \in 1..Len(results) : results[k] = "failed"
<1> USE DEF ConnectInv
<1>1. /\ signals = <<"value">> /\ outcome = None /\ frees = 0 /\ Listed
      /\ count \in Nat /\ current \in 1..count /\ Len(results) = current - 1
      /\ results \in Seq(AttemptResults)
  BY DEF ListFollowsConnects, RangeTypeOK, FirstThatConnects, AttemptResults
<1>2. \A k \in 1..Len(results) : results[k] \in AttemptResults
  BY <1>1, ElementOfSeq
<1>3. \A k \in 1..Len(results) : results[k] # "connected"
  BY <1>1 DEF FirstThatConnects, None
<1> QED
  BY <1>1, <1>2, <1>3 DEF AttemptResults

RestOfConnect == UNCHANGED vars /\ frees' = IF outcome' # outcome THEN frees + 1 ELSE frees

LEMMA SuccessStep ==
  ASSUME ConnectInv, op # "none", OnConnectSuccess, RestOfConnect
  PROVE  /\ op' = "none" /\ FirstThatConnects' /\ ListFollowsConnects'
         /\ {count', current', lastError'} \subseteq Nat
         /\ results' \in Seq(AttemptResults) /\ outcome' \in Outcomes
<1> USE DEF OnConnectSuccess
<1>1. /\ signals = <<"value">> /\ outcome = None /\ frees = 0 /\ Listed
      /\ count \in Nat /\ current \in 1..count /\ Len(results) = current - 1
      /\ results \in Seq(AttemptResults)
      /\ \A k \in 1..Len(results) : results[k] = "failed"
  BY InProgress
<1>2. /\ results' \in Seq(AttemptResults) /\ Len(results') = current
      /\ results'[current] = "connected" /\ \A k \in 1..current - 1 : results'[k] = "failed"
  BY <1>1, ResultAppended DEF AttemptResults
<1>3. {count', current', lastError'} \subseteq Nat /\ outcome' \in Outcomes
  BY <1>1 DEF ConnectInv, RangeTypeOK, Outcomes
<1>4. FirstThatConnects'
  BY <1>1, <1>2 DEF FirstThatConnects
<1>5. ListFollowsConnects'
  BY <1>1 DEF ListFollowsConnects, Listed, None, RestOfConnect, vars, queryVars
<1> QED
  BY <1>2, <1>3, <1>4, <1>5

LEMMA ErrorStep ==
  ASSUME ConnectInv, op # "none", OnConnectError, RestOfConnect
  PROVE  /\ op' \in {"none", "starting"} /\ FirstThatConnects' /\ ListFollowsConnects'
         /\ {count', current', lastError'} \subseteq Nat
         /\ results' \in Seq(AttemptResults) /\ outcome' \in Outcomes
<1> USE DEF OnConnectError, StartNextConnect, End
<1>1. /\ signals = <<"value">> /\ outcome = None /\ frees = 0 /\ Listed
      /\ count \in Nat /\ current \in 1..count /\ Len(results) = current - 1
      /\ results \in Seq(AttemptResults)
      /\ \A k \in 1..Len(results) : results[k] = "failed"
  BY InProgress
<1>2. /\ results' \in Seq(AttemptResults) /\ Len(results') = current
      /\ \A k \in 1..current : results'[k] = "failed"
  BY <1>1, ResultAppended DEF AttemptResults
<1>3. {count', current', lastError'} \subseteq Nat
  BY <1>1
<1>4. CASE current = count
  <2>1. op' = "none" /\ outcome' = <<"error", count>>
    BY <1>1, <1>4
  <2>2. FirstThatConnects'
    BY <1>1, <1>2, <1>4, <2>1 DEF FirstThatConnects
  <2>3. ListFollowsConnects'
    BY <1>1, <2>1 DEF ListFollowsConnects, Listed, None, RestOfConnect, vars, queryVars
  <2> QED
    BY <1>1, <1>2, <1>3, <2>1, <2>2, <2>3 DEF Outcomes
<1>5. CASE current # count
  <2>1. op' = "starting" /\ outcome' = None
    BY <1>1, <1>5
  <2>2. FirstThatConnects'
    BY <1>1, <1>2, <2>1 DEF FirstThatConnects, None
  <2>3. ListFollowsConnects'
    BY <1>1, <1>5, <2>1 DEF ListFollowsConnects, Listed, None, RestOfConnect, vars, queryVars
  <2> QED
    BY <1>1, <1>2, <1>3, <2>1, <2>2, <2>3 DEF Outcomes, None
<1> QED
  BY <1>4, <1>5

\* The entry for the pending attempt is the only one in the port.
LEMMA EntryIsCurrent ==
  ASSUME ConnectInv, Port!Get
  PROVE  op = "pending" /\ irp = 0 /\ connects' = <<>>
<1>1. connects # <<>>
  BY DEF Port!Get
<1>2. op = "pending" /\ irp = 0 /\ connects = <<current>>
  BY <1>1 DEF ConnectInv, NoStaleEntry
<1> QED
  BY <1>2 DEF Port!Get

LEMMA ConnectStep == ConnectInv /\ Connect => ConnectInv'
<1> SUFFICES ASSUME ConnectInv, Connect PROVE ConnectInv'
  OBVIOUS
<1>1. LookupInv' /\ RestOfConnect
  BY DEF ConnectInv, Connect, RestOfConnect, vars, queryVars, LookupInv, TypeOK, OneOwner,
     CallbackLifetime, WorkerHandles
<1>2. CASE ConnectPending
  <2> USE <1>2 DEF ConnectPending
  <2>1. count \in Nat /\ current \in 1..count /\ irp = 0 /\ connects = <<>> /\ irp' = current
    BY InProgress DEF ConnectInv, NoStaleEntry
  <2>2. RangeTypeOK'
    BY <2>1 DEF ConnectInv, RangeTypeOK
  <2>3. NoStaleEntry'
    BY <2>1 DEF NoStaleEntry
  <2>4. FirstThatConnects'
    BY DEF ConnectInv, FirstThatConnects, None
  <2>5. ListFollowsConnects'
    BY <1>1 DEF ConnectInv, ListFollowsConnects, Listed, RestOfConnect, vars, queryVars
  <2> QED
    BY <1>1, <2>2, <2>3, <2>4, <2>5 DEF ConnectInv
<1>3. CASE ConnectFinished
  <2>1. op = "starting" /\ irp' = 0 /\ connects' = <<>>
    BY <1>3 DEF ConnectFinished, ConnectInv, NoStaleEntry
  <2>2. /\ op' \in {"none", "starting"} /\ FirstThatConnects' /\ ListFollowsConnects'
        /\ {count', current', lastError'} \subseteq Nat
        /\ results' \in Seq(AttemptResults) /\ outcome' \in Outcomes
    BY <1>1, <1>3, <2>1, SuccessStep, ErrorStep DEF ConnectFinished
  <2>3. RangeTypeOK' /\ NoStaleEntry'
    BY <2>1, <2>2, EmptySeq DEF RangeTypeOK, NoStaleEntry, AttemptResults, Outcomes
  <2> QED
    BY <1>1, <2>2, <2>3 DEF ConnectInv
<1>4. CASE ConnectEnds
  <2> USE <1>4 DEF ConnectEnds
  <2>1. op = "pending" /\ irp = current /\ connects' = <<current>> /\ current \in Nat \ {0}
    <3>1. op = "pending" /\ irp = current /\ connects = <<>>
      BY DEF ConnectInv, NoStaleEntry
    <3> QED
      BY <3>1, InProgress DEF Port!Post
  <2>2. RangeTypeOK'
    BY <2>1 DEF ConnectInv, RangeTypeOK
  <2>3. NoStaleEntry'
    BY <2>1 DEF NoStaleEntry
  <2>4. FirstThatConnects'
    BY DEF ConnectInv, FirstThatConnects, None
  <2>5. ListFollowsConnects'
    BY <1>1 DEF ConnectInv, ListFollowsConnects, Listed, RestOfConnect, vars, queryVars
  <2> QED
    BY <1>1, <2>2, <2>3, <2>4, <2>5 DEF ConnectInv
<1>5. CASE OnConnected
  <2>1. op = "pending" /\ irp' = 0 /\ connects' = <<>>
    BY <1>5, EntryIsCurrent DEF OnConnected
  <2>2. /\ op' \in {"none", "starting"} /\ FirstThatConnects' /\ ListFollowsConnects'
        /\ {count', current', lastError'} \subseteq Nat
        /\ results' \in Seq(AttemptResults) /\ outcome' \in Outcomes
    BY <1>1, <1>5, <2>1, SuccessStep, ErrorStep DEF OnConnected
  <2>3. RangeTypeOK' /\ NoStaleEntry'
    BY <2>1, <2>2, EmptySeq DEF RangeTypeOK, NoStaleEntry, AttemptResults, Outcomes
  <2> QED
    BY <1>1, <2>2, <2>3 DEF ConnectInv
<1> QED
  BY <1>2, <1>3, <1>4, <1>5 DEF Connect, RangeNext

----------------------------------------------------------------------------
(* The lookup and the connects together *)

LEMMA InitConnect == ConnectInit => ConnectInv
<1> SUFFICES ASSUME ConnectInit PROVE ConnectInv
  OBVIOUS
<1> USE DEF ConnectInit, RangeInit, Port!PortInit
<1>1. LookupInv
  BY InitLookup
<1>2. RangeTypeOK
  BY EmptySeq DEF RangeTypeOK, None
<1>3. NoStaleEntry
  BY DEF NoStaleEntry
<1>4. Len(results) = 0
  BY EmptySeq
<1>5. FirstThatConnects
  BY <1>4 DEF FirstThatConnects, None
<1>6. ListFollowsConnects
  BY DEF ListFollowsConnects, None, Init
<1> QED
  BY <1>1, <1>2, <1>3, <1>5, <1>6 DEF ConnectInv

\* A query that has ended keeps its result, and so its list.
LEMMA LookupKeeps ==
  ASSUME ConnectInv, Lookup PROVE ConnectInv'
<1> USE DEF Lookup, rangeVars
<1>1. LookupInv' /\ signals' = signals
  BY LookupStep DEF ConnectInv
<1>2. /\ signals # <<>> => query = "done" /\ (Listed => Listed')
      /\ signals # <<>> => (error \/ postFailed => error' \/ postFailed')
  <2> SUFFICES ASSUME signals # <<>>
               PROVE  query = "done" /\ error' = error /\ query' = query /\ (postFailed => postFailed')
    BY DEF Listed
  <2>1. query = "done" /\ start \notin {"no", "constructed"} /\ handler = "none" /\ ~port
        /\ callback = "none"
    BY DEF ConnectInv, LookupInv, OneOwner, CallbackLifetime
  <2> QED
    BY <2>1 DEF Start, TryConstruct, QueryDone, QueryPending, Publish, QueryEnds, OnComplete,
       RequestStop, TryStop, Cancel, Fetch, queryVars
<1>3. RangeTypeOK' /\ NoStaleEntry' /\ FirstThatConnects'
  BY DEF ConnectInv, RangeTypeOK, NoStaleEntry, FirstThatConnects
<1>4. ListFollowsConnects'
  BY <1>1, <1>2 DEF ConnectInv, ListFollowsConnects
<1> QED
  BY <1>1, <1>3, <1>4 DEF ConnectInv

LEMMA LookedUpKeeps ==
  ASSUME ConnectInv, LookedUp PROVE ConnectInv'
<1> USE DEF LookedUp
<1>1. /\ LookupInv' /\ signals = <<>> /\ signals' = <<Outcome>>
      /\ UNCHANGED <<query, error, postFailed>> /\ query = "done"
      /\ handler = "worker" => postFailed
  BY SignalStep DEF ConnectInv
<1>2. op = "none" /\ outcome = None /\ results = <<>> /\ irp = 0 /\ connects = <<>> /\ frees = 0
  BY <1>1 DEF ConnectInv, ListFollowsConnects, NoStaleEntry
<1>3. Len(results) = 0
  BY <1>2, EmptySeq
<1>4. CASE Outcome = "value"
  <2>1. PICK n \in 1..MaxEndpoints : RangeStart(n)
    BY <1>4
  <2>2. /\ n \in Nat \ {0} /\ count' = n /\ current' = 1 /\ lastError' = 0 /\ op' = "starting"
        /\ UNCHANGED <<irp, connects, results, outcome, frees>>
    BY <2>1, ConnectAssumption DEF RangeStart, StartNextConnect, Begin, End
  <2>3. RangeTypeOK'
    BY <2>2 DEF ConnectInv, RangeTypeOK
  <2>4. NoStaleEntry'
    BY <1>2, <2>2 DEF NoStaleEntry
  <2>5. FirstThatConnects'
    BY <1>2, <1>3, <2>2 DEF FirstThatConnects, None
  <2>6. Listed'
    BY <1>1, <1>4 DEF Outcome, Listed
  <2>7. ListFollowsConnects'
    BY <1>1, <1>2, <1>4, <2>2, <2>6 DEF ListFollowsConnects
  <2> QED
    BY <1>1, <2>3, <2>4, <2>5, <2>7 DEF ConnectInv
<1>5. CASE Outcome # "value"
  <2>1. UNCHANGED <<rangeVars, frees>>
    BY <1>5
  <2>2. RangeTypeOK' /\ NoStaleEntry' /\ FirstThatConnects'
    BY <2>1 DEF rangeVars, ConnectInv, RangeTypeOK, NoStaleEntry, FirstThatConnects
  <2>3. signals' # <<"value">> /\ (signals' = <<"error">> => error' \/ postFailed')
    BY <1>1, <1>5 DEF Outcome
  <2>4. ListFollowsConnects'
    BY <1>2, <2>1, <2>3 DEF rangeVars, ListFollowsConnects
  <2> QED
    BY <1>1, <2>2, <2>4 DEF ConnectInv
<1> QED
  BY <1>4, <1>5

LEMMA NextConnect == ConnectInv /\ [ConnectNext]_allVars => ConnectInv'
<1> SUFFICES ASSUME ConnectInv, [ConnectNext]_allVars PROVE ConnectInv'
  OBVIOUS
<1>1. CASE UNCHANGED allVars
  <2>1. LookupInv'
    BY <1>1 DEF allVars, vars, queryVars, ConnectInv, LookupInv, TypeOK, OneOwner,
       CallbackLifetime, WorkerHandles
  <2> QED
    BY <1>1, <2>1 DEF allVars, vars, queryVars, rangeVars, ConnectInv, RangeTypeOK,
       NoStaleEntry, FirstThatConnects, ListFollowsConnects, Listed
<1> QED
  BY <1>1, LookupKeeps, LookedUpKeeps, ConnectStep DEF ConnectNext

\* The inductive invariant of the lookup and the connects.
THEOREM ConnectCorrect == ConnectSpec => []ConnectInv
<1> QED
  BY InitConnect, NextConnect, PTL DEF ConnectSpec

\* Before start() and without a stop request a sender has promised nothing.
LEMMA InitContract == ConnectInit => Contract!Init
  BY DEF ConnectInit, Init, Contract!Init

\* The handler's signal is the contract's: the first, after start(), and done
\* after a stop request.
LEMMA SignalIsContract ==
  ASSUME ConnectInv, LookedUp
  PROVE  \E s \in {"value", "error", "done"} : Contract!Signal("lookup", s)
<1>1. signals = <<>> /\ signals' = <<Outcome>> /\ query = "done"
  BY SignalStep DEF ConnectInv, LookedUp
<1>2. start # "no" /\ UNCHANGED <<start, stopped>>
  BY <1>1 DEF LookedUp, OnAddrInfoFinish, ConnectInv, LookupInv, OneOwner
<1>3. Outcome \in {"value", "error", "done"} /\ (Outcome = "done" => stopped)
  BY DEF Outcome
<1> QED
  BY <1>1, <1>2, <1>3 DEF Contract!Signal

\* Of the other steps try_construct begins the sender and a stop request is its
\* receiver's; the rest is hidden.
LEMMA OtherStepsMap ==
  ASSUME ConnectInv, Lookup
  PROVE  [Contract!Next]_(Contract!contractVars)
<1> USE DEF Lookup, queryVars, Contract!contractVars
<1>1. signals' = signals
  BY LookupStep DEF ConnectInv
<1>2. CASE TryConstruct
  <2>1. Contract!Start("lookup")
    BY <1>1, <1>2 DEF TryConstruct, Contract!Start
  <2> QED
    BY <2>1 DEF Contract!Next
<1>3. CASE RequestStop
  <2>1. Contract!Ask("lookup")
    BY <1>1, <1>3 DEF RequestStop, Contract!Ask
  <2> QED
    BY <2>1 DEF Contract!Next
<1>4. CASE QueryDone \/ QueryPending \/ Publish
  BY <1>1, <1>4 DEF QueryDone, QueryPending, Publish
<1>5. CASE QueryEnds \/ OnComplete \/ TryStop \/ Cancel \/ Fetch
  BY <1>1, <1>5 DEF QueryEnds, OnComplete, TryStop, Cancel, Fetch
<1> QED
  BY <1>2, <1>3, <1>4, <1>5 DEF Start

LEMMA StepContract ==
  ConnectInv /\ [ConnectNext]_allVars => [Contract!Next]_(Contract!contractVars)
<1> SUFFICES ASSUME ConnectInv, [ConnectNext]_allVars
             PROVE  [Contract!Next]_(Contract!contractVars)
  OBVIOUS
<1>1. CASE LookedUp
  BY <1>1, SignalIsContract DEF Contract!Next
<1>2. CASE Lookup
  BY <1>2, OtherStepsMap
<1>3. CASE Connect \/ UNCHANGED allVars
  BY <1>3 DEF Connect, allVars, vars, Contract!contractVars
<1> QED
  BY <1>1, <1>2, <1>3 DEF ConnectNext

\* Wherever a lookup ends, synchronously, on the pump, or on the worker that
\* could not post, and whenever it is stopped, its receiver gets what every
\* sender promises: one signal after start(), done only after a stop request.
THEOREM LookupImplementsContract == ConnectSpec => ImplementsContract
<1>1. ConnectInit => Contract!Init
  BY InitContract
<1>2. ConnectInv /\ [ConnectNext]_allVars => [Contract!Next]_(Contract!contractVars)
  BY StepContract
<1> QED
  BY <1>1, <1>2, ConnectCorrect, PTL DEF ConnectSpec, ImplementsContract, Contract!Spec

\* It gets it when the query, the entry and a stop callback are done with the
\* operation, which the signal destroys.
THEOREM LookupOutlivesQuery == ConnectSpec => []OutlivesItsQuery
<1>1. ConnectInv => OutlivesItsQuery
  BY DEF ConnectInv, LookupInv, OneOwner, CallbackLifetime, OutlivesItsQuery
<1> QED
  BY <1>1, ConnectCorrect, PTL

\* The attempts of a connect share one OVERLAPPED, but never an entry.
THEOREM ConnectsHaveOwnEntries == ConnectSpec => []NoStaleEntry
<1>1. ConnectInv => NoStaleEntry
  BY DEF ConnectInv
<1> QED
  BY <1>1, ConnectCorrect, PTL

\* The endpoints are tried one by one up to the first that accepts.
THEOREM ConnectsToFirst == ConnectSpec => []FirstThatConnects
<1>1. ConnectInv => FirstThatConnects
  BY DEF ConnectInv
<1> QED
  BY <1>1, ConnectCorrect, PTL

\* The list of endpoints is freed once, after the last attempt, or not at all if
\* the lookup was stopped or its entry could not be posted.
THEOREM ListIsFreed == ConnectSpec => []ListFreed
<1>1. ASSUME ConnectInv PROVE ListFreed
  <2> USE <1>1 DEF ConnectInv
  <2>1. frees <= 1 /\ (frees = 1 => outcome # None)
    BY DEF ListFollowsConnects
  <2>2. outcome # None => signals = <<"value">> /\ Listed /\ op = "none"
    BY DEF ListFollowsConnects
  <2>3. ASSUME Listed, signals # <<>>, op = "none"
        PROVE  frees = 1 \/ signals = <<"done">> \/ postFailed
    <3>1. Len(signals) = 1 /\ signals \in Seq({"value", "error", "done"})
      BY <2>3 DEF LookupInv, OneOwner, TypeOK
    <3>2. signals = <<"value">> \/ signals = <<"error">> \/ signals = <<"done">>
      <4>1. signals[1] \in {"value", "error", "done"} /\ signals = <<signals[1]>>
        BY <3>1
      <4> QED
        BY <4>1
    <3> QED
      BY <2>3, <3>2 DEF ListFollowsConnects, Listed
  <2> QED
    BY <2>1, <2>2, <2>3 DEF ListFreed
<1> QED
  BY <1>1, ConnectCorrect, PTL
=============================================================================

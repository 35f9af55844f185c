------------------------ MODULE StreamTransferProofs ------------------------
(***************************************************************************)
(* Proofs about StreamTransfer and SimpleEcho, for any number of           *)
(* transfers, any buffers and any N: an entry in the port waits for N      *)
(* calls of each other transfer at most, and the bytes of a transfer go in *)
(* order, none twice and none left out, however the calls cut its buffers. *)
(***************************************************************************)
EXTENDS SimpleEcho, OffsetsProofs, SequenceTheorems, TLAPS

USE DEF Port!Post

----------------------------------------------------------------------------
(* The counter *)

LEMMA NextCount ==
  ASSUME NEW c \in 0..N - 1
  PROVE  IF c + 1 = N THEN (c + 1) % N = 0 ELSE c + 1 \in 0..N - 1 /\ (c + 1) % N = c + 1
<1>1. N \in Nat \ {0}
  BY TransferAssumption
<1>2. ASSUME NEW n \in Nat \ {0}, NEW k \in 0..n - 1 PROVE k % n = k
  OBVIOUS
<1>3. ASSUME NEW n \in Nat \ {0} PROVE n % n = 0
  OBVIOUS
<1>4. CASE c + 1 = N
  BY <1>1, <1>3, <1>4
<1>5. CASE c + 1 # N
  <2>1. c + 1 \in 0..N - 1
    BY <1>1, <1>5
  <2> QED
    BY <1>1, <1>2, <1>5, <2>1
<1> QED
  BY <1>4, <1>5

LEMMA CallsLeftBounded ==
  ASSUME TurnTypeOK, NEW u \in Transfers
  PROVE  /\ CallsLeft(u) \in 0..N /\ calls[u] \in 0..N - 1
         /\ at[u] \in {"some", "scheduled"} => CallsLeft(u) = N - calls[u]
         /\ at[u] \notin {"some", "scheduled"} => CallsLeft(u) = N - 1 - calls[u]
BY TransferAssumption DEF TurnTypeOK, CallsLeft

----------------------------------------------------------------------------
(* The port *)

\* An entry is the last one: it is before none.
LEMMA QueueStep ==
  ASSUME TurnInv, NEW t \in Transfers, NEW n \in Nat, Queue(t, n), ~Queued(t),
         at' \in [Transfers -> Labels], at'[t] \in {"scheduled", "pending"},
         calls' \in [Transfers -> 0..N - 1],
         \A u \in Transfers : u # t => at'[u] = at[u] /\ calls'[u] = calls[u],
         running' \in {running, Null}, running' # t, running' = Null => running \in {t, Null}
  PROVE  TurnInv'
<1>1. /\ TurnTypeOK /\ OneEntry /\ TurnsLeft /\ OthersGetTheirTurn
      /\ port' = Append(port, Entry(t, n))
      /\ waited' = [waited EXCEPT ![t] = [u \in Transfers |-> 0]]
  BY DEF TurnInv, Queue
<1>2. Len(port) \in Nat
  BY <1>1, LenProperties DEF TurnTypeOK
<1>3. /\ port' \in Seq([transfer : Transfers, bytes : Nat]) /\ Len(port') = Len(port) + 1
      /\ \A k \in 1..Len(port) : port'[k] = port[k]
      /\ port'[Len(port) + 1].transfer = t
  <2>1. Entry(t, n) \in [transfer : Transfers, bytes : Nat] /\ Entry(t, n).transfer = t
    BY DEF Entry
  <2> QED
    BY <1>1, <2>1, AppendProperties DEF TurnTypeOK
<1>4. \A k \in 1..Len(port') : k \in 1..Len(port) \/ k = Len(port) + 1
  BY <1>2, <1>3
<1>5. \A k \in 1..Len(port) : port[k].transfer # t
  BY DEF Queued
<1>6. /\ waited' \in [Transfers -> [Transfers -> Nat]]
      /\ \A u \in Transfers : waited'[t][u] = 0
      /\ \A x \in Transfers : x # t => waited'[x] = waited[x]
  BY <1>1 DEF TurnTypeOK
<1>7. TurnTypeOK'
  BY <1>1, <1>3, <1>6 DEF TurnTypeOK
<1>8. \A x \in Transfers : x # t => (Queued(x)' <=> Queued(x))
  <2>1. \A k \in 1..Len(port) : k \in 1..Len(port')
    BY <1>2, <1>3
  <2> QED
    BY <1>3, <1>4, <2>1 DEF Queued
<1>9. OneEntry'
  <2>1. \A j, k \in 1..Len(port') : port'[j].transfer = port'[k].transfer => j = k
    BY <1>1, <1>3, <1>4, <1>5 DEF OneEntry
  <2>2. \A x \in Transfers : Queued(x)' => at'[x] \in {"scheduled", "pending"}
    BY <1>1, <1>8 DEF OneEntry
  <2>3. running' # Null => at'[running'] \in {"repeat", "some"}
    BY <1>1 DEF OneEntry, TurnTypeOK
  <2> QED
    BY <2>1, <2>2, <2>3 DEF OneEntry
<1>10. TurnsLeft'
  <2>1. ASSUME NEW x \in Transfers, NEW u \in Transfers, Queued(x)', RunsBefore(u, x)'
        PROVE  waited'[x][u] + CallsLeft(u)' <= N
    <3>1. CASE x = t
      <4>1. CallsLeft(u)' \in 0..N
        <5>1. calls'[u] \in 0..N - 1 /\ N \in Nat \ {0}
          BY TransferAssumption
        <5>2. N - calls'[u] \in 0..N /\ N - 1 - calls'[u] \in 0..N
          BY <5>1
        <5> QED
          BY <5>2 DEF CallsLeft
      <4>2. waited'[x][u] = 0
        BY <1>6, <3>1
      <4>3. N \in Nat
        BY TransferAssumption
      <4> QED
        BY <4>1, <4>2, <4>3
    <3>2. CASE x # t /\ u = t
      <4>1. PICK j \in 1..Len(port'), k \in 1..Len(port') :
               j < k /\ port'[j].transfer = u /\ port'[k].transfer = x
        BY <2>1, <3>2 DEF RunsBefore, Idle
      <4>2. j = Len(port) + 1
        BY <1>3, <1>4, <1>5, <3>2, <4>1
      <4> QED
        BY <1>2, <1>3, <4>1, <4>2
    <3>3. CASE x # t /\ u # t
      <4>1. Queued(x) /\ waited'[x][u] = waited[x][u] /\ CallsLeft(u)' = CallsLeft(u)
        BY <1>6, <1>8, <2>1, <3>3 DEF CallsLeft
      <4>2. CASE running' = u
        BY <1>1, <3>3, <4>1, <4>2, TransferAssumption DEF RunsBefore, TurnsLeft
      <4>3. CASE Idle(u)'
        BY <1>1, <3>3, <4>1, <4>3 DEF RunsBefore, Idle, TurnsLeft
      <4>4. CASE \E j, k \in 1..Len(port') : j < k /\ port'[j].transfer = u /\ port'[k].transfer = x
        <5>1. PICK j \in 1..Len(port'), k \in 1..Len(port') :
                 j < k /\ port'[j].transfer = u /\ port'[k].transfer = x
          BY <4>4
        <5>2. j \in 1..Len(port) /\ k \in 1..Len(port)
          BY <1>3, <1>4, <3>3, <5>1
        <5>3. port[j].transfer = u /\ port[k].transfer = x
          BY <1>3, <5>1, <5>2
        <5>4. RunsBefore(u, x)
          BY <5>1, <5>2, <5>3 DEF RunsBefore
        <5> QED
          BY <1>1, <4>1, <5>4 DEF TurnsLeft
      <4> QED
        BY <2>1, <4>2, <4>3, <4>4 DEF RunsBefore
    <3> QED
      BY <3>1, <3>2, <3>3
  <2> QED
    BY <2>1 DEF TurnsLeft
<1>11. OthersGetTheirTurn'
  BY <1>1, <1>6, TransferAssumption DEF OthersGetTheirTurn
<1> QED
  BY <1>7, <1>9, <1>10, <1>11 DEF TurnInv

\* The transfer of the oldest entry has the thread next, or has ended.
LEMMA HandleStep ==
  ASSUME TurnInv, Handle PROVE TurnInv'
<1>1. /\ TurnTypeOK /\ OneEntry /\ TurnsLeft /\ OthersGetTheirTurn
      /\ running = Null /\ port # <<>> /\ port' = Tail(port) /\ UNCHANGED <<calls, waited>>
  BY DEF TurnInv, Handle, Port!Get
<1>2. /\ Len(port) \in Nat \ {0} /\ Head(port) = port[1]
      /\ port[1].transfer \in Transfers
      /\ Tail(port) \in Seq([transfer : Transfers, bytes : Nat]) /\ Len(Tail(port)) = Len(port) - 1
      /\ \A k \in 1..Len(port) - 1 : Tail(port)[k] = port[k + 1]
  <2>1. port \in Seq([transfer : Transfers, bytes : Nat])
    BY <1>1 DEF TurnTypeOK
  <2>2. /\ Len(port) \in Nat \ {0} /\ Head(port) = port[1]
        /\ port[1] \in [transfer : Transfers, bytes : Nat]
    <3>1. Len(port) \in Nat \ {0}
      BY <1>1, <2>1, LenProperties, EmptySeq
    <3>2. ASSUME NEW S, NEW q \in Seq(S), q # <<>> PROVE Head(q) = q[1] /\ Head(q) \in S
      BY <3>2, HeadTailProperties
    <3> DEFINE E == [transfer : Transfers, bytes : Nat]
    <3>3. port \in Seq(E) /\ port # <<>>
      BY <1>1, <2>1
    <3> HIDE DEF E
    <3>4. Head(port) = port[1] /\ Head(port) \in E
      BY <3>2, <3>3
    <3> QED
      BY <3>1, <3>4 DEF E
  <2>3. /\ Tail(port) \in Seq([transfer : Transfers, bytes : Nat]) /\ Len(Tail(port)) = Len(port) - 1
        /\ \A k \in 1..Len(port) - 1 : Tail(port)[k] = port[k + 1]
    BY <1>1, <2>1, <2>2, HeadTailProperties
  <2> QED
    BY <2>2, <2>3
<1>3. PICK t \in Transfers, l \in Labels :
         /\ t = port[1].transfer
         /\ at' = [at EXCEPT ![t] = l]
         /\ running' = IF l \in {"some", "repeat"} THEN t ELSE Null
         /\ \/ at[t] = "scheduled" /\ l = "some"
            \/ at[t] = "pending" /\ l \notin {"some", "scheduled", "pending"}
  <2> DEFINE t == port[1].transfer
  <2>1. t \in Transfers /\ t = Port!Oldest.transfer
    BY <1>2 DEF Port!Oldest
  <2>2. \E l \in Labels :
           /\ at' = [at EXCEPT ![t] = l]
           /\ running' = IF l \in {"some", "repeat"} THEN t ELSE Null
           /\ \/ at[t] = "scheduled" /\ l = "some"
              \/ at[t] = "pending" /\ l \notin {"some", "scheduled", "pending"}
    <3>1. \/ /\ at[t] = "scheduled" /\ at' = [at EXCEPT ![t] = "some"] /\ running' = t
          \/ at[t] = "pending" /\ Ends(t, "error")
          \/ at[t] = "pending" /\ Transferred(t, Port!Oldest.bytes)
          \/ at[t] = "pending" /\ Ends(t, "done")
      BY <2>1 DEF Handle
    <3> HIDE DEF t
    <3>2. CASE at[t] = "scheduled" /\ at' = [at EXCEPT ![t] = "some"] /\ running' = t
      <4>1. "some" \in Labels /\ "some" \in {"some", "repeat"}
        BY DEF Labels
      <4>2. running' = IF "some" \in {"some", "repeat"} THEN t ELSE Null
        BY <3>2, <4>1
      <4> QED
        BY <3>2, <4>1, <4>2, Zenon
    <3>3. CASE at[t] = "pending" /\ (Ends(t, "error") \/ Ends(t, "done"))
      BY <3>3 DEF Ends, Labels
    <3>4. CASE at[t] = "pending" /\ Transferred(t, Port!Oldest.bytes)
      <4>1. PICK l \in {"value", "repeat"} :
               /\ at' = [at EXCEPT ![t] = l]
               /\ running' = IF l = "repeat" THEN t ELSE Null
        BY <3>4 DEF Transferred
      <4> QED
        BY <3>4, <4>1 DEF Labels
    <3> QED
      BY <3>1, <3>2, <3>3, <3>4
  <2> QED
    BY <2>1, <2>2
<1>4. /\ at' \in [Transfers -> Labels] /\ at'[t] = l
      /\ \A u \in Transfers : u # t => at'[u] = at[u]
  BY <1>1, <1>3 DEF TurnTypeOK
<1>5. \A k \in 1..Len(port') : port'[k] = port[k + 1] /\ k + 1 \in 1..Len(port) /\ k \in Nat
  BY <1>1, <1>2
<1>6. TurnTypeOK'
  BY <1>1, <1>2, <1>3, <1>4 DEF TurnTypeOK
<1>7. ~Queued(t)' /\ \A x \in Transfers : Queued(x)' => Queued(x)
  <2>1. \A k \in 1..Len(port') : port'[k].transfer # t
    <3>1. ASSUME NEW k \in 1..Len(port'), port'[k].transfer = t PROVE FALSE
      <4>1. k + 1 = 1
        BY <1>1, <1>2, <1>3, <1>5, <3>1 DEF OneEntry
      <4> QED
        BY <1>5, <4>1
    <3> QED
      BY <3>1
  <2> QED
    BY <1>5, <2>1 DEF Queued
<1>8. OneEntry'
  <2>1. ASSUME NEW j \in 1..Len(port'), NEW k \in 1..Len(port'), port'[j].transfer = port'[k].transfer
        PROVE  j = k
    <3>1. j + 1 = k + 1
      BY <1>1, <1>5, <2>1 DEF OneEntry
    <3> QED
      BY <1>5, <3>1
  <2>2. \A x \in Transfers : Queued(x)' => at'[x] \in {"scheduled", "pending"}
    BY <1>1, <1>4, <1>7 DEF OneEntry
  <2>3. running' # Null => at'[running'] \in {"repeat", "some"}
    BY <1>3, <1>4
  <2> QED
    BY <2>1, <2>2, <2>3 DEF OneEntry
<1>9. TurnsLeft'
  <2>1. ASSUME NEW x \in Transfers, NEW u \in Transfers, Queued(x)', RunsBefore(u, x)'
        PROVE  waited'[x][u] + CallsLeft(u)' <= N
    <3>1. PICK i \in 1..Len(port') : port'[i].transfer = x
      BY <2>1 DEF Queued
    <3>2. /\ Queued(x) /\ waited'[x][u] = waited[x][u] /\ x # t
          /\ i + 1 \in 1..Len(port) /\ port[i + 1].transfer = x /\ 1 < i + 1
      BY <1>1, <1>2, <1>5, <1>7, <2>1, <3>1
    <3>3. CASE u = t
      <4>1. RunsBefore(t, x)
        BY <1>2, <1>3, <3>2 DEF RunsBefore
      <4>2. waited[x][t] + CallsLeft(t) <= N
        BY <1>1, <3>2, <4>1 DEF TurnsLeft
      <4>3. CallsLeft(t)' = CallsLeft(t)
        BY <1>1, <1>3, <1>4 DEF CallsLeft
      <4> QED
        BY <3>2, <3>3, <4>2, <4>3
    <3>4. CASE u # t
      <4>1. CallsLeft(u)' = CallsLeft(u)
        BY <1>1, <1>4, <3>4 DEF CallsLeft
      <4>2. RunsBefore(u, x)
        <5>1. CASE running' = u
          BY <1>3, <3>4, <5>1, TransferAssumption
        <5>2. CASE Idle(u)'
          BY <1>1, <1>4, <3>4, <5>2, TransferAssumption DEF RunsBefore, Idle
        <5>3. CASE \E j, k \in 1..Len(port') : j < k /\ port'[j].transfer = u /\ port'[k].transfer = x
          <6>1. PICK j \in 1..Len(port'), k \in 1..Len(port') :
                   j < k /\ port'[j].transfer = u /\ port'[k].transfer = x
            BY <5>3
          <6>2. j + 1 < k + 1 /\ port[j + 1].transfer = u /\ port[k + 1].transfer = x
            BY <1>5, <6>1
          <6> QED
            BY <1>5, <6>2 DEF RunsBefore
        <5> QED
          BY <2>1, <5>1, <5>2, <5>3 DEF RunsBefore
      <4> QED
        BY <1>1, <3>2, <4>1, <4>2 DEF TurnsLeft
    <3> QED
      BY <3>3, <3>4
  <2> QED
    BY <2>1 DEF TurnsLeft
<1>10. OthersGetTheirTurn'
  BY <1>1 DEF OthersGetTheirTurn
<1> QED
  BY <1>6, <1>8, <1>9, <1>10 DEF TurnInv

----------------------------------------------------------------------------
(* The transfer that has the thread *)

\* A call: the others have waited for one more, and one less is left.
LEMMA CallStep ==
  ASSUME TurnInv, NEW t \in Transfers, SomeFinished(t) \/ SomeRefused(t) \/ SomePending(t)
  PROVE  TurnInv'
<1>1. /\ TurnTypeOK /\ OneEntry /\ TurnsLeft /\ OthersGetTheirTurn
      /\ running = t /\ at[t] = "some" /\ Count(t) /\ UNCHANGED <<calls, port>>
  BY DEF TurnInv, SomeFinished, SomeRefused, SomePending
<1>2. PICK l \in Labels :
         /\ at' = [at EXCEPT ![t] = l]
         /\ running' = IF l = "repeat" THEN t ELSE Null
         /\ l \notin {"some", "scheduled"}
  <2>1. CASE SomeFinished(t)
    BY <2>1 DEF SomeFinished, Transferred, Ends, Labels
  <2>2. CASE SomeRefused(t)
    BY <2>2 DEF SomeRefused, Ends, Labels
  <2>3. CASE SomePending(t)
    BY <2>3 DEF SomePending, Labels
  <2> QED
    BY <2>1, <2>2, <2>3
<1>3. /\ at' \in [Transfers -> Labels] /\ at'[t] = l
      /\ \A u \in Transfers : u # t => at'[u] = at[u]
  BY <1>1, <1>2 DEF TurnTypeOK
<1>4. \A x \in Transfers : Queued(x)' <=> Queued(x)
  BY <1>1 DEF Queued
<1>5. ~Queued(t)
  BY <1>1 DEF OneEntry
<1>6. waited' = [x \in Transfers |-> IF Queued(x) THEN [waited[x] EXCEPT ![t] = @ + 1] ELSE waited[x]]
  BY <1>1 DEF Count, Queued
<1>7. /\ waited' \in [Transfers -> [Transfers -> Nat]]
      /\ \A x, u \in Transfers :
            waited'[x][u] = IF Queued(x) /\ u = t THEN waited[x][u] + 1 ELSE waited[x][u]
  <2>1. \A x \in Transfers : waited[x] \in [Transfers -> Nat]
    BY <1>1 DEF TurnTypeOK
  <2> QED
    BY <1>6, <2>1
<1>8. TurnTypeOK'
  BY <1>1, <1>2, <1>3, <1>7 DEF TurnTypeOK
<1>9. OneEntry'
  <2>1. \A x \in Transfers : Queued(x)' => at'[x] \in {"scheduled", "pending"}
    BY <1>1, <1>3, <1>4, <1>5 DEF OneEntry
  <2>2. running' # Null => at'[running'] \in {"repeat", "some"}
    BY <1>2, <1>3
  <2> QED
    BY <1>1, <2>1, <2>2 DEF OneEntry
<1>10. \A x \in Transfers : Queued(x) => waited[x][t] + (N - calls[t]) <= N
  BY <1>1 DEF TurnsLeft, RunsBefore, CallsLeft
<1>11. N \in Nat /\ calls[t] \in 0..N - 1 /\ \A x, u \in Transfers : waited[x][u] \in Nat
  <2>1. \A x \in Transfers : waited[x] \in [Transfers -> Nat]
    BY <1>1 DEF TurnTypeOK
  <2> QED
    BY <1>1, <2>1, TransferAssumption DEF TurnTypeOK
<1>12. TurnsLeft'
  <2>1. ASSUME NEW x \in Transfers, NEW u \in Transfers, Queued(x)', RunsBefore(u, x)'
        PROVE  waited'[x][u] + CallsLeft(u)' <= N
    <3>1. CASE u = t
      <4>1. l = "repeat"
        BY <1>1, <1>2, <1>3, <1>5, <2>1, <3>1, TransferAssumption DEF RunsBefore, Idle, Queued
      <4>2. CallsLeft(t)' = N - 1 - calls[t]
        BY <1>1, <1>3, <4>1 DEF CallsLeft
      <4>3. waited'[x][t] = waited[x][t] + 1 /\ waited[x][t] + (N - calls[t]) <= N
        BY <1>4, <1>7, <1>10, <2>1
      <4> QED
        BY <1>11, <3>1, <4>2, <4>3
    <3>2. CASE u # t
      <4>1. CallsLeft(u)' = CallsLeft(u) /\ waited'[x][u] = waited[x][u]
        BY <1>1, <1>3, <1>7, <3>2 DEF CallsLeft
      <4>2. RunsBefore(u, x)
        BY <1>1, <1>2, <1>3, <2>1, <3>2, TransferAssumption DEF RunsBefore, Idle
      <4> QED
        BY <1>1, <1>4, <2>1, <4>1, <4>2 DEF TurnsLeft
    <3> QED
      BY <3>1, <3>2
  <2> QED
    BY <2>1 DEF TurnsLeft
<1>13. OthersGetTheirTurn'
  <2>1. ASSUME NEW x \in Transfers, NEW u \in Transfers PROVE waited'[x][u] <= N
    <3>1. CASE Queued(x) /\ u = t
      BY <1>7, <1>10, <1>11, <3>1
    <3>2. CASE ~(Queued(x) /\ u = t)
      BY <1>1, <1>7, <3>2 DEF OthersGetTheirTurn
    <3> QED
      BY <3>1, <3>2
  <2> QED
    BY <2>1 DEF OthersGetTheirTurn
<1> QED
  BY <1>8, <1>9, <1>12, <1>13 DEF TurnInv

\* The next call is made at once, goes through the port, or cannot get there.
LEMMA SelectStep ==
  ASSUME TurnInv, NEW t \in Transfers, Select(t) PROVE TurnInv'
<1>1. /\ TurnTypeOK /\ OneEntry /\ TurnsLeft /\ OthersGetTheirTurn
      /\ running = t /\ at[t] = "repeat" /\ t # Null /\ N \in Nat
  BY TransferAssumption DEF TurnInv, Select
<1>2. calls[t] \in 0..N - 1 /\ calls' = [calls EXCEPT ![t] = (calls[t] + 1) % N]
  BY <1>1 DEF TurnTypeOK, Select
<1>3. /\ calls' \in [Transfers -> 0..N - 1]
      /\ \A u \in Transfers : u # t => calls'[u] = calls[u]
      /\ IF calls[t] + 1 = N THEN calls'[t] = 0 ELSE calls'[t] = calls[t] + 1
  <2>1. (calls[t] + 1) % N \in 0..N - 1
    BY <1>1, <1>2, NextCount
  <2> QED
    BY <1>1, <1>2, <2>1, NextCount DEF TurnTypeOK
<1>4. ~Queued(t)
  BY <1>1 DEF OneEntry
<1>5. CASE at' = [at EXCEPT ![t] = "scheduled"] /\ running' = Null /\ Queue(t, 0)
  <2>1. at' \in [Transfers -> Labels] /\ at'[t] = "scheduled" /\ \A u \in Transfers : u # t => at'[u] = at[u]
    BY <1>1, <1>5 DEF TurnTypeOK, Labels
  <2> QED
    BY <1>1, <1>3, <1>4, <1>5, <2>1, QueueStep
<1>6. CASE /\ calls'[t] # 0
           /\ at' = [at EXCEPT ![t] = "some"] /\ UNCHANGED <<running, port, waited>>
  <2>1. at' = [at EXCEPT ![t] = "some"] /\ UNCHANGED <<running, port, waited>>
    BY <1>6
  <2>2. at' \in [Transfers -> Labels] /\ at'[t] = "some" /\ \A u \in Transfers : u # t => at'[u] = at[u]
    BY <1>1, <2>1 DEF TurnTypeOK, Labels
  <2>3. calls'[t] = calls[t] + 1
    BY <1>3, <1>6
  <2>4. \A u \in Transfers : CallsLeft(u)' = CallsLeft(u)
    BY <1>1, <1>2, <2>2, <2>3, <1>3 DEF CallsLeft
  <2>5. \A x \in Transfers : Queued(x)' <=> Queued(x)
    BY <2>1 DEF Queued
  <2>6. \A x, u \in Transfers : RunsBefore(u, x)' => RunsBefore(u, x)
    BY <2>1, <2>2 DEF RunsBefore, Idle
  <2>7. TurnTypeOK'
    BY <1>1, <1>3, <2>1, <2>2 DEF TurnTypeOK
  <2>8. OneEntry'
    BY <1>1, <1>4, <2>1, <2>2, <2>5 DEF OneEntry
  <2>9. TurnsLeft' /\ OthersGetTheirTurn'
    BY <1>1, <2>1, <2>4, <2>5, <2>6 DEF TurnsLeft, OthersGetTheirTurn
  <2> QED
    BY <2>7, <2>8, <2>9 DEF TurnInv
<1>7. CASE at' = [at EXCEPT ![t] = "error"] /\ running' = Null /\ UNCHANGED <<port, waited>>
  <2>1. at' \in [Transfers -> Labels] /\ at'[t] = "error" /\ \A u \in Transfers : u # t => at'[u] = at[u]
    BY <1>1, <1>7 DEF TurnTypeOK, Labels
  <2>2. \A x \in Transfers : Queued(x)' <=> Queued(x)
    BY <1>7 DEF Queued
  <2>3. \A x, u \in Transfers : RunsBefore(u, x)' => u # t /\ RunsBefore(u, x)
    <3>1. ASSUME NEW x \in Transfers, NEW u \in Transfers, RunsBefore(u, x)'
          PROVE  u # t /\ RunsBefore(u, x)
      <4>1. u # Null
        BY TransferAssumption
      <4>2. u # t
        BY <1>4, <1>7, <2>1, <3>1, <4>1 DEF RunsBefore, Idle, Queued
      <4> QED
        BY <1>1, <1>7, <2>1, <3>1, <4>1, <4>2 DEF RunsBefore, Idle
    <3> QED
      BY <3>1
  <2>4. \A u \in Transfers : u # t => CallsLeft(u)' = CallsLeft(u)
    BY <1>3, <2>1 DEF CallsLeft
  <2>5. TurnTypeOK'
    BY <1>1, <1>3, <1>7, <2>1 DEF TurnTypeOK
  <2>6. OneEntry'
    BY <1>1, <1>4, <1>7, <2>1, <2>2 DEF OneEntry
  <2>7. TurnsLeft' /\ OthersGetTheirTurn'
    BY <1>1, <1>7, <2>2, <2>3, <2>4 DEF TurnsLeft, OthersGetTheirTurn
  <2> QED
    BY <2>5, <2>6, <2>7 DEF TurnInv
<1> QED
  BY <1>5, <1>6, <1>7 DEF Select

\* A transfer that was idle has the thread, or ends before it began.
LEMMA StartStep ==
  ASSUME TurnInv, NEW t \in Transfers, at[t] = "repeat", running = Null,
         UNCHANGED <<calls, port, waited>>,
         \/ running' = t /\ at' = at
         \/ running' = Null /\ \E l \in {"done", "error"} : at' = [at EXCEPT ![t] = l]
  PROVE  TurnInv'
<1>1. TurnTypeOK /\ OneEntry /\ TurnsLeft /\ OthersGetTheirTurn /\ t # Null
  BY TransferAssumption DEF TurnInv
<1>2. /\ at' \in [Transfers -> Labels]
      /\ \A u \in Transfers : u # t => at'[u] = at[u]
      /\ at'[t] \in {"repeat", "done", "error"} /\ (running' = t => at'[t] = "repeat")
      /\ running' \in {t, Null} /\ (at'[t] = "repeat" => running' = t)
  BY <1>1 DEF TurnTypeOK, Labels
<1>3. \A x \in Transfers : Queued(x)' <=> Queued(x)
  BY DEF Queued
<1>4. ~Queued(t)
  BY <1>1 DEF OneEntry
<1>5. \A u \in Transfers : CallsLeft(u)' = CallsLeft(u)
  BY <1>2 DEF CallsLeft
<1>6. \A x, u \in Transfers : RunsBefore(u, x)' => RunsBefore(u, x)
  <2>1. ASSUME NEW x \in Transfers, NEW u \in Transfers, RunsBefore(u, x)' PROVE RunsBefore(u, x)
    <3>1. u \in Transfers /\ u # Null
      BY TransferAssumption
    <3> QED
      BY <1>2, <2>1, <3>1 DEF RunsBefore, Idle
  <2> QED
    BY <2>1
<1>7. TurnTypeOK'
  BY <1>1, <1>2 DEF TurnTypeOK
<1>8. OneEntry'
  BY <1>1, <1>2, <1>3, <1>4 DEF OneEntry
<1>9. TurnsLeft' /\ OthersGetTheirTurn'
  BY <1>1, <1>3, <1>5, <1>6 DEF TurnsLeft, OthersGetTheirTurn
<1> QED
  BY <1>7, <1>8, <1>9 DEF TurnInv

\* The kernel ends a pending call.
LEMMA PendingStep ==
  ASSUME TurnInv, NEW t \in Transfers, at[t] = "pending", ~Queued(t),
         NEW n \in Nat, Queue(t, n), UNCHANGED <<calls, at, running>>
  PROVE  TurnInv'
<1>1. TurnTypeOK /\ OneEntry
  BY DEF TurnInv
<1>2. running # t
  BY <1>1, TransferAssumption DEF OneEntry
<1>3. /\ at' \in [Transfers -> Labels] /\ at'[t] \in {"scheduled", "pending"}
      /\ calls' \in [Transfers -> 0..N - 1]
      /\ \A u \in Transfers : u # t => at'[u] = at[u] /\ calls'[u] = calls[u]
      /\ running' \in {running, Null} /\ running' # t
  BY <1>1, <1>2 DEF TurnTypeOK
<1> QED
  BY <1>3, QueueStep

LEMMA IoStep ==
  ASSUME TurnInv, NEW t \in Transfers, IoFinishes(t) \/ IoFails(t) PROVE TurnInv'
<1>1. at[t] = "pending" /\ ~Queued(t) /\ UNCHANGED <<calls, at, running>>
  BY DEF IoFinishes, IoFails, Queued
<1>2. PICK n \in Nat : Queue(t, n)
  <2>1. CASE IoFinishes(t)
    <3>1. PICK n \in Counts(t) : Queue(t, n)
      BY <2>1 DEF IoFinishes
    <3>2. n \in Nat
      BY DEF Counts
    <3> QED
      BY <3>1, <3>2
  <2>2. CASE IoFails(t)
    BY <2>2 DEF IoFails
  <2> QED
    BY <2>1, <2>2
<1> QED
  BY <1>1, <1>2, PendingStep

----------------------------------------------------------------------------
(* The turns *)

LEMMA InitTurns == Init => TurnInv
<1> SUFFICES ASSUME Init PROVE TurnInv
  OBVIOUS
<1>1. /\ port = <<>> /\ Len(port) = 0 /\ \A S : <<>> \in Seq(S)
      /\ \A k \in 1..Len(port) : FALSE
  BY EmptySeq DEF Init, Port!PortInit
<1>2. N \in Nat \ {0} /\ Null \notin Transfers
  BY TransferAssumption
<1>3. TurnTypeOK
  BY <1>1, <1>2 DEF Init, TurnTypeOK, Labels
<1>4. OneEntry /\ \A t \in Transfers : ~Queued(t)
  BY <1>1 DEF Init, OneEntry, Queued
<1>5. TurnsLeft /\ OthersGetTheirTurn
  BY <1>2, <1>4 DEF Init, TurnsLeft, OthersGetTheirTurn
<1> QED
  BY <1>3, <1>4, <1>5 DEF TurnInv

LEMMA TurnsStutter ==
  ASSUME TurnInv, UNCHANGED <<calls, at, running, port, waited>> PROVE TurnInv'
BY DEF TurnInv, TurnTypeOK, OneEntry, TurnsLeft, OthersGetTheirTurn, Queued, RunsBefore,
       CallsLeft, Idle

LEMMA ThreadStep ==
  ASSUME TurnInv, (\E t \in Transfers : Run(t)) \/ Handle PROVE TurnInv'
BY SelectStep, CallStep, HandleStep DEF Run

----------------------------------------------------------------------------
(* Buffers that follow each other *)

\* Where the i-th buffer begins, or the last one ends.
At(bs, i) == IF i <= Len(bs) THEN bs[i].at ELSE bs[Len(bs)].at + bs[Len(bs)].len

LEMMA BufferTypes ==
  ASSUME NEW bs \in Seq(Buffer), NEW i \in 1..Len(bs)
  PROVE  bs[i] \in Buffer /\ bs[i].at \in Nat /\ bs[i].len \in Nat
<1>1. bs[i] \in Buffer
  OBVIOUS
<1> QED
  BY <1>1 DEF Buffer

LEMMA BoundsOfBuffers ==
  ASSUME NEW bs \in Seq(Buffer), NEW first \in 1..Len(bs), Follow(bs, first)
  PROVE  /\ \A i \in first..Len(bs) + 1 : At(bs, i) \in Nat /\ At(bs, first) <= At(bs, i)
         /\ \A i \in first..Len(bs) : At(bs, i + 1) = At(bs, i) + bs[i].len
<1>1. Len(bs) \in Nat \ {0} /\ \A i \in 1..Len(bs) : bs[i].at \in Nat /\ bs[i].len \in Nat
  BY BufferTypes
<1>2. \A i \in 1..Len(bs) + 1 : At(bs, i) \in Nat
  BY <1>1 DEF At
<1>3. \A i \in first..Len(bs) : At(bs, i + 1) = At(bs, i) + bs[i].len
  BY <1>1 DEF At, Follow
<1> DEFINE n == Len(bs) + 1 - first
           c == [i \in 1..n + 1 |-> At(bs, first + i - 1)]
<1>4. n \in Nat /\ \A i \in 1..n + 1 : first + i - 1 \in 1..Len(bs) + 1 /\ c[i] = At(bs, first + i - 1)
  BY <1>1
<1>5. \A i \in 1..n : c[i] <= c[i + 1]
  <2>1. ASSUME NEW i \in 1..n PROVE c[i] <= c[i + 1]
    <3> DEFINE j == first + i - 1
    <3>1. j \in first..Len(bs) /\ first + (i + 1) - 1 = j + 1 /\ i \in 1..n + 1 /\ i + 1 \in 1..n + 1
      BY <1>1
    <3>2. At(bs, j) \in Nat /\ bs[j].len \in Nat /\ At(bs, j + 1) = At(bs, j) + bs[j].len
      BY <1>1, <1>2, <1>3, <3>1
    <3>3. c[i] = At(bs, j) /\ c[i + 1] = At(bs, j + 1)
      BY <1>4, <3>1
    <3> HIDE DEF c, j
    <3> QED
      BY <3>2, <3>3
  <2> QED
    BY <2>1
<1>6. \A i \in 1..n + 1 : c[1] <= c[i]
  <2>1. \A i \in 1..n + 1 : c[i] \in Int
    BY <1>2, <1>4
  <2> HIDE DEF c, n
  <2> QED
    BY <1>4, <1>5, <2>1, BoundsRise
<1>7. ASSUME NEW i \in first..Len(bs) + 1 PROVE At(bs, first) <= At(bs, i)
  <2>1. i - first + 1 \in 1..n + 1 /\ 1 \in 1..n + 1 /\ first + (i - first + 1) - 1 = i /\ first + 1 - 1 = first
    BY <1>1
  <2>2. c[1] = At(bs, first) /\ c[i - first + 1] = At(bs, i)
    BY <1>4, <2>1
  <2> HIDE DEF c, n
  <2> QED
    BY <1>6, <2>1, <2>2
<1> QED
  BY <1>1, <1>2, <1>3, <1>7

\* Their bytes are those of one interval.
LEMMA BytesBetween ==
  ASSUME NEW bs \in Seq(Buffer), NEW first \in 1..Len(bs), Follow(bs, first),
         NEW last \in first - 1..Len(bs)
  PROVE  /\ Bytes(bs, first, last)
               = [k \in 1..At(bs, last + 1) - At(bs, first) |-> At(bs, first) + k - 1]
         /\ Len(Bytes(bs, first, last)) = At(bs, last + 1) - At(bs, first)
<1> DEFINE n == last - first + 1
           c == [i \in 1..n + 1 |-> At(bs, first + i - 1)]
           s == [i \in 1..n |-> LET b == bs[first + i - 1] IN [k \in 1..b.len |-> b.at + k - 1]]
<1>1. Len(bs) \in Nat /\ first \in Nat /\ last \in Int /\ n \in Nat
  OBVIOUS
<1>2. \A i \in 1..n + 1 : c[i] = At(bs, first + i - 1) /\ c[i] \in Nat
  <2>1. \A i \in 1..n + 1 : first + i - 1 \in first..Len(bs) + 1
    BY <1>1
  <2> QED
    BY <2>1, BoundsOfBuffers
<1>3. ASSUME NEW i \in 1..n
      PROVE  c[i] <= c[i + 1] /\ s[i] = [k \in 1..c[i + 1] - c[i] |-> c[i] + k - 1]
  <2> DEFINE j == first + i - 1
  <2>1. j \in first..Len(bs) /\ j \in 1..Len(bs) /\ first + (i + 1) - 1 = j + 1
        /\ i \in 1..n + 1 /\ i + 1 \in 1..n + 1
    BY <1>1
  <2>2. At(bs, j) \in Nat /\ bs[j].len \in Nat /\ At(bs, j + 1) = At(bs, j) + bs[j].len
    BY <2>1, BoundsOfBuffers, BufferTypes
  <2>3. c[i] = At(bs, j) /\ c[i + 1] = At(bs, j + 1)
    BY <1>2, <2>1
  <2>4. s[i] = [k \in 1..bs[j].len |-> bs[j].at + k - 1] /\ At(bs, j) = bs[j].at
    BY <2>1 DEF At
  <2>5. c[i + 1] - c[i] = bs[j].len /\ c[i] = bs[j].at
    BY <2>2, <2>3, <2>4
  <2> HIDE DEF c, s, j, n
  <2> QED
    BY <2>2, <2>3, <2>4, <2>5
<1>4. FlattenSeq(s) = [k \in 1..c[n + 1] - c[1] |-> c[1] + k - 1] /\ c[1] <= c[n + 1]
  <2>1. s = [i \in 1..n |-> [k \in 1..c[i + 1] - c[i] |-> c[i] + k - 1]]
    <3> DEFINE r == [i \in 1..n |-> [k \in 1..c[i + 1] - c[i] |-> c[i] + k - 1]]
    <3>1. \A i \in 1..n : s[i] = r[i]
      <4> HIDE DEF c, s
      <4> QED
        BY <1>3
    <3> HIDE DEF c
    <3> QED
      BY <3>1
  <2>2. \A i \in 1..n + 1 : c[i] \in Int
    <3> HIDE DEF c, n
    <3> QED
      BY <1>2
  <2> HIDE DEF c, s, n
  <2>3. \A i \in 1..n : c[i] <= c[i + 1]
    BY <1>3, Zenon
  <2>4. c[1] <= c[n + 1]
    <3>1. n + 1 \in 1..n + 1
      BY <1>1
    <3> QED
      BY <1>1, <2>2, <2>3, <3>1, BoundsRise
  <2>5. \A i \in 1..n + 1 : c[i] \in Nat
    BY <1>2
  <2>6. FlattenSeq(s) = [k \in 1..c[n + 1] - c[1] |-> c[1] + k - 1]
    BY <1>1, <2>1, <2>3, <2>5, FlattenIntervals
  <2> QED
    BY <2>4, <2>6
<1>5. c[1] = At(bs, first) /\ c[n + 1] = At(bs, last + 1) /\ c[1] \in Nat /\ c[n + 1] \in Nat
  <2>1. 1 \in 1..n + 1 /\ n + 1 \in 1..n + 1 /\ first + 1 - 1 = first /\ first + (n + 1) - 1 = last + 1
    BY <1>1
  <2> HIDE DEF c, n
  <2> QED
    BY <1>2, <2>1
<1>6. Bytes(bs, first, last) = FlattenSeq(s)
  BY DEF Bytes
<1> HIDE DEF c, s, n
<1> QED
  BY <1>4, <1>5, <1>6

\* Some buffer holds the byte n after the first, or begins with it.
LEMMA BufferOfByte ==
  ASSUME NEW bs \in Seq(Buffer), NEW first \in 1..Len(bs), Follow(bs, first),
         NEW n \in Nat, n < At(bs, Len(bs) + 1) - At(bs, first)
  PROVE  \E k \in first..Len(bs) :
            Len(Bytes(bs, first, k - 1)) <= n /\ n < Len(Bytes(bs, first, (k + 1) - 1))
<1> DEFINE m == Len(bs) - first + 1
           x == n + At(bs, first)
           c == [i \in 1..m + 1 |-> At(bs, first + i - 1)]
<1>1. Len(bs) \in Nat /\ first \in Nat /\ m \in Nat
  OBVIOUS
<1>2. \A i \in first..Len(bs) + 1 : At(bs, i) \in Nat /\ At(bs, first) <= At(bs, i)
  BY BoundsOfBuffers
<1>3. \A i \in 1..m + 1 : first + i - 1 \in first..Len(bs) + 1 /\ c[i] = At(bs, first + i - 1)
  BY <1>1
<1>4. \A i \in 1..m + 1 : c[i] \in Int
  BY <1>2, <1>3
<1>5. At(bs, first) \in Nat /\ At(bs, Len(bs) + 1) \in Nat
  <2>1. first \in first..Len(bs) + 1 /\ Len(bs) + 1 \in first..Len(bs) + 1
    BY <1>1
  <2> QED
    BY <1>2, <2>1
<1>6. c[1] = At(bs, first) /\ c[m + 1] = At(bs, Len(bs) + 1)
  <2>1. 1 \in 1..m + 1 /\ m + 1 \in 1..m + 1 /\ first + 1 - 1 = first /\ first + (m + 1) - 1 = Len(bs) + 1
    BY <1>1
  <2> HIDE DEF c, m
  <2> QED
    BY <1>3, <2>1
<1>7. x \in Int /\ c[1] <= x /\ x < c[m + 1]
  <2> HIDE DEF c, m
  <2> QED
    BY <1>5, <1>6
<1>8. PICK i \in 1..m : c[i] <= x /\ x < c[i + 1]
  <2> HIDE DEF c, m, x
  <2> QED
    BY <1>1, <1>4, <1>7, BetweenBounds
<1> DEFINE k == first + i - 1
<1>9. k \in first..Len(bs) /\ first + (i + 1) - 1 = k + 1 /\ i \in 1..m + 1 /\ i + 1 \in 1..m + 1
      /\ k - 1 \in first - 1..Len(bs) /\ (k - 1) + 1 = k /\ (k + 1) - 1 = k /\ k \in first - 1..Len(bs)
      /\ k \in first..Len(bs) + 1 /\ k + 1 \in first..Len(bs) + 1
  BY <1>1
<1>10. c[i] = At(bs, k) /\ c[i + 1] = At(bs, k + 1)
  BY <1>3, <1>9
<1> HIDE DEF c, m, k
<1>11. /\ Len(Bytes(bs, first, k - 1)) = At(bs, k) - At(bs, first)
       /\ Len(Bytes(bs, first, k)) = At(bs, k + 1) - At(bs, first)
  BY <1>9, BytesBetween
<1>12. At(bs, k) \in Nat /\ At(bs, k + 1) \in Nat
  BY <1>2, <1>9
<1>13. Len(Bytes(bs, first, k - 1)) <= n /\ n < Len(Bytes(bs, first, k))
  BY <1>5, <1>8, <1>10, <1>11, <1>12
<1> QED
  BY <1>9, <1>13

Cut(bs, k, part) == [bs EXCEPT ![k] = [at |-> @.at + part, len |-> @.len - part]]

\* What is left when n bytes are cut off, which end in the k-th buffer.
LEMMA CutBuffer ==
  ASSUME NEW bs \in Seq(Buffer), NEW first \in 1..Len(bs), Follow(bs, first), NEW n \in Nat,
         NEW k \in first..Len(bs),
         NEW part, part = n - Len(Bytes(bs, first, k - 1)),
         Len(Bytes(bs, first, k - 1)) <= n, n < Len(Bytes(bs, first, (k + 1) - 1))
  PROVE  /\ Cut(bs, k, part) \in Seq(Buffer) /\ Len(Cut(bs, k, part)) = Len(bs)
         /\ Follow(Cut(bs, k, part), k)
         /\ Cut(bs, k, part)[k].at = At(bs, first) + n
         /\ Last(Cut(bs, k, part)).at + Last(Cut(bs, k, part)).len = Last(bs).at + Last(bs).len
<1>1. /\ Len(bs) \in Nat /\ first \in Nat /\ k \in Nat /\ k \in 1..Len(bs)
      /\ k - 1 \in first - 1..Len(bs) /\ k \in first - 1..Len(bs) /\ (k - 1) + 1 = k /\ (k + 1) - 1 = k
      /\ first \in first..Len(bs) + 1
  OBVIOUS
<1>2. /\ Len(Bytes(bs, first, k - 1)) = At(bs, k) - At(bs, first)
      /\ Len(Bytes(bs, first, (k + 1) - 1)) = At(bs, k + 1) - At(bs, first)
  BY <1>1, BytesBetween
<1> DEFINE a == bs[k].at  l == bs[k].len  f == At(bs, first)
<1>3. a \in Nat /\ l \in Nat /\ f \in Nat /\ At(bs, k) = a /\ At(bs, k + 1) = a + l
  <2>1. At(bs, k) = bs[k].at
    BY <1>1 DEF At
  <2>2. At(bs, k + 1) = At(bs, k) + bs[k].len /\ At(bs, first) \in Nat
    BY <1>1, BoundsOfBuffers
  <2> QED
    BY <1>1, <2>1, <2>2, BufferTypes
<1>4. bs[k] = [at |-> a, len |-> l]
  BY <1>1, BufferTypes DEF Buffer
<1> HIDE DEF a, l, f
<1>5. part = n - (a - f) /\ a - f <= n /\ n < (a + l) - f
  BY <1>2, <1>3 DEF f
<1>6. part \in Nat /\ part < l /\ a + part = f + n /\ (a + part) + (l - part) = a + l
  BY <1>3, <1>5
<1> DEFINE cut == [at |-> a + part, len |-> l - part]
           new == [bs EXCEPT ![k] = cut]
<1>7. cut \in Buffer /\ cut.at = f + n /\ cut.at + cut.len = a + l
  BY <1>3, <1>6 DEF Buffer
<1>8. new = Cut(bs, k, part)
  BY <1>4 DEF Cut
<1> HIDE DEF cut
<1>9. /\ new \in Seq(Buffer) /\ Len(new) = Len(bs) /\ new[k] = cut
      /\ \A i \in 1..Len(bs) : i # k => new[i] = bs[i]
  BY <1>1, <1>7
<1> HIDE DEF new
<1>10. bs[k].at + bs[k].len = a + l
  BY DEF a, l
<1>11. Follow(new, k)
  <2>1. ASSUME NEW i \in k..Len(bs) - 1 PROVE new[i + 1].at = new[i].at + new[i].len
    <3>1. i \in first..Len(bs) - 1 /\ i \in 1..Len(bs) /\ i + 1 \in 1..Len(bs) /\ i + 1 # k
      BY <1>1
    <3>2. bs[i + 1].at = bs[i].at + bs[i].len
      BY <3>1 DEF Follow
    <3>3. new[i + 1] = bs[i + 1] /\ (i # k => new[i] = bs[i])
      BY <1>9, <3>1
    <3> QED
      BY <1>7, <1>9, <1>10, <3>2, <3>3
  <2> QED
    BY <1>9, <2>1 DEF Follow
<1>12. Last(new).at + Last(new).len = Last(bs).at + Last(bs).len
  <2>1. Len(bs) \in 1..Len(bs) /\ Last(new) = new[Len(bs)] /\ Last(bs) = bs[Len(bs)]
    BY <1>1, <1>9 DEF Last
  <2> QED
    BY <1>7, <1>9, <1>10, <2>1
<1> QED
  BY <1>7, <1>8, <1>9, <1>11, <1>12 DEF f

\* The layout of some lengths follows from its beginning on.
LEMMA LayoutFollows ==
  ASSUME NEW lens \in Seq(Nat) \ {<<>>}
  PROVE  /\ Layout(lens) \in Seq(Buffer) /\ Len(Layout(lens)) \in Nat \ {0}
         /\ Follow(Layout(lens), 1) /\ Layout(lens)[1].at = 1
<1> DEFINE o == Offsets(1, lens)
           bs == [i \in 1..Len(lens) |-> [at |-> o[i], len |-> lens[i]]]
<1>1. Len(lens) \in Nat \ {0} /\ \A i \in 1..Len(lens) : lens[i] \in Nat
  OBVIOUS
<1>2. o \in [1..Len(lens) -> Nat] /\ o[1] = 1 /\ \A i \in 1..Len(lens) - 1 : o[i + 1] = o[i] + lens[i]
  BY OffsetsFollow
<1> HIDE DEF o
<1>3. bs \in Seq(Buffer) /\ Len(bs) = Len(lens)
  BY <1>1, <1>2 DEF Buffer
<1>4. \A i \in 1..Len(lens) : bs[i].at = o[i] /\ bs[i].len = lens[i]
  OBVIOUS
<1>5. Follow(bs, 1) /\ bs[1].at = 1
  BY <1>1, <1>2, <1>3, <1>4 DEF Follow
<1> QED
  BY <1>1, <1>3, <1>5 DEF Layout, o

----------------------------------------------------------------------------
(* The data of a transfer *)

DataOf(t) == BuffersLeft(t) /\ SizeOfData(t) /\ MovedOnce(t)

DataTypeOK(t) ==
    /\ buffers[t] \in Seq(Buffer) /\ current[t] \in 1..Len(buffers[t]) + 1
    /\ totalSize[t] \in Nat \cup {Null} /\ processed[t] \in Nat /\ moved[t] \in Seq(Nat)

LEMMA DataTypes ==
  ASSUME TypeOK, NEW t \in Transfers PROVE DataTypeOK(t)
BY DEF TypeOK, DataTypeOK

\* What remains is what was not processed, up to the end of the data.
LEMMA RemainingBytes ==
  ASSUME NEW t \in Transfers, DataTypeOK(t), BuffersLeft(t), Active(t)
  PROVE  /\ DataSize(t) \in Nat /\ processed[t] <= DataSize(t)
         /\ Remaining(t) = [k \in 1..DataSize(t) - processed[t] |-> processed[t] + k]
         /\ Len(Remaining(t)) = DataSize(t) - processed[t]
<1> DEFINE bs == buffers[t]  cur == current[t]  p == processed[t]
<1>1. /\ bs \in Seq(Buffer) /\ cur \in 1..Len(bs) /\ Follow(bs, cur) /\ p \in Nat
      /\ Len(bs) \in Nat \ {0} /\ bs[cur].at = p + 1
  BY DEF DataTypeOK, BuffersLeft
<1>2. At(bs, cur) = p + 1 /\ At(bs, Len(bs) + 1) = DataSize(t) + 1 /\ DataSize(t) \in Int
  <2>1. Len(bs) \in 1..Len(bs) /\ ~(Len(bs) + 1 <= Len(bs)) /\ cur <= Len(bs)
    BY <1>1
  <2>2. bs[Len(bs)].at \in Nat /\ bs[Len(bs)].len \in Nat
    BY <1>1, <2>1, BufferTypes
  <2>3. DataSize(t) = bs[Len(bs)].at + bs[Len(bs)].len - 1
    BY DEF DataSize, Last
  <2> HIDE DEF bs, cur, p
  <2> QED
    BY <1>1, <2>1, <2>2, <2>3 DEF At
<1>3. At(bs, cur) <= At(bs, Len(bs) + 1) /\ At(bs, Len(bs) + 1) \in Nat
  <2>1. Len(bs) + 1 \in cur..Len(bs) + 1
    BY <1>1
  <2> QED
    BY <1>1, <2>1, BoundsOfBuffers
<1>4. /\ Remaining(t) = [k \in 1..At(bs, Len(bs) + 1) - At(bs, cur) |-> At(bs, cur) + k - 1]
      /\ Len(Remaining(t)) = At(bs, Len(bs) + 1) - At(bs, cur)
  <2>1. Len(bs) \in cur - 1..Len(bs)
    BY <1>1
  <2> QED
    BY <1>1, <2>1, BytesBetween DEF Remaining
<1>5. At(bs, Len(bs) + 1) - At(bs, cur) = DataSize(t) - p
  BY <1>1, <1>2
<1>6. \A k \in 1..DataSize(t) - p : At(bs, cur) + k - 1 = p + k
  BY <1>1, <1>2
<1> HIDE DEF bs, cur, p
<1> QED
  BY <1>1, <1>2, <1>3, <1>4, <1>5, <1>6 DEF p

\* total_size() is the size of the data, whenever it is calculated.
LEMMA TotalSizeIsDataSize ==
  ASSUME NEW t \in Transfers, DataTypeOK(t), BuffersLeft(t), SizeOfData(t), Active(t)
  PROVE  TotalSize(t) = DataSize(t)
<1>1. CASE totalSize[t] = Null
  <2>1. AllBytes(buffers[t]) = Remaining(t) /\ processed[t] = 0
    BY <1>1 DEF SizeOfData, AllBytes, Remaining
  <2>2. Len(Remaining(t)) = DataSize(t) - processed[t] /\ DataSize(t) \in Nat
    BY RemainingBytes
  <2> QED
    BY <1>1, <2>1, <2>2 DEF TotalSize
<1>2. CASE totalSize[t] # Null
  BY <1>2 DEF TotalSize, SizeOfData
<1> QED
  BY <1>1, <1>2

\* consume() cuts off n bytes: what remains begins with the byte after them, and
\* ends where it did.
LEMMA ConsumeStep ==
  ASSUME TypeOK, NEW t \in Transfers, BuffersLeft(t), SizeOfData(t), Active(t),
         NEW n \in Nat, processed[t] + n <= DataSize(t), Consume(t, n)
  PROVE  /\ buffers' = [buffers EXCEPT ![t] = buffers'[t]]
         /\ current' = [current EXCEPT ![t] = current'[t]]
         /\ totalSize' = [totalSize EXCEPT ![t] = DataSize(t)]
         /\ processed' = [processed EXCEPT ![t] = processed[t] + n]
         /\ buffers'[t] \in Seq(Buffer) /\ buffers'[t] # <<>>
         /\ DataSize(t)' = DataSize(t) /\ DataSize(t) \in Nat
         /\ current'[t] \in 1..Len(buffers'[t]) + 1 /\ Follow(buffers'[t], current'[t])
         /\ processed[t] + n < DataSize(t) =>
               /\ current'[t] <= Len(buffers'[t])
               /\ buffers'[t][current'[t]].at = processed[t] + n + 1
<1> DEFINE bs == buffers[t]  cur == current[t]  p == processed[t]  last == Len(bs)
           Before(k) == Len(Bytes(bs, cur, k - 1))
           k == CHOOSE j \in cur..last : Before(j) <= n /\ n < Before(j + 1)
           part == n - Before(k)
<1>1. /\ bs \in Seq(Buffer) /\ last \in Nat \ {0} /\ cur \in 1..last /\ p \in Nat
      /\ Follow(bs, cur) /\ bs[cur].at = p + 1 /\ bs # <<>>
  BY DataTypes DEF DataTypeOK, BuffersLeft
<1>2. DataSize(t) \in Nat /\ TotalSize(t) = DataSize(t)
  BY DataTypes, RemainingBytes, TotalSizeIsDataSize
<1>3. /\ buffers \in [Transfers -> Seq(Buffer)] /\ current \in [Transfers -> Nat \ {0}]
      /\ totalSize \in [Transfers -> Nat \cup {Null}] /\ processed \in [Transfers -> Nat]
  BY DEF TypeOK
<1>4. /\ processed' = [processed EXCEPT ![t] = p + n]
      /\ totalSize' = [totalSize EXCEPT ![t] = DataSize(t)]
  BY <1>2 DEF Consume
<1>5. At(bs, cur) = p + 1 /\ At(bs, last + 1) = DataSize(t) + 1
  <2>1. last \in 1..last /\ ~(last + 1 <= last) /\ cur <= last
    BY <1>1
  <2>2. bs[last].at \in Nat /\ bs[last].len \in Nat
    BY <1>1, <2>1, BufferTypes
  <2>3. DataSize(t) = bs[last].at + bs[last].len - 1
    BY DEF DataSize, Last
  <2> HIDE DEF bs, cur, p
  <2> QED
    BY <1>1, <2>1, <2>2, <2>3 DEF At
<1>6. CASE p + n >= DataSize(t)
  <2>1. current' = [current EXCEPT ![t] = last + 1] /\ buffers' = buffers
    BY <1>2, <1>6 DEF Consume
  <2>2. buffers'[t] = bs /\ current'[t] = last + 1 /\ DataSize(t)' = DataSize(t)
    BY <1>3, <2>1 DEF DataSize
  <2>3. Follow(bs, last + 1)
    BY <1>1 DEF Follow
  <2>4. buffers' = [buffers EXCEPT ![t] = buffers'[t]] /\ current' = [current EXCEPT ![t] = current'[t]]
    BY <1>3, <2>1, <2>2
  <2>5. last + 1 \in 1..last + 1 /\ ~(p + n < DataSize(t))
    BY <1>1, <1>2, <1>6
  <2> QED
    BY <1>1, <1>2, <1>4, <2>2, <2>3, <2>4, <2>5
<1>7. CASE ~(p + n >= DataSize(t))
  <2>1. /\ current' = [current EXCEPT ![t] = k]
        /\ buffers' = [buffers EXCEPT ![t][k] = [at |-> @.at + part, len |-> @.len - part]]
    BY <1>2, <1>7 DEF Consume
  <2>2. \E j \in cur..last : Before(j) <= n /\ n < Before(j + 1)
    <3>1. n < At(bs, last + 1) - At(bs, cur)
      BY <1>1, <1>2, <1>5, <1>7
    <3> HIDE DEF bs, cur
    <3> QED
      BY <1>1, <3>1, BufferOfByte
  <2>3. k \in cur..last /\ Before(k) <= n /\ n < Before(k + 1)
    BY <2>2
  <2> HIDE DEF k
  <2> DEFINE new == Cut(bs, k, part)
  <2>4. /\ new \in Seq(Buffer) /\ Len(new) = last /\ Follow(new, k)
        /\ new[k].at = At(bs, cur) + n
        /\ Last(new).at + Last(new).len = Last(bs).at + Last(bs).len
    <3>1. /\ part = n - Len(Bytes(bs, cur, k - 1)) /\ Len(Bytes(bs, cur, k - 1)) <= n
          /\ n < Len(Bytes(bs, cur, (k + 1) - 1))
      BY <2>3
    <3>2. bs \in Seq(Buffer) /\ cur \in 1..Len(bs) /\ k \in cur..Len(bs)
      BY <1>1, <2>3
    <3> HIDE DEF bs, cur, part, Before
    <3>3. Follow(bs, cur) /\ n \in Nat
      BY <1>1
    <3>4. /\ Cut(bs, k, part) \in Seq(Buffer) /\ Len(Cut(bs, k, part)) = Len(bs)
          /\ Follow(Cut(bs, k, part), k)
          /\ Cut(bs, k, part)[k].at = At(bs, cur) + n
          /\ Last(Cut(bs, k, part)).at + Last(Cut(bs, k, part)).len = Last(bs).at + Last(bs).len
      BY <3>1, <3>2, <3>3, CutBuffer, SMTT(30)
    <3> QED
      BY <3>4, Zenon
  <2>5. buffers' = [buffers EXCEPT ![t] = new] /\ buffers'[t] = new /\ current'[t] = k
    BY <1>3, <2>1 DEF Cut
  <2>6. buffers' = [buffers EXCEPT ![t] = buffers'[t]] /\ current' = [current EXCEPT ![t] = current'[t]]
    BY <2>1, <2>5
  <2>7. DataSize(t)' = DataSize(t)
    <3>1. DataSize(t)' = Last(new).at + Last(new).len - 1 /\ DataSize(t) = Last(bs).at + Last(bs).len - 1
      BY <2>5 DEF DataSize
    <3>2. ASSUME NEW q \in Seq(Buffer), Len(q) \in Nat \ {0}
          PROVE  Last(q).at + Last(q).len - 1 = (Last(q).at + Last(q).len) - 1
      <4>1. Len(q) \in 1..Len(q)
        BY <3>2
      <4> QED
        BY <3>2, <4>1, BufferTypes DEF Last
    <3> HIDE DEF new, bs
    <3>3. (Last(new).at + Last(new).len) - 1 = (Last(bs).at + Last(bs).len) - 1
      BY <2>4, Zenon
    <3>4. bs \in Seq(Buffer) /\ Len(bs) \in Nat \ {0} /\ Len(new) \in Nat \ {0}
      BY <1>1, <2>4
    <3> QED
      BY <2>4, <3>1, <3>2, <3>3, <3>4, Zenon
  <2>8. k \in 1..last + 1 /\ k <= last /\ new # <<>>
    BY <1>1, <2>3, <2>4
  <2>9. At(bs, cur) + n = p + n + 1
    BY <1>1, <1>5
  <2> HIDE DEF bs, cur, p, new
  <2> QED
    BY <1>2, <1>4, <2>4, <2>5, <2>6, <2>7, <2>8, <2>9 DEF p
<1> QED
  BY <1>6, <1>7

----------------------------------------------------------------------------
(* Steps of one transfer *)

\* The entries of u in the port are what they were.
SameEntries(u) ==
    /\ Queued(u)' <=> Queued(u)
    /\ \A k \in 1..Len(port') : port'[k].transfer = u => \E j \in 1..Len(port) : port[j] = port'[k]

\* Nobody but t changes its data, its label or its bytes.
Only(t) ==
    /\ buffers' = [buffers EXCEPT ![t] = buffers'[t]]
    /\ current' = [current EXCEPT ![t] = current'[t]]
    /\ totalSize' = [totalSize EXCEPT ![t] = totalSize'[t]]
    /\ processed' = [processed EXCEPT ![t] = processed'[t]]
    /\ moved' = [moved EXCEPT ![t] = moved'[t]]
    /\ at' = [at EXCEPT ![t] = at'[t]]

LEMMA DataSame ==
  ASSUME NEW u \in Transfers, DataTypeOK(u), DataOf(u), SameEntries(u),
         buffers'[u] = buffers[u], current'[u] = current[u], totalSize'[u] = totalSize[u],
         processed'[u] = processed[u], moved'[u] = moved[u], at'[u] = at[u]
  PROVE  DataTypeOK(u)' /\ DataOf(u)'
<1>1. DataTypeOK(u)'
  BY DEF DataTypeOK
<1>2. BuffersLeft(u)'
  BY DEF DataOf, BuffersLeft, Active
<1>3. SizeOfData(u)' /\ DataSize(u)' = DataSize(u)
  BY DEF DataOf, SizeOfData, DataSize
<1>4. MovedOnce(u)'
  BY <1>3 DEF DataOf, MovedOnce, Active, SameEntries
<1> QED
  BY <1>1, <1>2, <1>3, <1>4 DEF DataOf

LEMMA OneTransferStep ==
  ASSUME DataInv, TurnTypeOK', NEW t \in Transfers, Only(t), reads' = reads,
         failures' \in 0..MaxFailures, \A u \in Transfers : u # t => SameEntries(u),
         DataTypeOK(t)', DataOf(t)'
  PROVE  DataInv'
<1>1. /\ reads \subseteq Transfers
      /\ buffers \in [Transfers -> Seq(Buffer)] /\ current \in [Transfers -> Nat \ {0}]
      /\ totalSize \in [Transfers -> Nat \cup {Null}] /\ processed \in [Transfers -> Nat]
      /\ moved \in [Transfers -> Seq(Nat)] /\ at \in [Transfers -> Labels]
      /\ \A u \in Transfers : DataOf(u) /\ DataTypeOK(u)
  BY DataTypes DEF DataInv, TypeOK, DataOf
<1>2. \A u \in Transfers : u # t =>
         /\ buffers'[u] = buffers[u] /\ current'[u] = current[u] /\ totalSize'[u] = totalSize[u]
         /\ processed'[u] = processed[u] /\ moved'[u] = moved[u] /\ at'[u] = at[u]
  BY <1>1 DEF Only
<1>3. \A u \in Transfers : DataTypeOK(u)' /\ DataOf(u)'
  BY <1>1, <1>2, DataSame
<1>4. /\ buffers' \in [Transfers -> Seq(Buffer)] /\ current' \in [Transfers -> Nat \ {0}]
      /\ totalSize' \in [Transfers -> Nat \cup {Null}] /\ processed' \in [Transfers -> Nat]
      /\ moved' \in [Transfers -> Seq(Nat)]
  <2>1. ASSUME NEW S, NEW f \in [Transfers -> S], NEW x \in S PROVE [f EXCEPT ![t] = x] \in [Transfers -> S]
    OBVIOUS
  <2>2. /\ buffers'[t] \in Seq(Buffer) /\ current'[t] \in Nat \ {0}
        /\ totalSize'[t] \in Nat \cup {Null} /\ processed'[t] \in Nat /\ moved'[t] \in Seq(Nat)
    <3>1. DataTypeOK(t)'
      OBVIOUS
    <3>2. current'[t] \in 1..Len(buffers'[t]) + 1 => current'[t] \in Nat \ {0}
      OBVIOUS
    <3> QED
      BY <3>1, <3>2 DEF DataTypeOK
  <2>3. buffers' \in [Transfers -> Seq(Buffer)]
    BY <1>1, <2>1, <2>2 DEF Only
  <2>4. current' \in [Transfers -> Nat \ {0}]
    BY <1>1, <2>1, <2>2 DEF Only
  <2>5. totalSize' \in [Transfers -> Nat \cup {Null}]
    BY <1>1, <2>1, <2>2 DEF Only
  <2>6. processed' \in [Transfers -> Nat]
    BY <1>1, <2>1, <2>2 DEF Only
  <2>7. moved' \in [Transfers -> Seq(Nat)]
    BY <1>1, <2>1, <2>2 DEF Only
  <2> QED
    BY <2>3, <2>4, <2>5, <2>6, <2>7
<1>5. \A u \in Transfers : current'[u] <= Len(buffers'[u]) + 1
  BY <1>3 DEF DataTypeOK
<1>6. TypeOK'
  BY <1>1, <1>4, <1>5 DEF TypeOK, TurnTypeOK
<1> QED
  BY <1>3, <1>6 DEF DataInv, DataOf

\* t gets an entry of n bytes.
LEMMA QueueEntries ==
  ASSUME TurnInv, NEW t \in Transfers, NEW n \in Nat, Queue(t, n), ~Queued(t)
  PROVE  /\ Queued(t)' /\ \A k \in 1..Len(port') : port'[k].transfer = t => port'[k].bytes = n
         /\ \A u \in Transfers : u # t => SameEntries(u)
<1>1. port \in Seq([transfer : Transfers, bytes : Nat]) /\ Len(port) \in Nat
  BY LenProperties DEF TurnInv, TurnTypeOK
<1>2. /\ Len(port') = Len(port) + 1 /\ port'[Len(port) + 1] = Entry(t, n)
      /\ \A k \in 1..Len(port) : port'[k] = port[k]
  <2>1. port' = Append(port, Entry(t, n)) /\ Entry(t, n) \in [transfer : Transfers, bytes : Nat]
    BY DEF Queue, Entry
  <2> QED
    BY <1>1, <2>1, AppendProperties
<1>3. \A k \in 1..Len(port') : k \in 1..Len(port) \/ k = Len(port) + 1
  BY <1>1, <1>2
<1>4. \A k \in 1..Len(port) : port[k].transfer # t /\ k \in 1..Len(port')
  BY <1>1, <1>2 DEF Queued
<1>5. Entry(t, n).transfer = t /\ Entry(t, n).bytes = n /\ Len(port) + 1 \in 1..Len(port')
  BY <1>1, <1>2 DEF Entry
<1>6. Queued(t)'
  BY <1>2, <1>5 DEF Queued
<1>7. \A k \in 1..Len(port') : port'[k].transfer = t => port'[k].bytes = n
  BY <1>2, <1>3, <1>4, <1>5
<1>8. ASSUME NEW u \in Transfers, u # t PROVE SameEntries(u)
  BY <1>2, <1>3, <1>4, <1>5, <1>8 DEF SameEntries, Queued
<1> QED
  BY <1>6, <1>7, <1>8

\* The oldest entry is taken; it was the only one of its transfer.
LEMMA HandleEntries ==
  ASSUME TurnInv, port # <<>>, port' = Tail(port)
  PROVE  /\ Port!Oldest = port[1] /\ 1 \in 1..Len(port)
         /\ port[1].bytes \in Nat
         /\ \E t \in Transfers :
               /\ t = port[1].transfer /\ ~Queued(t)'
               /\ \A u \in Transfers : u # t => SameEntries(u)
<1> DEFINE E == [transfer : Transfers, bytes : Nat]
<1>1. port \in Seq(E) /\ OneEntry
  BY DEF TurnInv, TurnTypeOK
<1>2. /\ Len(port) \in Nat \ {0} /\ Head(port) = port[1] /\ port[1] \in E
      /\ Len(port') = Len(port) - 1 /\ \A k \in 1..Len(port) - 1 : port'[k] = port[k + 1]
  <2> HIDE DEF E
  <2> QED
    BY <1>1, LenProperties, EmptySeq, HeadTailProperties
<1>3. /\ \A k \in 1..Len(port') : port'[k] = port[k + 1] /\ k + 1 \in 1..Len(port) /\ k + 1 # 1
      /\ \A k \in 1..Len(port) : k # 1 => k - 1 \in 1..Len(port') /\ port'[k - 1] = port[k]
      /\ 1 \in 1..Len(port)
  <2>1. ASSUME NEW k \in 1..Len(port') PROVE port'[k] = port[k + 1] /\ k + 1 \in 1..Len(port) /\ k + 1 # 1
    BY <1>2
  <2>2. ASSUME NEW k \in 1..Len(port), k # 1 PROVE k - 1 \in 1..Len(port') /\ port'[k - 1] = port[k]
    <3>1. k - 1 \in 1..Len(port) - 1 /\ (k - 1) + 1 = k
      BY <1>2, <2>2
    <3> QED
      BY <1>2, <3>1
  <2> QED
    BY <1>2, <2>1, <2>2
<1> PICK t \in Transfers : t = port[1].transfer
  BY <1>2
<1>4. ~Queued(t)'
  <2> SUFFICES ASSUME NEW k \in 1..Len(port'), port'[k].transfer = t PROVE FALSE
    BY DEF Queued
  <2> QED
    BY <1>1, <1>3 DEF OneEntry
<1>5. ASSUME NEW u \in Transfers, u # t PROVE SameEntries(u)
  <2>1. ASSUME NEW k \in 1..Len(port'), port'[k].transfer = u PROVE \E j \in 1..Len(port) : port[j] = port'[k]
    BY <1>3
  <2>2. Queued(u)' => Queued(u)
    BY <1>3 DEF Queued
  <2>3. Queued(u) => Queued(u)'
    <3> SUFFICES ASSUME NEW k \in 1..Len(port), port[k].transfer = u PROVE \E j \in 1..Len(port') : port'[j].transfer = u
      BY DEF Queued
    <3>1. k # 1
      BY <1>5
    <3> QED
      BY <1>3, <3>1
  <2> QED
    BY <2>1, <2>2, <2>3 DEF SameEntries
<1>6. Port!Oldest = port[1]
  BY <1>2 DEF Port!Oldest
<1> QED
  BY <1>2, <1>3, <1>4, <1>5, <1>6

\* The kernel moves n of the remaining bytes.
LEMMA MoveStep ==
  ASSUME DataInv, NEW t \in Transfers, Active(t), processed[t] = Len(moved[t]),
         NEW n \in Counts(t), Move(t, n)
  PROVE  /\ n \in Nat /\ processed[t] + n <= DataSize(t)
         /\ moved' = [moved EXCEPT ![t] = moved'[t]]
         /\ Len(moved'[t]) = processed[t] + n
         /\ moved'[t] = [i \in 1..Len(moved'[t]) |-> i] /\ moved'[t] \in Seq(Nat)
<1> DEFINE p == processed[t]  d == DataSize(t)  m == moved[t]
<1>1. /\ DataTypeOK(t) /\ BuffersLeft(t) /\ p \in Nat /\ Len(m) = p /\ m \in Seq(Nat)
      /\ m = [i \in 1..p |-> i] /\ moved \in [Transfers -> Seq(Nat)]
  BY DataTypes DEF DataInv, MovedOnce, DataTypeOK, TypeOK
<1>2. /\ d \in Nat /\ p <= d /\ Remaining(t) = [k \in 1..d - p |-> p + k]
      /\ Len(Remaining(t)) = d - p
  BY <1>1, RemainingBytes
<1>3. n \in Nat /\ n <= d - p
  <2>1. CASE Remaining(t) = <<>>
    BY <1>1, <1>2, <2>1 DEF Counts
  <2>2. CASE Remaining(t) # <<>>
    BY <1>1, <1>2, <2>2 DEF Counts
  <2> QED
    BY <2>1, <2>2
<1> DEFINE s == SubSeq(Remaining(t), 1, n)
<1>4. moved' = [moved EXCEPT ![t] = m \o s] /\ moved'[t] = m \o s
  BY <1>1 DEF Move
<1> HIDE DEF p, d, m
<1>5. s = [k \in 1..n |-> p + k]
  BY <1>1, <1>2, <1>3
<1> HIDE DEF s
<1>6. s \in Seq(Nat) /\ Len(s) = n /\ \A k \in 1..n : s[k] = p + k
  BY <1>1, <1>3, <1>5
<1>7. m \o s \in Seq(Nat) /\ Len(m \o s) = p + n /\ m \o s = [i \in 1..p + n |-> i]
  <2>1. /\ m \o s \in Seq(Nat) /\ Len(m \o s) = p + n
        /\ \A i \in 1..p + n : (m \o s)[i] = IF i <= p THEN m[i] ELSE s[i - p]
    BY <1>1, <1>3, <1>6
  <2>2. ASSUME NEW i \in 1..p + n PROVE (m \o s)[i] = i
    <3>1. CASE i <= p
      BY <1>1, <2>1, <3>1
    <3>2. CASE ~(i <= p)
      <4>1. i - p \in 1..n /\ p + (i - p) = i
        BY <1>1, <1>3, <3>2
      <4> QED
        BY <1>6, <2>1, <3>2, <4>1
    <3> QED
      BY <3>1, <3>2
  <2>3. ASSUME NEW q \in Seq(Nat), NEW l, Len(q) = l, \A i \in 1..l : q[i] = i
        PROVE  q = [i \in 1..l |-> i]
    BY <2>3
  <2> DEFINE q == m \o s
  <2>4. q \in Seq(Nat) /\ Len(q) = p + n /\ \A i \in 1..p + n : q[i] = i
    BY <2>1, <2>2
  <2> HIDE DEF q
  <2>5. q = [i \in 1..p + n |-> i]
    BY <2>3, <2>4
  <2> QED
    BY <2>4, <2>5 DEF q
<1>8. p + n <= d
  BY <1>1, <1>2, <1>3
<1>9. moved' = [moved EXCEPT ![t] = moved'[t]]
  BY <1>4
<1> QED
  BY <1>3, <1>4, <1>7, <1>8, <1>9 DEF p, d, m

\* The data of a transfer that does not move bytes and keeps its buffers.
LEMMA LabelStep ==
  ASSUME DataInv, NEW t \in Transfers, UNCHANGED <<dataVars, moved>>,
         Active(t)' => Active(t), at'[t] # "value",
         Active(t)' /\ (Queued(t)' => at'[t] = "scheduled") => processed[t] = Len(moved[t]),
         \A k \in 1..Len(port') :
            port'[k].transfer = t => processed[t] + port'[k].bytes = Len(moved[t])
  PROVE  DataTypeOK(t)' /\ DataOf(t)'
<1>1. DataTypeOK(t) /\ DataOf(t)
  BY DataTypes DEF DataInv, DataOf
<1>2. DataTypeOK(t)'
  BY <1>1 DEF DataTypeOK, dataVars
<1>3. BuffersLeft(t)'
  BY <1>1 DEF DataOf, BuffersLeft, dataVars
<1>4. SizeOfData(t)' /\ DataSize(t)' = DataSize(t)
  BY <1>1 DEF DataOf, SizeOfData, DataSize, dataVars
<1>5. MovedOnce(t)'
  BY <1>1, <1>4 DEF DataOf, MovedOnce, dataVars
<1> QED
  BY <1>2, <1>3, <1>4, <1>5 DEF DataOf

\* A call of n bytes that were moved has its value.
LEMMA TransferredStep ==
  ASSUME DataInv, NEW t \in Transfers, Active(t), NEW n \in Nat, Transferred(t, n), ~Queued(t)',
         Len(moved'[t]) = processed[t] + n, Len(moved'[t]) <= DataSize(t),
         moved'[t] = [i \in 1..Len(moved'[t]) |-> i], moved'[t] \in Seq(Nat),
         moved' = [moved EXCEPT ![t] = moved'[t]]
  PROVE  DataTypeOK(t)' /\ DataOf(t)' /\ Only(t)
<1>1. /\ TypeOK /\ BuffersLeft(t) /\ SizeOfData(t) /\ DataTypeOK(t)
      /\ processed \in [Transfers -> Nat] /\ totalSize \in [Transfers -> Nat \cup {Null}]
      /\ at \in [Transfers -> Labels]
  BY DataTypes DEF DataInv, TypeOK
<1>2. processed[t] + n <= DataSize(t) /\ Consume(t, n) /\ processed[t] \in Nat
  BY <1>1 DEF Transferred
<1>3. /\ buffers' = [buffers EXCEPT ![t] = buffers'[t]]
      /\ current' = [current EXCEPT ![t] = current'[t]]
      /\ totalSize' = [totalSize EXCEPT ![t] = DataSize(t)]
      /\ processed' = [processed EXCEPT ![t] = processed[t] + n]
      /\ buffers'[t] \in Seq(Buffer) /\ buffers'[t] # <<>>
      /\ DataSize(t)' = DataSize(t) /\ DataSize(t) \in Nat
      /\ current'[t] \in 1..Len(buffers'[t]) + 1 /\ Follow(buffers'[t], current'[t])
      /\ processed[t] + n < DataSize(t) =>
            /\ current'[t] <= Len(buffers'[t])
            /\ buffers'[t][current'[t]].at = processed[t] + n + 1
  BY <1>1, <1>2, ConsumeStep
<1>4. totalSize'[t] = DataSize(t) /\ processed'[t] = processed[t] + n
  BY <1>1, <1>3
<1>5. IF processed[t] + n = DataSize(t)
      THEN at'[t] = "value" /\ at' = [at EXCEPT ![t] = "value"]
      ELSE at'[t] = "repeat" /\ at' = [at EXCEPT ![t] = "repeat"] /\ processed[t] + n < DataSize(t)
  <2>1. TotalSize(t) = DataSize(t)
    BY <1>1, TotalSizeIsDataSize
  <2>2. IsCompleted(t, n) <=> processed[t] + n = DataSize(t)
    BY <1>2, <1>3, <2>1 DEF IsCompleted
  <2>3. at' = [at EXCEPT ![t] = IF IsCompleted(t, n) THEN "value" ELSE "repeat"]
    BY DEF Transferred
  <2>4. CASE IsCompleted(t, n)
    BY <1>1, <2>2, <2>3, <2>4
  <2>5. CASE ~IsCompleted(t, n)
    BY <1>1, <1>2, <1>3, <2>2, <2>3, <2>5
  <2> QED
    BY <2>4, <2>5
<1>6. Only(t)
  BY <1>3, <1>4, <1>5 DEF Only
<1>7. DataTypeOK(t)'
  BY <1>1, <1>2, <1>3, <1>4 DEF DataTypeOK
<1>8. BuffersLeft(t)'
  BY <1>3, <1>4, <1>5 DEF BuffersLeft, Active
<1>9. SizeOfData(t)'
  <2>1. DataSize(t) # Null
    BY <1>3, TransferAssumption
  <2> QED
    BY <1>3, <1>4, <2>1 DEF SizeOfData
<1>10. MovedOnce(t)'
  BY <1>2, <1>3, <1>4, <1>5 DEF MovedOnce, Queued
<1> QED
  BY <1>6, <1>7, <1>8, <1>9, <1>10 DEF DataOf

\* A call is over, whatever it moved, and the transfer with it.
LEMMA EndedStep ==
  ASSUME DataInv, NEW t \in Transfers, NEW l \in {"error", "done"}, Ends(t, l), ~Queued(t)',
         moved' = [moved EXCEPT ![t] = moved'[t]], Len(moved'[t]) <= DataSize(t),
         moved'[t] = [i \in 1..Len(moved'[t]) |-> i], moved'[t] \in Seq(Nat)
  PROVE  DataTypeOK(t)' /\ DataOf(t)' /\ Only(t)
<1>1. /\ TypeOK /\ DataTypeOK(t) /\ DataOf(t)
      /\ buffers \in [Transfers -> Seq(Buffer)] /\ current \in [Transfers -> Nat \ {0}]
      /\ totalSize \in [Transfers -> Nat \cup {Null}] /\ processed \in [Transfers -> Nat]
      /\ at \in [Transfers -> Labels]
  BY DataTypes DEF DataInv, TypeOK, DataOf
<1>2. at' = [at EXCEPT ![t] = l] /\ at'[t] = l /\ l # "value" /\ UNCHANGED dataVars
  BY <1>1 DEF Ends
<1>3. Only(t)
  BY <1>1, <1>2 DEF Only, dataVars
<1>4. ~Active(t)' /\ DataSize(t)' = DataSize(t)
  BY <1>2 DEF Active, DataSize, dataVars
<1>5. DataTypeOK(t)'
  BY <1>1, <1>2 DEF DataTypeOK, dataVars
<1>6. BuffersLeft(t)' /\ SizeOfData(t)'
  BY <1>1, <1>2, <1>4 DEF DataOf, BuffersLeft, SizeOfData, dataVars
<1>7. MovedOnce(t)'
  BY <1>2, <1>4 DEF MovedOnce, Queued
<1> QED
  BY <1>3, <1>5, <1>6, <1>7 DEF DataOf

----------------------------------------------------------------------------
(* Every action keeps the data *)

\* What both invariants say of a transfer that moves its label only.
LEMMA OnlyLabel ==
  ASSUME TypeOK, NEW t \in Transfers, UNCHANGED <<dataVars, moved>>,
         NEW l, at' = [at EXCEPT ![t] = l]
  PROVE  Only(t) /\ at'[t] = l /\ \A u \in Transfers : u # t => at'[u] = at[u]
BY DEF TypeOK, Only, dataVars

\* The data of no transfer and no entry changes.
LEMMA DataStutter ==
  ASSUME DataInv, TurnTypeOK', UNCHANGED <<reads, dataVars, at, port, failures, moved>>
  PROVE  DataInv'
<1>1. \A u \in Transfers : DataTypeOK(u) /\ DataOf(u) /\ SameEntries(u)
  BY DataTypes DEF DataInv, DataOf, SameEntries, Queued
<1>2. \A u \in Transfers : DataTypeOK(u)' /\ DataOf(u)'
  BY <1>1, DataSame DEF dataVars
<1>3. TypeOK'
  BY DEF DataInv, TypeOK, TurnTypeOK, dataVars
<1> QED
  BY <1>2, <1>3 DEF DataInv, DataOf

LEMMA SelectData ==
  ASSUME TurnInv, TurnInv', DataInv, NEW t \in Transfers, Select(t) PROVE DataInv'
<1>1. /\ TypeOK /\ OneEntry /\ running = t /\ at[t] = "repeat" /\ ~Queued(t)
      /\ UNCHANGED <<reads, dataVars, moved>> /\ failures' \in 0..MaxFailures
  <2>1. failures \in 0..MaxFailures /\ MaxFailures \in Nat
    BY TransferAssumption DEF DataInv, TypeOK
  <2>2. failures' = failures \/ (failures < MaxFailures /\ failures' = failures + 1)
    BY DEF Select
  <2>3. failures' \in 0..MaxFailures
    BY <2>1, <2>2
  <2> QED
    BY <2>3 DEF TurnInv, OneEntry, DataInv, Select
<1>2. processed[t] = Len(moved[t]) /\ processed[t] \in Nat /\ Active(t)
  BY <1>1 DEF DataInv, MovedOnce, Active, TypeOK
<1>3. CASE at' = [at EXCEPT ![t] = "scheduled"] /\ Queue(t, 0)
  <2>1. at' = [at EXCEPT ![t] = "scheduled"] /\ Queue(t, 0)
    BY <1>3
  <2>2. Only(t) /\ at'[t] = "scheduled"
    BY <1>1, <2>1, OnlyLabel
  <2>3. /\ \A k \in 1..Len(port') : port'[k].transfer = t => port'[k].bytes = 0
        /\ \A u \in Transfers : u # t => SameEntries(u)
    BY <1>1, <2>1, QueueEntries
  <2>4. DataTypeOK(t)' /\ DataOf(t)'
    BY <1>1, <1>2, <2>2, <2>3, LabelStep
  <2> QED
    BY <1>1, <2>2, <2>3, <2>4, OneTransferStep DEF TurnInv
<1>4. CASE (\E l \in {"some", "error"} : at' = [at EXCEPT ![t] = l]) /\ port' = port
  <2>1. PICK l \in {"some", "error"} : at' = [at EXCEPT ![t] = l] /\ port' = port
    BY <1>4
  <2>2. Only(t) /\ at'[t] = l
    BY <1>1, <2>1, OnlyLabel
  <2>3. \A u \in Transfers : SameEntries(u)
    BY <2>1 DEF SameEntries, Queued
  <2>4. \A k \in 1..Len(port') : port'[k].transfer # t
    BY <1>1, <2>1 DEF Queued
  <2>5. DataTypeOK(t)' /\ DataOf(t)'
    BY <1>1, <1>2, <2>2, <2>4, LabelStep
  <2> QED
    BY <1>1, <2>2, <2>3, <2>5, OneTransferStep DEF TurnInv
<1> QED
  BY <1>3, <1>4 DEF Select

LEMMA CallData ==
  ASSUME TurnInv, TurnInv', DataInv, NEW t \in Transfers,
         SomeFinished(t) \/ SomeRefused(t) \/ SomePending(t)
  PROVE  DataInv'
<1>1. /\ TypeOK /\ OneEntry /\ running = t /\ at[t] = "some" /\ ~Queued(t)
      /\ UNCHANGED <<reads, port, failures>> /\ failures \in 0..MaxFailures /\ ~Queued(t)'
      /\ \A u \in Transfers : SameEntries(u)
  <2>1. /\ TypeOK /\ OneEntry /\ running = t /\ at[t] = "some"
        /\ UNCHANGED <<reads, port, failures>> /\ failures \in 0..MaxFailures
    BY DEF TurnInv, DataInv, TypeOK, SomeFinished, SomeRefused, SomePending
  <2>2. ~Queued(t)
    BY <2>1 DEF OneEntry
  <2>3. ~Queued(t)' /\ \A u \in Transfers : SameEntries(u)
    BY <2>1, <2>2 DEF SameEntries, Queued
  <2> QED
    BY <2>1, <2>2, <2>3
<1>2. /\ processed[t] = Len(moved[t]) /\ processed[t] \in Nat /\ Active(t)
      /\ DataTypeOK(t) /\ BuffersLeft(t)
      /\ moved[t] = [i \in 1..Len(moved[t]) |-> i] /\ Len(moved[t]) <= DataSize(t) /\ moved[t] \in Seq(Nat)
      /\ moved \in [Transfers -> Seq(Nat)]
  <2>1. TypeOK /\ BuffersLeft(t) /\ MovedOnce(t) /\ Active(t) /\ DataTypeOK(t)
    BY <1>1, DataTypes DEF DataInv, Active
  <2> QED
    BY <1>1, <2>1 DEF MovedOnce, TypeOK, DataTypeOK
<1>3. CASE SomeFinished(t)
  <2>1. PICK n \in Counts(t) : Move(t, n) /\ (Transferred(t, n) \/ Ends(t, "done"))
    BY <1>3 DEF SomeFinished
  <2>2. /\ n \in Nat /\ processed[t] + n <= DataSize(t)
        /\ moved' = [moved EXCEPT ![t] = moved'[t]] /\ Len(moved'[t]) = processed[t] + n
        /\ moved'[t] = [i \in 1..Len(moved'[t]) |-> i] /\ moved'[t] \in Seq(Nat)
    BY <1>2, <2>1, MoveStep
  <2>3. DataTypeOK(t)' /\ DataOf(t)' /\ Only(t)
    <3>1. CASE Transferred(t, n)
      BY <1>1, <1>2, <2>2, <3>1, TransferredStep
    <3>2. CASE Ends(t, "done")
      BY <1>1, <2>2, <3>2, EndedStep
    <3> QED
      BY <2>1, <3>1, <3>2
  <2> QED
    BY <1>1, <2>3, OneTransferStep DEF TurnInv
<1>4. CASE SomeRefused(t)
  <2>1. PICK l \in {"error", "done"} : Ends(t, l)
    BY <1>4 DEF SomeRefused
  <2>2. moved' = moved /\ moved' = [moved EXCEPT ![t] = moved'[t]]
    BY <1>2, <1>4 DEF SomeRefused
  <2>3. DataTypeOK(t)' /\ DataOf(t)' /\ Only(t)
    BY <1>1, <1>2, <2>1, <2>2, EndedStep
  <2> QED
    BY <1>1, <2>3, OneTransferStep DEF TurnInv
<1>5. CASE SomePending(t)
  <2>1. at' = [at EXCEPT ![t] = "pending"] /\ UNCHANGED <<dataVars, moved>>
    BY <1>5 DEF SomePending
  <2>2. Only(t) /\ at'[t] = "pending"
    BY <1>1, <2>1, OnlyLabel
  <2>3. \A k \in 1..Len(port') : port'[k].transfer # t
    BY <1>1 DEF Queued
  <2>4. DataTypeOK(t)' /\ DataOf(t)'
    BY <1>1, <1>2, <2>1, <2>2, <2>3, LabelStep
  <2> QED
    BY <1>1, <2>2, <2>4, OneTransferStep DEF TurnInv
<1> QED
  BY <1>3, <1>4, <1>5

\* An entry for a pending call, with the bytes that were moved now.
LEMMA PendingData ==
  ASSUME TurnInv, TurnInv', DataInv, NEW t \in Transfers, at[t] = "pending", ~Queued(t),
         NEW n \in Nat, Queue(t, n), UNCHANGED <<reads, dataVars, at>>, failures' \in 0..MaxFailures,
         (n = 0 /\ moved' = moved) \/ (n \in Counts(t) /\ Move(t, n))
  PROVE  DataInv'
<1>1. /\ TypeOK /\ DataTypeOK(t) /\ DataOf(t) /\ Active(t)
      /\ processed[t] = Len(moved[t]) /\ processed[t] \in Nat
      /\ moved \in [Transfers -> Seq(Nat)] /\ moved[t] \in Seq(Nat)
      /\ moved[t] = [i \in 1..Len(moved[t]) |-> i] /\ Len(moved[t]) <= DataSize(t)
  <2>1. TypeOK /\ DataTypeOK(t) /\ DataOf(t) /\ MovedOnce(t) /\ Active(t)
    BY DataTypes DEF DataInv, Active, DataOf
  <2> QED
    BY <2>1 DEF MovedOnce, TypeOK, DataTypeOK
<1>2. /\ moved' = [moved EXCEPT ![t] = moved'[t]] /\ Len(moved'[t]) = processed[t] + n
      /\ moved'[t] = [i \in 1..Len(moved'[t]) |-> i] /\ moved'[t] \in Seq(Nat)
      /\ Len(moved'[t]) <= DataSize(t)
  <2>1. CASE n = 0 /\ moved' = moved
    BY <1>1, <2>1
  <2>2. CASE n \in Counts(t) /\ Move(t, n)
    BY <1>1, <2>2, MoveStep
  <2> QED
    BY <2>1, <2>2
<1>3. /\ Queued(t)' /\ \A k \in 1..Len(port') : port'[k].transfer = t => port'[k].bytes = n
      /\ \A u \in Transfers : u # t => SameEntries(u)
  BY QueueEntries
<1>4. Only(t) /\ at'[t] = "pending"
  BY <1>1, <1>2 DEF Only, TypeOK, dataVars
<1>5. DataTypeOK(t)' /\ DataSize(t)' = DataSize(t)
  BY <1>1, <1>2 DEF DataTypeOK, DataSize, dataVars
<1>6. BuffersLeft(t)' /\ SizeOfData(t)'
  BY <1>1, <1>4 DEF DataOf, BuffersLeft, SizeOfData, DataSize, Active, dataVars
<1>7. MovedOnce(t)'
  <2>1. processed'[t] = processed[t]
    BY DEF dataVars
  <2> QED
    BY <1>2, <1>3, <1>4, <1>5, <2>1 DEF MovedOnce
<1> QED
  BY <1>3, <1>4, <1>5, <1>6, <1>7, OneTransferStep DEF DataOf, TurnInv

LEMMA IoData ==
  ASSUME TurnInv, TurnInv', DataInv, NEW t \in Transfers, IoFinishes(t) \/ IoFails(t)
  PROVE  DataInv'
<1>1. /\ at[t] = "pending" /\ ~Queued(t) /\ UNCHANGED <<reads, dataVars, at>>
      /\ failures' \in 0..MaxFailures
  <2>1. failures \in 0..MaxFailures /\ MaxFailures \in Nat
    BY TransferAssumption DEF DataInv, TypeOK
  <2> QED
    BY <2>1 DEF IoFinishes, IoFails, Queued
<1>2. CASE IoFinishes(t)
  <2>1. PICK n \in Counts(t) : Queue(t, n) /\ Move(t, n)
    BY <1>2 DEF IoFinishes
  <2>2. n \in Nat
    BY DEF Counts
  <2> QED
    BY <1>1, <2>1, <2>2, PendingData
<1>3. CASE IoFails(t)
  <2>1. Queue(t, 0) /\ moved' = moved
    BY <1>3 DEF IoFails
  <2> QED
    BY <1>1, <2>1, PendingData
<1> QED
  BY <1>2, <1>3

LEMMA HandleData ==
  ASSUME TurnInv, TurnInv', DataInv, Handle PROVE DataInv'
<1>1. /\ port # <<>> /\ port' = Tail(port) /\ TypeOK
      /\ UNCHANGED <<reads, failures, moved>> /\ failures \in 0..MaxFailures
  BY DEF Handle, Port!Get, DataInv, TypeOK
<1>2. PICK t \in Transfers : /\ t = port[1].transfer /\ ~Queued(t)'
                             /\ \A u \in Transfers : u # t => SameEntries(u)
  BY <1>1, HandleEntries
<1> DEFINE n == port[1].bytes
<1>3. n \in Nat /\ Port!Oldest = port[1] /\ 1 \in 1..Len(port)
  BY <1>1, HandleEntries
<1>4. /\ DataTypeOK(t) /\ DataOf(t) /\ moved[t] \in Seq(Nat) /\ moved \in [Transfers -> Seq(Nat)]
      /\ processed[t] + n = Len(moved[t]) /\ processed[t] \in Nat
      /\ moved[t] = [i \in 1..Len(moved[t]) |-> i] /\ Len(moved[t]) <= DataSize(t)
  <2>1. DataTypeOK(t) /\ DataOf(t) /\ MovedOnce(t)
    BY <1>1, DataTypes DEF DataInv, DataOf
  <2> QED
    BY <1>1, <1>2, <1>3, <2>1 DEF MovedOnce, DataTypeOK, TypeOK
<1>5. moved' = [moved EXCEPT ![t] = moved'[t]] /\ moved'[t] = moved[t]
  BY <1>1, <1>4
<1>6. \/ at[t] = "scheduled" /\ at' = [at EXCEPT ![t] = "some"] /\ UNCHANGED dataVars
      \/ at[t] = "pending" /\ (Ends(t, "error") \/ Ends(t, "done"))
      \/ at[t] = "pending" /\ Transferred(t, n)
  BY <1>2, <1>3 DEF Handle
<1> HIDE DEF n
<1>7. DataTypeOK(t)' /\ DataOf(t)' /\ Only(t)
  <2>1. CASE at[t] = "scheduled" /\ at' = [at EXCEPT ![t] = "some"] /\ UNCHANGED dataVars
    <3>1. Only(t) /\ at'[t] = "some"
      BY <1>1, <2>1, OnlyLabel
    <3>2. processed[t] = Len(moved[t]) /\ Active(t)
      BY <2>1 DEF DataInv, MovedOnce, Active
    <3>3. \A k \in 1..Len(port') : port'[k].transfer # t
      BY <1>2 DEF Queued
    <3> QED
      BY <1>1, <2>1, <3>1, <3>2, <3>3, LabelStep
  <2>2. CASE at[t] = "pending" /\ (Ends(t, "error") \/ Ends(t, "done"))
    BY <1>2, <1>4, <1>5, <2>2, EndedStep
  <2>3. CASE at[t] = "pending" /\ Transferred(t, n)
    <3>1. Active(t)
      BY <2>3 DEF Active
    <3> QED
      BY <1>2, <1>3, <1>4, <1>5, <2>3, <3>1, TransferredStep
  <2> QED
    BY <1>6, <2>1, <2>2, <2>3
<1> QED
  BY <1>1, <1>2, <1>7, OneTransferStep DEF TurnInv

LEMMA ThreadData ==
  ASSUME TurnInv, TurnInv', DataInv, (\E t \in Transfers : Run(t)) \/ Handle PROVE DataInv'
BY SelectData, CallData, HandleData DEF Run

LEMMA StartData ==
  ASSUME TurnInv', DataInv, NEW t \in Transfers, StartTransfer(t) PROVE DataInv'
BY DataStutter DEF StartTransfer, TurnInv

\* The connect of the client fails, and its transfer ends before it began.
LEMMA ConnectData ==
  ASSUME TurnInv', DataInv, ConnectFails PROVE DataInv'
<1> DEFINE t == ClientWrite
<1>1. t \in Transfers
  BY EchoAssumption
<1> HIDE DEF t
<1>2. /\ UNCHANGED <<reads, dataVars, port, failures, moved>> /\ TypeOK
      /\ \E l \in {"error", "done"} : at' = [at EXCEPT ![t] = l]
  BY DEF t, ConnectFails, DataInv
<1>3. Only(t) /\ at'[t] \in {"error", "done"}
  BY <1>1, <1>2, OnlyLabel
<1>4. \A u \in Transfers : SameEntries(u)
  BY <1>2 DEF SameEntries, Queued
<1>5. \A k \in 1..Len(port') : port'[k].transfer = t => processed[t] + port'[k].bytes = Len(moved[t])
  BY <1>1, <1>2 DEF DataInv, MovedOnce
<1>6. DataTypeOK(t)' /\ DataOf(t)'
  <2>1. ~Active(t)' /\ at'[t] # "value"
    BY <1>3 DEF Active
  <2> QED
    BY <1>1, <1>2, <1>5, <2>1, LabelStep
<1>7. failures' \in 0..MaxFailures /\ reads' = reads
  BY <1>2 DEF TypeOK
<1> QED
  BY <1>1, <1>3, <1>4, <1>6, <1>7, OneTransferStep DEF TurnInv

----------------------------------------------------------------------------
(* The data at first, and what the invariant says *)

LEMMA InitData == Init => DataInv
<1> SUFFICES ASSUME Init PROVE DataInv
  OBVIOUS
<1>1. port = <<>> /\ Len(port) = 0
  BY DEF Init, Port!PortInit
<1>2. TurnTypeOK /\ N \in Nat \ {0} /\ MaxFailures \in Nat /\ Null \notin Nat
  BY InitTurns, TransferAssumption DEF TurnInv
<1>3. ASSUME NEW t \in Transfers
      PROVE  /\ DataTypeOK(t) /\ BuffersLeft(t) /\ SizeOfData(t) /\ MovedOnce(t)
             /\ totalSize[t] \in Nat \cup {Null}
  <2>1. PICK lens \in Shapes : buffers[t] = Layout(lens)
    BY DEF Init
  <2>2. lens \in Seq(Nat) \ {<<>>}
    BY TransferAssumption
  <2>3. /\ buffers[t] \in Seq(Buffer) /\ Len(buffers[t]) \in Nat \ {0} /\ Follow(buffers[t], 1)
        /\ buffers[t][1].at = 1
    BY <2>1, <2>2, LayoutFollows
  <2>4. /\ current[t] = 1 /\ processed[t] = 0 /\ moved[t] = <<>> /\ at[t] = "repeat"
        /\ totalSize[t] \in {Null, Len(AllBytes(buffers[t]))}
    BY DEF Init
  <2>5. BuffersLeft(t) /\ Active(t)
    BY <2>3, <2>4 DEF BuffersLeft, Active
  <2>6. current[t] \in 1..Len(buffers[t]) + 1 /\ moved[t] \in Seq(Nat)
    BY <2>3, <2>4
  <2>7. /\ DataSize(t) \in Nat /\ AllBytes(buffers[t]) = Remaining(t)
        /\ Len(Remaining(t)) = DataSize(t)
    <3>1. DataTypeOK(t) \/ totalSize[t] \notin Nat \cup {Null}
      BY <2>3, <2>4, <2>6 DEF DataTypeOK
    <3>2. Len(buffers[t]) \in 1 - 1..Len(buffers[t]) /\ 1 \in 1..Len(buffers[t])
      BY <2>3
    <3> DEFINE bs == buffers[t]  e == At(bs, Len(bs) + 1)
    <3>3. Len(AllBytes(bs)) = e - At(bs, 1) /\ At(bs, 1) \in Nat /\ e \in Nat /\ At(bs, 1) <= e
      <4>1. 1 \in 1..Len(bs) + 1 /\ Len(bs) + 1 \in 1..Len(bs) + 1
        BY <2>3
      <4> QED
        BY <2>3, <3>2, <4>1, BoundsOfBuffers, BytesBetween DEF AllBytes
    <3>4. Len(AllBytes(bs)) \in Nat
      BY <3>3
    <3>5. DataTypeOK(t)
      BY <2>4, <3>1, <3>4
    <3>6. AllBytes(bs) = Remaining(t)
      BY <2>4 DEF AllBytes, Remaining
    <3>7. /\ DataSize(t) \in Nat /\ Len(Remaining(t)) = DataSize(t) - processed[t]
      BY <2>5, <3>5, RemainingBytes
    <3> QED
      BY <2>4, <3>6, <3>7
  <2>8. totalSize[t] \in {Null, DataSize(t)} /\ totalSize[t] \in Nat \cup {Null}
    BY <2>4, <2>7
  <2>9. DataTypeOK(t)
    BY <2>3, <2>4, <2>6, <2>8 DEF DataTypeOK
  <2>10. SizeOfData(t)
    BY <2>4, <2>8 DEF SizeOfData
  <2>11. MovedOnce(t)
    <3>1. Len(moved[t]) = 0 /\ moved[t] = [i \in 1..0 |-> i] /\ 0 <= DataSize(t)
      BY <2>4, <2>7
    <3> QED
      BY <1>1, <2>4, <3>1 DEF MovedOnce
  <2> QED
    BY <2>5, <2>8, <2>9, <2>10, <2>11
<1>4. /\ buffers \in [Transfers -> Seq(Buffer)] /\ current \in [Transfers -> Nat \ {0}]
      /\ totalSize \in [Transfers -> Nat \cup {Null}] /\ processed \in [Transfers -> Nat]
      /\ moved \in [Transfers -> Seq(Nat)] /\ reads \subseteq Transfers /\ failures \in 0..MaxFailures
  <2>1. \A t \in Transfers : buffers[t] \in Seq(Buffer) /\ totalSize[t] \in Nat \cup {Null}
    BY <1>3 DEF DataTypeOK
  <2>2. \E S : buffers \in [Transfers -> S]
    BY DEF Init
  <2>3. buffers \in [Transfers -> Seq(Buffer)]
    BY <2>1, <2>2
  <2>4. totalSize \in [Transfers -> Nat \cup {Null}]
    <3>1. \E f : totalSize = [t \in Transfers |-> f[t]]
      <4>1. PICK calculated \in SUBSET Transfers : totalSize = [t \in Transfers |->
               IF t \in calculated THEN Len(AllBytes(buffers[t])) ELSE Null]
        BY DEF Init
      <4>2. totalSize = [t \in Transfers |-> totalSize[t]]
        BY <4>1
      <4> QED
        BY <4>2
    <3> QED
      BY <2>1, <3>1
  <2>5. current \in [Transfers -> Nat \ {0}] /\ processed \in [Transfers -> Nat]
        /\ reads \subseteq Transfers /\ failures \in 0..MaxFailures
    BY <1>2 DEF Init
  <2>6. moved \in [Transfers -> Seq(Nat)]
    BY DEF Init
  <2> QED
    BY <2>3, <2>4, <2>5, <2>6
<1>5. \A t \in Transfers : current[t] <= Len(buffers[t]) + 1
  BY <1>3 DEF DataTypeOK
<1>6. TypeOK
  BY <1>2, <1>4, <1>5 DEF TypeOK, TurnTypeOK
<1> QED
  BY <1>3, <1>6 DEF DataInv

LEMMA DataImpliesOrder ==
  ASSUME TurnInv, DataInv PROVE BytesInOrder
<1> SUFFICES ASSUME NEW t \in Transfers
             PROVE  /\ moved[t] = [i \in 1..Len(moved[t]) |-> i]
                    /\ at[t] = "value" => processed[t] = DataSize(t) /\ Len(moved[t]) = DataSize(t)
                    /\ at[t] \in {"repeat", "scheduled", "some"} =>
                          /\ current[t] <= Len(buffers[t])
                          /\ Remaining(t) = [i \in 1..DataSize(t) - Len(moved[t]) |-> Len(moved[t]) + i]
  BY DEF BytesInOrder
<1>1. DataTypeOK(t) /\ BuffersLeft(t) /\ MovedOnce(t)
  BY DataTypes DEF DataInv
<1>2. ASSUME at[t] \in {"repeat", "scheduled", "some"}
      PROVE  /\ current[t] <= Len(buffers[t])
             /\ Remaining(t) = [i \in 1..DataSize(t) - Len(moved[t]) |-> Len(moved[t]) + i]
  <2>1. Active(t) /\ (Queued(t) => at[t] = "scheduled")
    BY <1>2 DEF Active, TurnInv, OneEntry
  <2>2. processed[t] = Len(moved[t]) /\ current[t] <= Len(buffers[t])
    BY <1>1, <2>1 DEF MovedOnce, BuffersLeft
  <2> QED
    BY <1>1, <2>1, <2>2, RemainingBytes
<1> QED
  BY <1>1, <1>2 DEF MovedOnce

----------------------------------------------------------------------------
(* Theorems *)

LEMMA TransferSteps ==
  ASSUME TurnInv, [Next]_vars PROVE TurnInv' /\ (DataInv => DataInv')
<1>1. ASSUME NEW t \in Transfers, StartTransfer(t) PROVE TurnInv' /\ (DataInv => DataInv')
  <2>1. TurnInv'
    BY <1>1, StartStep DEF StartTransfer
  <2> QED
    BY <1>1, <2>1, StartData
<1>2. ASSUME NEW t \in Transfers, IoFinishes(t) \/ IoFails(t) PROVE TurnInv' /\ (DataInv => DataInv')
  BY <1>2, IoStep, IoData
<1>3. CASE (\E t \in Transfers : Run(t)) \/ Handle
  BY <1>3, ThreadStep, ThreadData
<1>4. CASE UNCHANGED vars
  <2>1. TurnInv'
    BY <1>4, TurnsStutter DEF vars
  <2> QED
    BY <1>4, <2>1, DataStutter DEF vars, TurnInv
<1> QED
  BY <1>1, <1>2, <1>3, <1>4 DEF Next

\* In the echo one transfer continues another, and stops and lost connections end
\* pending calls as well.
LEMMA EchoSteps ==
  ASSUME TurnInv, [EchoNext]_echoVars PROVE TurnInv' /\ (DataInv => DataInv')
<1>1. ASSUME NEW t \in Transfers, StartTransfer(t) \/ IoFinishes(t) \/ IoFails(t)
      PROVE  TurnInv' /\ (DataInv => DataInv')
  BY <1>1, TransferSteps DEF Next
<1>2. ASSUME NEW t \in Transfers, Broken(t) PROVE TurnInv' /\ (DataInv => DataInv')
  <2>1. /\ at[t] = "pending" /\ ~Queued(t) /\ Queue(t, 0)
        /\ UNCHANGED <<reads, dataVars, calls, at, running, failures, moved>>
    BY <1>2 DEF Broken, Pending, Queued
  <2>2. TurnInv'
    BY <2>1, PendingStep
  <2>3. ASSUME DataInv PROVE DataInv'
    <3>1. failures' \in 0..MaxFailures
      BY <2>1, <2>3 DEF DataInv, TypeOK
    <3> QED
      BY <2>1, <2>2, <2>3, <3>1, PendingData
  <2> QED
    BY <2>2, <2>3
<1>3. CASE ConnectFails
  <2>1. ClientWrite \in Transfers
    BY EchoAssumption
  <2>2. /\ at[ClientWrite] = "repeat" /\ running = Null /\ running' = Null
        /\ UNCHANGED <<calls, port, waited>>
        /\ \E l \in {"done", "error"} : at' = [at EXCEPT ![ClientWrite] = l]
    BY <1>3 DEF ConnectFails
  <2>3. TurnInv'
    BY <2>1, <2>2, StartStep
  <2> QED
    BY <1>3, <2>3, ConnectData
<1>4. CASE UNCHANGED echoVars
  BY <1>4, TransferSteps DEF echoVars
<1>5. ASSUME NEW t \in Transfers, Connected(t) \/ Continue(t) \/ KernelEnds(t) \/ KernelFails(t)
      PROVE  TurnInv' /\ (DataInv => DataInv')
  BY <1>1, <1>5 DEF Connected, Continue, KernelEnds, KernelFails
<1>6. CASE Thread
  BY <1>6, ThreadStep, ThreadData DEF Thread
<1> QED
  BY <1>2, <1>3, <1>4, <1>5, <1>6 DEF EchoNext, Progress

\* An entry in the port waits for N calls of any other transfer at most: N calls
\* are what a transfer makes before it has to queue behind that entry.
THEOREM TransfersTakeTurns == Spec => []OthersGetTheirTurn
<1>1. TurnInv /\ [Next]_vars => TurnInv'
  BY TransferSteps
<1>2. TurnInv => OthersGetTheirTurn
  BY DEF TurnInv
<1> QED
  BY <1>1, <1>2, InitTurns, PTL DEF Spec

\* So it is in the echo, where one transfer continues another, and stops and lost
\* connections end pending calls as well.
THEOREM EchoTakesTurns == EchoSpec => []OthersGetTheirTurn
<1>1. EchoInit => TurnInv
  BY InitTurns DEF EchoInit
<1>2. TurnInv /\ [EchoNext]_echoVars => TurnInv'
  BY EchoSteps
<1>3. TurnInv => OthersGetTheirTurn
  BY DEF TurnInv
<1> QED
  BY <1>1, <1>2, <1>3, PTL DEF EchoSpec

\* The current buffer stays inside the buffers or just after them
\* (State_AsyncReadWrite::consume, which cuts a buffer in place).
THEOREM TransfersTyped == Spec => []TypeOK
<1>1. Init => TurnInv /\ DataInv
  BY InitTurns, InitData
<1>2. TurnInv /\ DataInv /\ [Next]_vars => (TurnInv /\ DataInv)'
  BY TransferSteps
<1>3. DataInv => TypeOK
  BY DEF DataInv
<1> QED
  BY <1>1, <1>2, <1>3, PTL DEF Spec

\* Every byte goes once and in order, for any buffers, empty ones among them, any
\* partial calls and any failures; a transfer that ends with a value has moved, and
\* reports, all of the data.
THEOREM TransfersInOrder == Spec => []BytesInOrder
<1>1. Init => TurnInv /\ DataInv
  BY InitTurns, InitData
<1>2. TurnInv /\ DataInv /\ [Next]_vars => (TurnInv /\ DataInv)'
  BY TransferSteps
<1>3. TurnInv /\ DataInv => BytesInOrder
  BY DataImpliesOrder
<1> QED
  BY <1>1, <1>2, <1>3, PTL DEF Spec

\* So they do in the echo.
THEOREM EchoInOrder == EchoSpec => []BytesInOrder
<1>1. EchoInit => TurnInv /\ DataInv
  BY InitTurns, InitData DEF EchoInit
<1>2. TurnInv /\ DataInv /\ [EchoNext]_echoVars => (TurnInv /\ DataInv)'
  BY EchoSteps
<1>3. TurnInv /\ DataInv => BytesInOrder
  BY DataImpliesOrder
<1> QED
  BY <1>1, <1>2, <1>3, PTL DEF EchoSpec
=============================================================================

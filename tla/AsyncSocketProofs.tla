-------------------------- MODULE AsyncSocketProofs --------------------------
(***************************************************************************)
(* Proofs about AsyncSocket, for any number of operations, threads,        *)
(* sockets and handles: an operation has one holder at a time and signals  *)
(* once, and a handle has one owner.                                       *)
(***************************************************************************)
EXTENDS AsyncSocket, SequenceTheorems, FiniteSetTheorems, TLAPS

USE DEF Port!Post

----------------------------------------------------------------------------
(* The table of operations *)

LEMMA OperationTable ==
  ASSUME NEW k \in DOMAIN Operation, NEW r \in Results, NEW s \in Operation[k].signals[r]
  PROVE  /\ s \in {"value", "error"}
         /\ k \in {"connect", "accept"} /\ s = "value" => r \notin {"failed", "refused"}
         /\ k = "read_some" /\ s = "value" => r = "ok"
<1> USE DEF Operation, Results, Pending
<1>1. CASE k = "connect"
  BY <1>1 DEF Operation_Connect
<1>2. CASE k = "read_some"
  BY <1>2 DEF Operation_ReadSome
<1>3. CASE k = "accept"
  BY <1>3 DEF Operation_Accept, ByErrorCode
<1>4. CASE k \in {"write_some", "send_to", "receive_from", "schedule"}
  BY <1>4 DEF Operation_WriteSome, Operation_SendTo, Operation_ReceiveFrom,
              Operation_IOCP_Schedule, ByErrorCode
<1>5. CASE k = "read_nothing"
  BY <1>5 DEF Operation_ReadSome
<1> QED
  BY <1>1, <1>2, <1>3, <1>4, <1>5

----------------------------------------------------------------------------
(* Where entries are *)

\* An operation that is nowhere gets an entry in the port.
LEMMA EntryPosted ==
  ASSUME TypeOK, EntriesOnce, UNCHANGED todo,
         NEW o \in Ops, NEW r \in Results, ~OnItsWay(o), Port!Post(Entry(o, r))
  PROVE  /\ port' \in Seq(Entries) /\ EntriesOnce'
         /\ \A x \in Ops : OnItsWay(x)' => OnItsWay(x) \/ x = o
<1>1. Entry(o, r) \in Entries /\ Entry(o, r).op = o
  BY DEF Entry, Entries
<1>2. /\ port' \in Seq(Entries) /\ Len(port') = Len(port) + 1
      /\ \A k \in 1..Len(port) : port'[k] = port[k]
      /\ port'[Len(port) + 1].op = o
  BY <1>1, AppendProperties DEF TypeOK
<1>3. /\ \A k \in 1..Len(port) : port[k].op # o
      /\ \A t \in Pumps \cup Ops : \A k \in 1..Len(todo[t]) : todo[t][k].op # o
  BY DEF OnItsWay, Mentions
<1>4. Len(port) \in Nat
  BY LenProperties DEF TypeOK
<1>5. EntriesOnce'
  BY <1>2, <1>3, <1>4 DEF EntriesOnce
<1>6. \A x \in Ops : OnItsWay(x)' => OnItsWay(x) \/ x = o
  BY <1>2, <1>4 DEF OnItsWay, Mentions
<1> QED
  BY <1>2, <1>5, <1>6

\* start() gets the entry of an operation that is nowhere.
LEMMA EntryInStart ==
  ASSUME TypeOK, EntriesOnce, UNCHANGED port,
         NEW o \in Ops, NEW r \in Results, ~OnItsWay(o),
         todo' = [todo EXCEPT ![o] = <<Entry(o, r)>>]
  PROVE  /\ todo' \in [Pumps \cup Ops -> Seq(Entries)] /\ EntriesOnce'
         /\ \A x \in Ops : OnItsWay(x)' => OnItsWay(x) \/ x = o
<1>1. Entry(o, r) \in Entries /\ Entry(o, r).op = o
  BY DEF Entry, Entries
<1>2. /\ todo'[o] \in Seq(Entries) /\ Len(todo'[o]) = 1 /\ todo'[o][1].op = o
      /\ \A t \in Pumps \cup Ops : t # o => todo'[t] = todo[t]
  BY <1>1 DEF TypeOK
<1>3. /\ \A k \in 1..Len(port) : port[k].op # o
      /\ \A t \in Pumps \cup Ops : \A k \in 1..Len(todo[t]) : todo[t][k].op # o
  BY DEF OnItsWay, Mentions
<1>4. \A k \in 1..Len(todo'[o]) : k = 1 /\ todo'[o][k].op = o
  <2>1. 1..Len(todo'[o]) = {1}
    BY <1>2
  <2> QED
    BY <1>2, <2>1
<1>5. EntriesOnce'
  BY <1>2, <1>3, <1>4 DEF EntriesOnce
<1>6. \A x \in Ops : OnItsWay(x)' => OnItsWay(x) \/ x = o
  BY <1>2, <1>4 DEF OnItsWay, Mentions
<1>7. todo' \in [Pumps \cup Ops -> Seq(Entries)]
  BY <1>2 DEF TypeOK
<1> QED
  BY <1>5, <1>6, <1>7

\* get_many() gives a pump the oldest entries.
LEMMA EntriesFetched ==
  ASSUME TypeOK, EntriesOnce, NEW p \in Pumps, GetMany(p)
  PROVE  /\ port' \in Seq(Entries) /\ todo' \in [Pumps \cup Ops -> Seq(Entries)] /\ EntriesOnce'
         /\ \A x \in Ops : OnItsWay(x)' => OnItsWay(x)
<1> DEFINE n == IF Batch < Len(port) THEN Batch ELSE Len(port)
<1>1. n \in 1..Len(port) /\ Len(port) \in Nat
  BY SocketAssumption, LenProperties, EmptySeq DEF TypeOK, GetMany, Port!GetMany
<1>2. /\ SubSeq(port, 1, n) \in Seq(Entries) /\ Len(SubSeq(port, 1, n)) = n
      /\ \A k \in 1..n : SubSeq(port, 1, n)[k] = port[k]
  BY <1>1, SubSeqProperties DEF TypeOK
<1>3. /\ SubSeq(port, n + 1, Len(port)) \in Seq(Entries)
      /\ Len(SubSeq(port, n + 1, Len(port))) = Len(port) - n
      /\ \A k \in 1..(Len(port) - n) : SubSeq(port, n + 1, Len(port))[k] = port[k + n]
  BY <1>1, SubSeqProperties DEF TypeOK
<1>4. Port!OldestMany(Batch) = SubSeq(port, 1, n)
  BY DEF Port!OldestMany
<1>5. /\ port' = SubSeq(port, n + 1, Len(port))
      /\ todo' = [todo EXCEPT ![p] = SubSeq(port, 1, n)]
  BY <1>2, <1>4 DEF GetMany, Port!GetMany
<1> HIDE DEF n
<1>6. /\ todo'[p] = SubSeq(port, 1, n) /\ \A t \in Pumps \cup Ops : t # p => todo'[t] = todo[t]
      /\ todo' \in [Pumps \cup Ops -> Seq(Entries)]
  BY <1>2, <1>5 DEF TypeOK
<1>7. EntriesOnce'
  <2>1. ASSUME NEW j \in 1..Len(port'), NEW k \in 1..Len(port'), port'[j].op = port'[k].op
        PROVE  j = k
    <3>1. /\ port'[j] = port[j + n] /\ port'[k] = port[k + n]
          /\ j + n \in 1..Len(port) /\ k + n \in 1..Len(port) /\ j \in Nat /\ k \in Nat
      BY <1>1, <1>3, <1>5
    <3>2. j + n = k + n
      BY <2>1, <3>1 DEF EntriesOnce
    <3> QED
      BY <1>1, <3>1, <3>2
  <2>2. ASSUME NEW t \in Pumps \cup Ops, NEW u \in Pumps \cup Ops,
               NEW j \in 1..Len(todo'[t]), NEW k \in 1..Len(todo'[u]),
               todo'[t][j].op = todo'[u][k].op
        PROVE  t = u /\ j = k
    <3>1. CASE t = p /\ u = p
      BY <1>1, <1>2, <1>6, <2>2, <3>1 DEF EntriesOnce
    <3>2. CASE t = p /\ u # p
      BY <1>1, <1>2, <1>6, <2>2, <3>2 DEF EntriesOnce
    <3>3. CASE t # p /\ u = p
      BY <1>1, <1>2, <1>6, <2>2, <3>3 DEF EntriesOnce
    <3>4. CASE t # p /\ u # p
      BY <1>6, <2>2, <3>4 DEF EntriesOnce
    <3> QED
      BY <3>1, <3>2, <3>3, <3>4
  <2>3. ASSUME NEW j \in 1..Len(port'), NEW t \in Pumps \cup Ops, NEW k \in 1..Len(todo'[t])
        PROVE  port'[j].op # todo'[t][k].op
    <3>1. port'[j] = port[j + n] /\ j + n \in 1..Len(port)
      BY <1>1, <1>3, <1>5
    <3>2. CASE t = p
      BY <1>1, <1>2, <1>6, <3>1, <3>2 DEF EntriesOnce
    <3>3. CASE t # p
      BY <1>6, <3>1, <3>3 DEF EntriesOnce
    <3> QED
      BY <3>2, <3>3
  <2> QED
    BY <2>1, <2>2, <2>3 DEF EntriesOnce
<1>8. ASSUME NEW x \in Ops, OnItsWay(x)' PROVE OnItsWay(x)
  <2>1. CASE Mentions(port, x)'
    BY <1>1, <1>3, <1>5, <2>1 DEF OnItsWay, Mentions
  <2>2. CASE \E t \in Pumps \cup Ops : Mentions(todo'[t], x)
    <3>1. PICK t \in Pumps \cup Ops : Mentions(todo'[t], x)
      BY <2>2
    <3>2. CASE t = p
      BY <1>1, <1>2, <1>6, <3>1, <3>2 DEF OnItsWay, Mentions
    <3>3. CASE t # p
      BY <1>6, <3>1, <3>3 DEF OnItsWay, Mentions
    <3> QED
      BY <3>2, <3>3
  <2> QED
    BY <1>8, <2>1, <2>2 DEF OnItsWay, Mentions
<1> QED
  BY <1>3, <1>5, <1>6, <1>7, <1>8

\* A thread takes its next entry, which was the only one of its operation.
LEMMA EntryTaken ==
  ASSUME TypeOK, EntriesOnce, UNCHANGED port,
         NEW t \in Pumps \cup Ops, todo[t] # <<>>, todo' = [todo EXCEPT ![t] = Tail(@)],
         NEW o \in Ops, o = Head(todo[t]).op
  PROVE  /\ todo' \in [Pumps \cup Ops -> Seq(Entries)] /\ EntriesOnce'
         /\ OnItsWay(o) /\ ~OnItsWay(o)'
         /\ \A x \in Ops : OnItsWay(x)' => OnItsWay(x)
<1>1. /\ todo[t] \in Seq(Entries) /\ Len(todo[t]) \in Nat \ {0}
      /\ Head(todo[t]) = todo[t][1] /\ Head(todo[t]) \in Entries
  BY HeadTailProperties, LenProperties, EmptySeq DEF TypeOK
<1>2. /\ Tail(todo[t]) \in Seq(Entries) /\ Len(Tail(todo[t])) = Len(todo[t]) - 1
      /\ \A k \in 1..(Len(todo[t]) - 1) : Tail(todo[t])[k] = todo[t][k + 1]
  BY <1>1, HeadTailProperties
<1>3. /\ todo'[t] = Tail(todo[t]) /\ \A u \in Pumps \cup Ops : u # t => todo'[u] = todo[u]
      /\ todo' \in [Pumps \cup Ops -> Seq(Entries)]
  BY <1>2 DEF TypeOK
<1>4. OnItsWay(o)
  BY <1>1 DEF OnItsWay, Mentions
<1>5. \A k \in 1..Len(todo'[t]) : todo'[t][k] = todo[t][k + 1] /\ k + 1 \in 1..Len(todo[t]) /\ k \in Nat
  BY <1>1, <1>2, <1>3
<1>6. EntriesOnce'
  <2>1. ASSUME NEW u \in Pumps \cup Ops, NEW v \in Pumps \cup Ops,
               NEW j \in 1..Len(todo'[u]), NEW k \in 1..Len(todo'[v]),
               todo'[u][j].op = todo'[v][k].op
        PROVE  u = v /\ j = k
    <3>1. CASE u = t /\ v = t
      BY <1>5, <2>1, <3>1 DEF EntriesOnce
    <3>2. CASE u = t /\ v # t
      BY <1>3, <1>5, <2>1, <3>2 DEF EntriesOnce
    <3>3. CASE u # t /\ v = t
      BY <1>3, <1>5, <2>1, <3>3 DEF EntriesOnce
    <3>4. CASE u # t /\ v # t
      BY <1>3, <2>1, <3>4 DEF EntriesOnce
    <3> QED
      BY <3>1, <3>2, <3>3, <3>4
  <2>2. ASSUME NEW j \in 1..Len(port), NEW u \in Pumps \cup Ops, NEW k \in 1..Len(todo'[u])
        PROVE  port[j].op # todo'[u][k].op
    BY <1>3, <1>5 DEF EntriesOnce
  <2> QED
    BY <2>1, <2>2 DEF EntriesOnce
<1>7. ASSUME NEW x \in Ops, OnItsWay(x)' PROVE OnItsWay(x)
  <2>1. CASE Mentions(port, x)'
    BY <2>1 DEF OnItsWay, Mentions
  <2>2. CASE \E u \in Pumps \cup Ops : Mentions(todo'[u], x)
    BY <1>3, <1>5, <2>2 DEF OnItsWay, Mentions
  <2> QED
    BY <1>7, <2>1, <2>2 DEF OnItsWay, Mentions
<1>8. ~OnItsWay(o)'
  <2>1. \A k \in 1..Len(port) : port[k].op # o
    BY <1>1 DEF EntriesOnce
  <2>2. ASSUME NEW u \in Pumps \cup Ops, NEW k \in 1..Len(todo'[u]) PROVE todo'[u][k].op # o
    <3>1. CASE u = t
      <4>1. /\ todo'[u][k] = todo[t][k + 1] /\ k + 1 \in 1..Len(todo[t]) /\ 1 \in 1..Len(todo[t])
            /\ k + 1 # 1
        BY <1>1, <1>5, <3>1
      <4>2. todo[t][k + 1].op # todo[t][1].op
        BY <4>1 DEF EntriesOnce
      <4> QED
        BY <4>1, <4>2
    <3>2. CASE u # t
      BY <1>1, <1>3, <3>2 DEF EntriesOnce
    <3> QED
      BY <3>1, <3>2
  <2> QED
    BY <2>1, <2>2 DEF OnItsWay, Mentions
<1> QED
  BY <1>3, <1>4, <1>6, <1>7, <1>8

\* closesocket() ends all requests of a handle, each with an entry of its own.
LEMMA EntriesOfClosed ==
  ASSUME TypeOK, EntriesOnce, UNCHANGED todo,
         NEW A \in SUBSET Ops, \A o \in A : ~OnItsWay(o),
         NEW q \in SetToSeqs(A),
         port' = port \o [k \in 1..Len(q) |-> Entry(q[k], "failed")]
  PROVE  /\ port' \in Seq(Entries) /\ EntriesOnce'
         /\ \A x \in Ops : OnItsWay(x)' => OnItsWay(x) \/ x \in A
<1> DEFINE n == Cardinality(A)
           new == [k \in 1..n |-> Entry(q[k], "failed")]
<1>1. n \in Nat
  BY AsyncSocketAssumption, FS_Subset, FS_CardinalityType
<1>2. q \in [1..n -> A] /\ \A j, k \in 1..n : j # k => q[j] # q[k]
  BY DEF SetToSeqs
<1>3. Len(q) = n
  BY <1>1, <1>2, IsASeq, LenProperties
<1>4. /\ new \in Seq(Entries) /\ Len(new) = n
      /\ \A k \in 1..n : new[k].op = q[k]
  <2>1. new \in [1..n -> Entries] /\ \A k \in 1..n : new[k].op = q[k]
    BY <1>2 DEF Entry, Entries, Results, Pending
  <2>2. new \in Seq(Entries)
    BY <1>1, <2>1, SeqDef
  <2>3. Len(new) = n
    BY <1>1, <2>1, <2>2, LenProperties
  <2> QED
    BY <2>1, <2>2, <2>3
<1>5. port' = port \o new
  BY <1>3
<1> HIDE DEF n, new
<1>6. port \in Seq(Entries) /\ Len(port) \in Nat
  BY LenProperties DEF TypeOK
<1>7. /\ port' \in Seq(Entries) /\ Len(port') = Len(port) + n
      /\ \A k \in 1..Len(port) : port'[k] = port[k]
      /\ \A k \in 1..n : port'[Len(port) + k] = new[k]
  <2>1. /\ port' \in Seq(Entries) /\ Len(port') = Len(port) + n
        /\ \A k \in 1..(Len(port) + n) :
              port'[k] = IF k <= Len(port) THEN port[k] ELSE new[k - Len(port)]
    <3>1. /\ port \o new \in Seq(Entries) /\ Len(port \o new) = Len(port) + Len(new)
          /\ \A k \in 1..(Len(port) + Len(new)) :
                (port \o new)[k] = IF k <= Len(port) THEN port[k] ELSE new[k - Len(port)]
      BY <1>4, <1>6, ConcatProperties
    <3> QED
      BY <1>4, <1>5, <3>1
  <2>2. ASSUME NEW k \in 1..n PROVE port'[Len(port) + k] = new[k]
    <3>1. Len(port) + k \in 1..(Len(port) + n) /\ ~(Len(port) + k <= Len(port)) /\ (Len(port) + k) - Len(port) = k
      BY <1>1, <1>6
    <3> QED
      BY <2>1, <3>1
  <2>3. ASSUME NEW k \in 1..Len(port) PROVE port'[k] = port[k]
    <3>1. k \in 1..(Len(port) + n) /\ k <= Len(port)
      BY <1>1, <1>6
    <3> QED
      BY <2>1, <3>1
  <2> QED
    BY <2>1, <2>2, <2>3
<1>8. ASSUME NEW k \in 1..Len(port')
      PROVE  \/ k \in 1..Len(port) /\ port'[k] = port[k]
             \/ /\ k - Len(port) \in 1..n /\ k \notin 1..Len(port)
                /\ port'[k].op = q[k - Len(port)] /\ q[k - Len(port)] \in A
  <2>1. CASE k <= Len(port)
    BY <1>6, <1>7, <2>1
  <2>2. CASE k > Len(port)
    <3>1. PICK i \in 1..n : k = Len(port) + i
      BY <1>1, <1>6, <1>7, <2>2
    <3>2. i = k - Len(port) /\ k \notin 1..Len(port)
      BY <1>1, <1>6, <3>1
    <3>3. port'[k].op = q[i] /\ q[i] \in A
      BY <1>2, <1>4, <1>7, <3>1
    <3> QED
      BY <3>2, <3>3
  <2> QED
    BY <1>6, <1>7, <2>1, <2>2
<1>9. \A o \in A : /\ \A k \in 1..Len(port) : port[k].op # o
                   /\ \A t \in Pumps \cup Ops : \A k \in 1..Len(todo[t]) : todo[t][k].op # o
  BY DEF OnItsWay, Mentions
<1>10. EntriesOnce'
  <2>1. ASSUME NEW j \in 1..Len(port'), NEW k \in 1..Len(port'), port'[j].op = port'[k].op
        PROVE  j = k
    <3>1. CASE j \in 1..Len(port) /\ k \in 1..Len(port)
      BY <1>8, <2>1, <3>1 DEF EntriesOnce
    <3>2. CASE j \in 1..Len(port) /\ k \notin 1..Len(port)
      BY <1>8, <1>9, <2>1, <3>2
    <3>3. CASE j \notin 1..Len(port) /\ k \in 1..Len(port)
      BY <1>8, <1>9, <2>1, <3>3
    <3>4. CASE j \notin 1..Len(port) /\ k \notin 1..Len(port)
      <4>1. q[j - Len(port)] = q[k - Len(port)] /\ {j - Len(port), k - Len(port)} \subseteq 1..n
        BY <1>8, <2>1, <3>4
      <4>2. j - Len(port) = k - Len(port)
        BY <1>2, <4>1
      <4>3. j \in Int /\ k \in Int
        OBVIOUS
      <4> QED
        BY <1>6, <4>2, <4>3
    <3> QED
      BY <3>1, <3>2, <3>3, <3>4
  <2>2. ASSUME NEW j \in 1..Len(port'), NEW t \in Pumps \cup Ops, NEW k \in 1..Len(todo'[t])
        PROVE  port'[j].op # todo'[t][k].op
    <3>1. k \in 1..Len(todo[t]) /\ todo'[t] = todo[t]
      OBVIOUS
    <3>2. CASE j \in 1..Len(port)
      BY <1>8, <3>1, <3>2 DEF EntriesOnce
    <3>3. CASE j \notin 1..Len(port)
      BY <1>8, <1>9, <3>1, <3>3
    <3> QED
      BY <3>2, <3>3
  <2>3. \A t, u \in Pumps \cup Ops : \A j \in 1..Len(todo'[t]), k \in 1..Len(todo'[u]) :
           todo'[t][j].op = todo'[u][k].op => t = u /\ j = k
    BY DEF EntriesOnce
  <2> QED
    BY <2>1, <2>2, <2>3 DEF EntriesOnce
<1>11. ASSUME NEW x \in Ops, OnItsWay(x)', x \notin A PROVE OnItsWay(x)
  <2>1. CASE Mentions(port, x)'
    BY <1>8, <1>11, <2>1 DEF OnItsWay, Mentions
  <2>2. CASE \E u \in Pumps \cup Ops : Mentions(todo'[u], x)
    BY <2>2 DEF OnItsWay, Mentions
  <2> QED
    BY <1>11, <2>1, <2>2 DEF OnItsWay, Mentions
<1> QED
  BY <1>7, <1>10, <1>11

----------------------------------------------------------------------------
(* Steps of an operation *)

LEMMA InitOperation == Init => OperationInv
<1> SUFFICES ASSUME Init PROVE OperationInv
  OBVIOUS
<1>1. \A S : <<>> \in Seq(S) /\ Len(<<>>) = 0
  BY EmptySeq
<1>2. /\ port = <<>> /\ \A t \in Pumps \cup Ops : todo[t] = <<>>
      /\ \A o \in Ops : signals[o] = <<>>
  BY DEF Init, Port!PortInit
<1>3. \A k \in 1..Len(<<>>) : FALSE
  BY <1>1
<1>4. TypeOK
  BY <1>1, <1>2 DEF Init, TypeOK
<1>5. EntriesOnce
  BY <1>2, <1>3 DEF EntriesOnce
<1>6. \A o \in Ops : ~OnItsWay(o)
  BY <1>2, <1>3 DEF OnItsWay, Mentions
<1>7. OneHolder
  BY <1>2, <1>6 DEF Init, OneHolder
<1>8. NoFalseSuccess
  BY <1>2, <1>3 DEF NoFalseSuccess
<1> QED
  BY <1>4, <1>5, <1>7, <1>8 DEF OperationInv

LEMMA OperationStutters ==
  ASSUME OperationInv, UNCHANGED vars
  PROVE  OperationInv'
<1>1. TypeOK' /\ EntriesOnce' /\ NoFalseSuccess' /\ \A x \in Ops : OnItsWay(x)' = OnItsWay(x)
  BY DEF OperationInv, vars, TypeOK, EntriesOnce, NoFalseSuccess, OnItsWay, Mentions
<1>2. OneHolder'
  BY <1>1 DEF OperationInv, OneHolder, vars
<1> QED
  BY <1>1, <1>2 DEF OperationInv

\* The steps that change neither what was signalled nor where the entries are
LEMMA NoEntryStep ==
  ASSUME OperationInv, NEW o \in Ops, TryConstruct(o) \/ RequestStop(o)
  PROVE  OperationInv'
<1>1. UNCHANGED <<kind, irp, port, todo, signals>>
  BY DEF TryConstruct, RequestStop
<1>2. \A x \in Ops : OnItsWay(x)' = OnItsWay(x)
  BY <1>1 DEF OnItsWay, Mentions
<1>3. TypeOK'
  <2>1. CASE TryConstruct(o)
    BY <1>1, <2>1 DEF OperationInv, TypeOK, TryConstruct
  <2>2. CASE RequestStop(o)
    BY <1>1, <2>2 DEF OperationInv, TypeOK, RequestStop
  <2> QED
    BY <2>1, <2>2
<1>4. OneHolder'
  <2>1. CASE TryConstruct(o)
    BY <1>1, <1>2, <2>1 DEF OperationInv, TypeOK, OneHolder, TryConstruct
  <2>2. CASE RequestStop(o)
    BY <1>1, <1>2, <2>2 DEF OperationInv, TypeOK, OneHolder, RequestStop
  <2> QED
    BY <2>1, <2>2
<1> QED
  BY <1>1, <1>3, <1>4 DEF OperationInv, EntriesOnce, NoFalseSuccess

\* The rest of start(): the kernel gets the operation, or the port does, or the
\* thread in start() handles it.
LEMMA StartStep ==
  ASSUME OperationInv, NEW o \in Ops, Finished(o) \/ Refused(o) \/ IoPending(o) \/ Post(o)
  PROVE  OperationInv'
<1>1. /\ TypeOK /\ EntriesOnce /\ ~OnItsWay(o) /\ signals[o] = <<>> /\ irp[o] = "none"
      /\ started[o] = "constructed"
  BY DEF OperationInv, OneHolder, Finished, Refused, IoPending, Post
<1>2. /\ started' = [started EXCEPT ![o] = "yes"]
      /\ UNCHANGED <<kind, stopped, callback, signals>>
  BY DEF Finished, Refused, IoPending, Post
<1>3. /\ irp' \in [Ops -> {"none", "pending", "finished"}]
      /\ port' \in Seq(Entries) /\ todo' \in [Pumps \cup Ops -> Seq(Entries)] /\ EntriesOnce'
      /\ \A x \in Ops : OnItsWay(x)' => OnItsWay(x) \/ x = o
      /\ \A x \in Ops : irp'[x] = "pending" => irp[x] = "pending" \/ (x = o /\ ~OnItsWay(x)')
      /\ \A x \in Ops \ {o} : irp'[x] = irp[x]
  <2>1. CASE Finished(o) \/ Refused(o)
    <3>1. PICK r \in Results : todo' = [todo EXCEPT ![o] = <<Entry(o, r)>>]
      BY <2>1 DEF Finished, Refused, Results, Pending
    <3>2. UNCHANGED <<irp, port>>
      BY <2>1 DEF Finished, Refused
    <3> QED
      BY <1>1, <3>1, <3>2, EntryInStart DEF TypeOK
  <2>2. CASE IoPending(o)
    <3>1. UNCHANGED <<port, todo>> /\ irp' = [irp EXCEPT ![o] = "pending"]
      BY <2>2 DEF IoPending
    <3>2. EntriesOnce' /\ \A x \in Ops : OnItsWay(x)' = OnItsWay(x)
      BY <1>1, <3>1 DEF EntriesOnce, OnItsWay, Mentions
    <3> QED
      BY <1>1, <3>1, <3>2 DEF TypeOK
  <2>3. CASE Post(o)
    <3>1. UNCHANGED <<irp, todo>> /\ Port!Post(Entry(o, "ok")) /\ "ok" \in Results
      BY <2>3 DEF Post, Results, Pending
    <3> QED
      BY <1>1, <3>1, EntryPosted DEF TypeOK
  <2> QED
    BY <2>1, <2>2, <2>3
<1>4. TypeOK'
  BY <1>1, <1>2, <1>3 DEF TypeOK
<1>5. OneHolder'
  BY <1>1, <1>2, <1>3 DEF OperationInv, OneHolder, TypeOK
<1> QED
  BY <1>2, <1>3, <1>4, <1>5 DEF OperationInv, NoFalseSuccess

\* A pending request ends: the kernel has the operation no more, the port has.
LEMMA DequeueStep ==
  ASSUME OperationInv, NEW o \in Ops, NEW r \in Results, Dequeue(o, r),
         UNCHANGED <<kind, started, todo, stopped, signals>>,
         \/ UNCHANGED callback
         \/ callback[o] = "running" /\ callback' = [callback EXCEPT ![o] = "ran"]
  PROVE  OperationInv'
<1>1. TypeOK /\ EntriesOnce /\ ~OnItsWay(o) /\ signals[o] = <<>> /\ started[o] = "yes"
  BY DEF OperationInv, OneHolder, Dequeue, TypeOK
<1>2. irp' = [irp EXCEPT ![o] = "finished"] /\ Port!Post(Entry(o, r))
  BY DEF Dequeue
<1>3. /\ port' \in Seq(Entries) /\ EntriesOnce'
      /\ \A x \in Ops : OnItsWay(x)' => OnItsWay(x) \/ x = o
  BY <1>1, <1>2, EntryPosted
<1>4. TypeOK'
  BY <1>1, <1>2, <1>3 DEF TypeOK
<1>5. OneHolder'
  BY <1>1, <1>2, <1>3 DEF OperationInv, OneHolder, TypeOK
<1> QED
  BY <1>3, <1>4, <1>5 DEF OperationInv, NoFalseSuccess

LEMMA KernelStep ==
  ASSUME OperationInv, NEW o \in Ops, IoFinishes(o)
  PROVE  OperationInv'
<1>1. PICK r \in Pending : Dequeue(o, r)
  BY DEF IoFinishes
<1> QED
  BY <1>1, DequeueStep DEF IoFinishes, Results

LEMMA TryStopStep ==
  ASSUME OperationInv, NEW o \in Ops, TryStop(o)
  PROVE  OperationInv'
<1>1. CASE irp[o] = "pending"
  <2>1. Dequeue(o, "failed") /\ "failed" \in Results
    BY <1>1 DEF TryStop, Results, Pending
  <2> QED
    BY <2>1, DequeueStep DEF TryStop
<1>2. CASE irp[o] # "pending"
  <2>1. UNCHANGED <<kind, started, irp, port, todo, stopped, signals>>
    BY <1>2 DEF TryStop
  <2>2. EntriesOnce' /\ NoFalseSuccess' /\ \A x \in Ops : OnItsWay(x)' = OnItsWay(x)
    BY <2>1 DEF OperationInv, EntriesOnce, NoFalseSuccess, OnItsWay, Mentions
  <2>3. TypeOK' /\ OneHolder'
    BY <2>1, <2>2 DEF OperationInv, TypeOK, OneHolder, TryStop
  <2> QED
    BY <2>2, <2>3 DEF OperationInv
<1> QED
  BY <1>1, <1>2

LEMMA GetManyStep ==
  ASSUME OperationInv, NEW p \in Pumps, GetMany(p)
  PROVE  OperationInv'
<1>1. UNCHANGED <<kind, started, irp, stopped, callback, signals>>
  BY DEF GetMany
<1>2. /\ port' \in Seq(Entries) /\ todo' \in [Pumps \cup Ops -> Seq(Entries)] /\ EntriesOnce'
      /\ \A x \in Ops : OnItsWay(x)' => OnItsWay(x)
  BY EntriesFetched DEF OperationInv
<1>3. TypeOK' /\ OneHolder'
  BY <1>1, <1>2 DEF OperationInv, TypeOK, OneHolder
<1> QED
  BY <1>1, <1>2, <1>3 DEF OperationInv, NoFalseSuccess

\* A stop callback that ends the program changes nothing but itself.
LEMMA StopAbortsStep ==
  ASSUME OperationInv, NEW o \in Ops, StopAborts(o)
  PROVE  OperationInv'
<1> USE DEF StopAborts
<1>1. EntriesOnce' /\ NoFalseSuccess' /\ \A x \in Ops : OnItsWay(x)' = OnItsWay(x)
  BY DEF OperationInv, EntriesOnce, NoFalseSuccess, OnItsWay, Mentions
<1>2. TypeOK' /\ OneHolder'
  BY <1>1 DEF OperationInv, TypeOK, OneHolder
<1> QED
  BY <1>1, <1>2 DEF OperationInv

\* The handler gives the first signal of its operation, whose entry was the last
\* that anybody had of it.
LEMMA HandleStep ==
  ASSUME OperationInv, NEW t \in Pumps \cup Ops, Handle(t)
  PROVE  /\ OperationInv'
         /\ \E o \in Ops, s \in {"value", "error", "done"}, r \in Results :
               /\ o = Head(todo[t]).op /\ started[o] = "yes" /\ signals[o] = <<>>
               /\ s = "done" => o \in stopped
               /\ signals' = [signals EXCEPT ![o] = <<<<s, r>>>>]
<1> DEFINE e == Head(todo[t])
<1>1. e \in Entries /\ e.op \in Ops /\ e.result \in Results
  <2>1. todo[t] \in Seq(Entries) /\ todo[t] # <<>>
    BY DEF Handle, OperationInv, TypeOK
  <2>2. e \in Entries
    BY <2>1, HeadTailProperties
  <2> HIDE DEF e
  <2> QED
    BY <2>2 DEF Entries
<1>2. PICK o \in Ops, r \in Results : o = e.op /\ r = e.result
  BY <1>1
<1> HIDE DEF e
<1>3. /\ todo' \in [Pumps \cup Ops -> Seq(Entries)] /\ EntriesOnce'
      /\ OnItsWay(o) /\ ~OnItsWay(o)'
      /\ \A x \in Ops : OnItsWay(x)' => OnItsWay(x)
  BY <1>2, EntryTaken DEF Handle, OperationInv, e
<1>4. signals[o] = <<>> /\ irp[o] # "pending" /\ started[o] = "yes"
  BY <1>3 DEF OperationInv, OneHolder, TypeOK
<1>5. kind[o] \in DOMAIN Operation
  BY KindsAssumption DEF OperationInv, TypeOK
<1>6. PICK s \in IF Stoppable(o) /\ o \in stopped THEN {"done"} ELSE Operation[kind[o]].signals[r] :
         signals' = [signals EXCEPT ![o] = Append(@, <<s, r>>)]
  BY <1>2 DEF Handle, e
<1>7. /\ s \in {"value", "error", "done"}
      /\ s = "done" => o \in stopped
      /\ kind[o] \in {"connect", "accept"} /\ s = "value" => r \notin {"failed", "refused"}
      /\ kind[o] = "read_some" /\ s = "value" => r = "ok"
  BY <1>5, <1>6, OperationTable
<1>8. Append(<<>>, <<s, r>>) = <<<<s, r>>>>
  OBVIOUS
<1>9. signals' = [signals EXCEPT ![o] = <<<<s, r>>>>]
  BY <1>4, <1>6, <1>8
<1>10. /\ UNCHANGED <<kind, started, irp, port, stopped>>
       /\ callback' = [callback EXCEPT ![o] = "none"]
  BY <1>2 DEF Handle, e
<1>11. TypeOK'
  <2>1. <<<<s, r>>>> \in Seq({"value", "error", "done"} \X Results)
    <3>1. <<s, r>> \in {"value", "error", "done"} \X Results
      BY <1>7
    <3> QED
      BY <3>1, EmptySeq, AppendProperties, <1>8
  <2> QED
    BY <1>3, <1>9, <1>10, <2>1 DEF OperationInv, TypeOK
<1>12. OneHolder'
  <2>1. Len(<<<<s, r>>>>) = 1 /\ <<<<s, r>>>> # <<>>
    OBVIOUS
  <2> QED
    BY <1>3, <1>4, <1>9, <1>10, <2>1 DEF OperationInv, OneHolder, TypeOK
<1>13. NoFalseSuccess'
  <2>1. \A k \in 1..Len(<<<<s, r>>>>) : <<<<s, r>>>>[k] = <<s, r>>
    OBVIOUS
  <2> QED
    BY <1>7, <1>9, <1>10, <2>1 DEF OperationInv, NoFalseSuccess, TypeOK
<1>14. OperationInv'
  BY <1>3, <1>11, <1>12, <1>13 DEF OperationInv
<1>15. s \in {"value", "error", "done"} /\ (s = "done" => o \in stopped) /\ o = Head(todo[t]).op
  BY <1>2, <1>7 DEF e
<1> QED
  BY <1>4, <1>9, <1>14, <1>15

\* closesocket() ends the requests that the kernel has.
LEMMA CloseStep ==
  ASSUME OperationInv, NEW h, Close(h), UNCHANGED <<kind, started, todo, stopped, callback, signals>>
  PROVE  OperationInv'
<1>1. CASE h = INVALID_SOCKET
  <2>1. UNCHANGED vars
    BY <1>1 DEF Close, vars
  <2> QED
    BY <2>1, OperationStutters
<1>2. CASE h # INVALID_SOCKET
  <2> DEFINE aborted == {o \in Ops : uses[o] = h /\ irp[o] = "pending"}
  <2>1. irp' = [o \in Ops |-> IF o \in aborted THEN "finished" ELSE irp[o]]
    BY <1>2 DEF Close
  <2>2. PICK q \in SetToSeqs(aborted) : port' = port \o [k \in 1..Len(q) |-> Entry(q[k], "failed")]
    BY <1>2 DEF Close
  <2>3. /\ aborted \in SUBSET Ops
        /\ \A o \in aborted : ~OnItsWay(o) /\ signals[o] = <<>> /\ irp[o] = "pending"
    BY DEF OperationInv, OneHolder
  <2> HIDE DEF aborted
  <2>4. /\ port' \in Seq(Entries) /\ EntriesOnce'
        /\ \A x \in Ops : OnItsWay(x)' => OnItsWay(x) \/ x \in aborted
    BY <2>2, <2>3, EntriesOfClosed DEF OperationInv
  <2>5. TypeOK'
    BY <2>1, <2>4 DEF OperationInv, TypeOK
  <2>6. OneHolder'
    BY <2>1, <2>3, <2>4 DEF OperationInv, OneHolder, TypeOK
  <2> QED
    BY <2>4, <2>5, <2>6 DEF OperationInv, NoFalseSuccess
<1> QED
  BY <1>1, <1>2

----------------------------------------------------------------------------
(* Steps of socket objects *)

LEMMA InitSocket == SocketInit => SocketInv
<1> SUFFICES ASSUME SocketInit PROVE SocketInv
  OBVIOUS
<1>1. OperationInv
  BY InitOperation DEF SocketInit
<1>2. HandlesTypeOK /\ ClientAfterStart
  BY AsyncSocketAssumption DEF SocketInit, HandlesTypeOK, ClientAfterStart
<1>3. HandlesOwned
  BY DEF SocketInit, HandlesOwned, Owned, Accepting
<1> QED
  BY <1>1, <1>2, <1>3 DEF SocketInv

LEMMA MakeStep ==
  ASSUME SocketInv, NEW s \in Sockets, Make(s)
  PROVE  SocketInv' /\ UNCHANGED vars
<1>1. UNCHANGED <<vars, uses, client>> /\ socket[s] = INVALID_SOCKET
  BY DEF Make
<1>2. PICK h \in Handles : /\ h \notin handles /\ handles' = handles \cup {h}
                         /\ socket' = [socket EXCEPT ![s] = h]
  BY DEF Make, NewHandle
<1>3. HandlesTypeOK'
  BY <1>1, <1>2, AsyncSocketAssumption DEF SocketInv, HandlesTypeOK, Make
<1>4. ClientAfterStart'
  BY <1>1 DEF SocketInv, ClientAfterStart, vars
<1>5. HandlesOwned'
  <2>1. h # INVALID_SOCKET
    BY AsyncSocketAssumption
  <2>2. Accepting' = Accepting /\ Owned' = Owned \cup {s} /\ s \notin Owned
    BY <1>1, <1>2, <2>1 DEF Accepting, Owned, SocketInv, HandlesTypeOK
  <2>3. /\ \A d \in Owned : socket'[d] = socket[d] /\ socket[d] \in handles
        /\ socket'[s] = h
        /\ \A o \in Accepting : client'[o] = client[o] /\ client[o] \in handles
    BY <1>1, <1>2, <2>2 DEF Owned, SocketInv, HandlesTypeOK, HandlesOwned
  <2> QED
    BY <1>2, <2>2, <2>3 DEF SocketInv, HandlesOwned
<1>6. OperationInv'
  BY <1>1, OperationStutters DEF SocketInv
<1> QED
  BY <1>1, <1>3, <1>4, <1>5, <1>6 DEF SocketInv

\* What closing the handle of an object means to the rest.
LEMMA CloseHandle ==
  ASSUME SocketInv, NEW d \in Sockets, Close(socket[d]),
         UNCHANGED <<kind, started, todo, stopped, callback, signals, uses, client, makes>>
  PROVE  /\ OperationInv' /\ ClientAfterStart' /\ Accepting' = Accepting
         /\ handles' = handles \ {socket[d]}
<1>1. OperationInv'
  BY CloseStep DEF SocketInv
<1>2. ClientAfterStart' /\ Accepting' = Accepting
  BY DEF SocketInv, ClientAfterStart, Accepting
<1>3. handles' = handles \ {socket[d]}
  BY AsyncSocketAssumption DEF Close, SocketInv, HandlesTypeOK
<1> QED
  BY <1>1, <1>2, <1>3

LEMMA DisconnectStep ==
  ASSUME SocketInv, NEW s \in Sockets, Disconnect(s)
  PROVE  SocketInv'
<1>1. /\ OperationInv' /\ ClientAfterStart' /\ Accepting' = Accepting
      /\ handles' = handles \ {socket[s]} /\ UNCHANGED <<uses, client, makes>>
      /\ socket' = [socket EXCEPT ![s] = INVALID_SOCKET] /\ s \in Owned
  BY CloseHandle DEF Disconnect, Owned
<1>2. HandlesTypeOK'
  BY <1>1 DEF SocketInv, HandlesTypeOK
<1>3. Owned' = Owned \ {s} /\ \A d \in Owned' : socket'[d] = socket[d]
  BY <1>1 DEF Owned, SocketInv, HandlesTypeOK
<1>4. HandlesOwned'
  BY <1>1, <1>3 DEF SocketInv, HandlesOwned
<1> QED
  BY <1>1, <1>2, <1>4 DEF SocketInv

LEMMA MoveStep ==
  ASSUME SocketInv, NEW s \in Sockets, NEW d \in Sockets, Move(s, d)
  PROVE  SocketInv'
<1>1. /\ OperationInv' /\ ClientAfterStart' /\ Accepting' = Accepting
      /\ handles' = handles \ {socket[d]} /\ UNCHANGED <<uses, client, makes>>
      /\ socket' = [socket EXCEPT ![d] = socket[s], ![s] = INVALID_SOCKET]
      /\ s # d /\ socket[s] # INVALID_SOCKET
  BY CloseHandle DEF Move
<1>2. HandlesTypeOK'
  BY <1>1 DEF SocketInv, HandlesTypeOK
<1>3. /\ Owned' = (Owned \ {s}) \cup {d} /\ s \in Owned
      /\ socket'[d] = socket[s]
      /\ \A x \in Owned' : x # d => socket'[x] = socket[x] /\ x \in Owned /\ x # s
  BY <1>1 DEF Owned, SocketInv, HandlesTypeOK
<1>4. /\ \A x, y \in Owned : x # y => socket[x] # socket[y]
      /\ \A x \in Owned, o \in Accepting : socket[x] # client[o]
  BY DEF SocketInv, HandlesOwned
<1>5. {socket'[x] : x \in Owned'} = {socket[x] : x \in Owned} \ {socket[d]}
  <2>1. \A x \in Owned' : socket'[x] \in {socket[y] : y \in Owned} \ {socket[d]}
    BY <1>1, <1>3, <1>4 DEF Owned
  <2>2. ASSUME NEW x \in Owned, socket[x] # socket[d] PROVE \E y \in Owned' : socket'[y] = socket[x]
    BY <1>1, <1>3, <2>2 DEF Owned, SocketInv, HandlesTypeOK
  <2> QED
    BY <2>1, <2>2
<1>6. HandlesOwned'
  <2>1. \A o \in Accepting : client[o] # socket[d]
    BY <1>4 DEF Owned, Accepting
  <2>2. {socket'[x] : x \in Owned'} \cup {client'[o] : o \in Accepting'} = handles'
    BY <1>1, <1>5, <2>1 DEF SocketInv, HandlesOwned
  <2>3. \A x, y \in Owned' : x # y => socket'[x] # socket'[y]
    BY <1>3, <1>4
  <2>4. /\ \A o, p \in Accepting' : o # p => client'[o] # client'[p]
        /\ \A x \in Owned', o \in Accepting' : socket'[x] # client'[o]
    <3>1. \A o, p \in Accepting : o # p => client[o] # client[p]
      BY DEF SocketInv, HandlesOwned
    <3>2. UNCHANGED client /\ Accepting' = Accepting
      BY <1>1
    <3>3. ASSUME NEW x \in Owned', NEW o \in Accepting PROVE socket'[x] # client[o]
      <4>1. CASE x = d
        BY <1>3, <1>4, <4>1
      <4>2. CASE x # d
        BY <1>3, <1>4, <4>2
      <4> QED
        BY <4>1, <4>2
    <3> QED
      BY <3>1, <3>2, <3>3
  <2> QED
    BY <2>2, <2>3, <2>4 DEF HandlesOwned
<1> QED
  BY <1>1, <1>2, <1>6 DEF SocketInv

----------------------------------------------------------------------------
(* Steps of operations that use sockets *)

\* Steps that have nothing to do with handles.
LEMMA HandlesUntouched ==
  ASSUME SocketInv, OperationInv', UNCHANGED handleVars,
         \A o \in Ops : started'[o] = "no" => started[o] = "no"
  PROVE  SocketInv'
<1>1. HandlesTypeOK' /\ ClientAfterStart'
  BY DEF SocketInv, HandlesTypeOK, ClientAfterStart, handleVars
<1>2. HandlesOwned'
  BY DEF SocketInv, HandlesOwned, Owned, Accepting, handleVars
<1> QED
  BY <1>1, <1>2 DEF SocketInv

LEMMA AsyncStep ==
  ASSUME SocketInv, NEW o \in Ops, Async(o)
  PROVE  SocketInv'
<1>1. TryConstruct(o) /\ UNCHANGED <<socket, makes>>
  BY DEF Async
<1>2. OperationInv'
  BY <1>1, NoEntryStep DEF SocketInv
<1>3. uses' \in [Ops -> Handles \cup {INVALID_SOCKET}]
  BY DEF Async, SocketInv, HandlesTypeOK
<1>4. started[o] = "no" /\ started' = [started EXCEPT ![o] = "constructed"]
  BY <1>1 DEF TryConstruct
<1>5. CASE UNCHANGED <<handles, client>>
  <2>1. HandlesTypeOK' /\ ClientAfterStart'
    BY <1>1, <1>3, <1>4, <1>5 DEF SocketInv, OperationInv, TypeOK, HandlesTypeOK, ClientAfterStart
  <2>2. HandlesOwned'
    BY <1>1, <1>5 DEF SocketInv, HandlesOwned, Owned, Accepting
  <2> QED
    BY <1>2, <2>1, <2>2 DEF SocketInv
<1>6. CASE \E h \in Handles : NewHandle(h) /\ client' = [client EXCEPT ![o] = h]
  <2>1. PICK h \in Handles : /\ h \notin handles /\ handles' = handles \cup {h}
                           /\ client' = [client EXCEPT ![o] = h]
    BY <1>6 DEF NewHandle
  <2>2. client[o] = INVALID_SOCKET /\ h # INVALID_SOCKET
    BY <1>4, AsyncSocketAssumption DEF SocketInv, ClientAfterStart
  <2>3. HandlesTypeOK' /\ ClientAfterStart'
    BY <1>1, <1>3, <1>4, <2>1 DEF SocketInv, OperationInv, TypeOK, HandlesTypeOK, ClientAfterStart
  <2>4. Owned' = Owned /\ Accepting' = Accepting \cup {o} /\ o \notin Accepting
    BY <1>1, <2>1, <2>2 DEF Owned, Accepting, SocketInv, HandlesTypeOK
  <2>5. /\ \A x \in Accepting : client'[x] = client[x] /\ client[x] \in handles
        /\ client'[o] = h
        /\ \A s \in Owned : socket'[s] = socket[s] /\ socket[s] \in handles
    BY <1>1, <2>1, <2>4 DEF Accepting, SocketInv, HandlesTypeOK, HandlesOwned
  <2>6. HandlesOwned'
    BY <2>1, <2>4, <2>5 DEF SocketInv, HandlesOwned
  <2> QED
    BY <1>2, <2>3, <2>6 DEF SocketInv
<1> QED
  BY <1>5, <1>6 DEF Async

LEMMA StartIoStep ==
  ASSUME SocketInv, NEW o \in Ops, StartIo(o)
  PROVE  SocketInv'
<1>1. Finished(o) \/ Refused(o) \/ IoPending(o) \/ Post(o)
  BY DEF StartIo
<1>2. OperationInv'
  BY <1>1, StartStep DEF SocketInv
<1>3. started' = [started EXCEPT ![o] = "yes"]
  BY <1>1 DEF Finished, Refused, IoPending, Post
<1> QED
  BY <1>2, <1>3, HandlesUntouched DEF StartIo, SocketInv, OperationInv, TypeOK

LEMMA HandleEntryStep ==
  ASSUME SocketInv, NEW t \in Pumps \cup Ops, HandleEntry(t)
  PROVE  SocketInv'
<1>1. PICK o \in Ops : /\ o = Head(todo[t]).op /\ started[o] = "yes" /\ OperationInv'
  BY HandleStep DEF HandleEntry, SocketInv
<1>2. /\ uses' = [uses EXCEPT ![o] = INVALID_SOCKET]
      /\ client' = [client EXCEPT ![o] = INVALID_SOCKET]
      /\ UNCHANGED <<started, makes>>
      /\ \/ (\E s \in Sockets : Accepted(o, s)) /\ UNCHANGED handles
         \/ handles' = handles \ {client[o]} /\ UNCHANGED socket
  BY <1>1 DEF HandleEntry, Handle
<1>3. ClientAfterStart'
  BY <1>1, <1>2 DEF SocketInv, HandlesTypeOK, ClientAfterStart
<1>4. Accepting' = Accepting \ {o} /\ \A x \in Accepting' : client'[x] = client[x]
  BY <1>2 DEF Accepting, SocketInv, HandlesTypeOK
<1>5. CASE handles' = handles \ {client[o]} /\ UNCHANGED socket
  <2>1. HandlesTypeOK'
    BY <1>2, <1>5 DEF SocketInv, HandlesTypeOK
  <2>2. Owned' = Owned
    BY <1>5 DEF Owned
  <2>3. o \notin Accepting => client[o] \notin handles
    BY AsyncSocketAssumption DEF Accepting, SocketInv, HandlesTypeOK
  <2>4. HandlesOwned'
    BY <1>4, <1>5, <2>2, <2>3 DEF SocketInv, HandlesOwned
  <2> QED
    BY <1>1, <1>3, <2>1, <2>4 DEF SocketInv
<1>6. CASE (\E s \in Sockets : Accepted(o, s)) /\ UNCHANGED handles
  <2>1. PICK s \in Sockets : /\ o \in Accepting /\ s \notin Owned
                           /\ socket' = [socket EXCEPT ![s] = client[o]]
    BY <1>6 DEF Accepted, Accepting, Owned
  <2>2. HandlesTypeOK'
    BY <1>2, <1>6, <2>1 DEF SocketInv, HandlesTypeOK
  <2>3. /\ Owned' = Owned \cup {s} /\ socket'[s] = client[o]
        /\ \A d \in Owned : socket'[d] = socket[d]
    BY <2>1 DEF Owned, Accepting, SocketInv, HandlesTypeOK
  <2>4. HandlesOwned'
    BY <1>4, <1>6, <2>1, <2>3 DEF SocketInv, HandlesOwned
  <2> QED
    BY <1>1, <1>3, <2>2, <2>4 DEF SocketInv
<1> QED
  BY <1>2, <1>5, <1>6

\* The kernel, a stop request or callback, or a pump that fetches entries
LEMMA OtherStep ==
  ASSUME SocketInv, UNCHANGED handleVars,
         \/ \E o \in Ops : IoFinishes(o) \/ RequestStop(o) \/ TryStop(o) \/ StopAborts(o)
         \/ \E p \in Pumps : GetMany(p)
  PROVE  SocketInv'
<1>1. UNCHANGED started
  BY DEF IoFinishes, RequestStop, TryStop, StopAborts, GetMany
<1>2. OperationInv'
  BY KernelStep, NoEntryStep, TryStopStep, StopAbortsStep, GetManyStep DEF SocketInv
<1> QED
  BY <1>1, <1>2, HandlesUntouched

LEMMA SocketStep == SocketInv /\ [SocketNext]_socketVars => SocketInv'
<1> SUFFICES ASSUME SocketInv, [SocketNext]_socketVars PROVE SocketInv'
  OBVIOUS
<1>1. CASE UNCHANGED socketVars
  <2>1. OperationInv'
    BY <1>1, OperationStutters DEF socketVars, SocketInv
  <2> QED
    BY <1>1, <2>1, HandlesUntouched DEF socketVars, vars
<1>2. CASE \E s \in Sockets : Make(s) \/ Disconnect(s) \/ \E d \in Sockets : Move(s, d)
  BY <1>2, MakeStep, DisconnectStep, MoveStep
<1>3. CASE \E o \in Ops : Async(o) \/ StartIo(o)
  BY <1>3, AsyncStep, StartIoStep
<1>4. CASE \E t \in Pumps \cup Ops : HandleEntry(t)
  BY <1>4, HandleEntryStep
<1>5. CASE /\ \/ \E o \in Ops : IoFinishes(o) \/ RequestStop(o)
              \/ \E p \in Pumps : GetMany(p)
           /\ UNCHANGED handleVars
  BY <1>5, OtherStep
<1>6. CASE \E o \in Ops : StopIo(o) \/ StopAborts(o)
  BY <1>6, OtherStep DEF StopIo, StopAborts, handleVars
<1> QED
  BY <1>1, <1>2, <1>3, <1>4, <1>5, <1>6 DEF SocketNext

----------------------------------------------------------------------------
(* The contract of senders *)

LEMMA InitContract == SocketInit => Contract!Init
<1> SUFFICES ASSUME SocketInit PROVE Contract!Init
  OBVIOUS
<1>1. Begun = {} /\ stopped = {}
  BY DEF SocketInit, Init, Begun
<1>2. [k \in DOMAIN <<>> |-> <<>>[k][1]] = <<>>
  OBVIOUS
<1>3. Received = [o \in Ops |-> <<>>]
  BY <1>2 DEF SocketInit, Init, Received
<1> QED
  BY <1>1, <1>3 DEF Contract!Init

\* Steps that signal nothing
LEMMA QuietContract ==
  ASSUME UNCHANGED <<signals, stopped>>, \A o \in Ops : (started'[o] # "no") = (started[o] # "no")
  PROVE  UNCHANGED Contract!contractVars
<1>1. Begun' = Begun /\ Received' = Received
  BY DEF Begun, Received
<1> QED
  BY <1>1 DEF Contract!contractVars

LEMMA SignalContract ==
  ASSUME SocketInv, NEW t \in Pumps \cup Ops, Handle(t)
  PROVE  Contract!Next
<1>1. PICK o \in Ops, s \in {"value", "error", "done"}, r \in Results :
         /\ started[o] = "yes" /\ signals[o] = <<>>
         /\ s = "done" => o \in stopped
         /\ signals' = [signals EXCEPT ![o] = <<<<s, r>>>>]
  BY HandleStep DEF SocketInv
<1>2. UNCHANGED <<started, stopped>>
  BY DEF Handle
<1>3. o \in Begun /\ Begun' = Begun
  BY <1>1, <1>2 DEF Begun
<1>4. Received[o] = <<>>
  BY <1>1 DEF Received
<1>5. Received' = [Received EXCEPT ![o] = <<s>>]
  <2>1. [k \in DOMAIN <<<<s, r>>>> |-> <<<<s, r>>>>[k][1]] = <<s>>
    OBVIOUS
  <2>2. /\ signals'[o] = <<<<s, r>>>>
        /\ \A x \in Ops : x # o => signals'[x] = signals[x]
    BY <1>1 DEF SocketInv, OperationInv, TypeOK
  <2> QED
    BY <2>1, <2>2 DEF Received
<1>6. Contract!Signal(o, s)
  BY <1>1, <1>2, <1>3, <1>4, <1>5 DEF Contract!Signal
<1> QED
  BY <1>6 DEF Contract!Next

LEMMA StepContract ==
  SocketInv /\ [SocketNext]_socketVars => [Contract!Next]_(Contract!contractVars)
<1> SUFFICES ASSUME SocketInv, [SocketNext]_socketVars
             PROVE  Contract!Next \/ UNCHANGED Contract!contractVars
  OBVIOUS
<1>1. CASE UNCHANGED vars
  BY <1>1, QuietContract DEF vars
<1>2. ASSUME NEW s \in Sockets, Disconnect(s) \/ \E d \in Sockets : Move(s, d)
      PROVE  UNCHANGED Contract!contractVars
  <2>1. UNCHANGED <<started, stopped, signals>>
    BY <1>2 DEF Disconnect, Move
  <2> QED
    BY <2>1, QuietContract
<1>3. ASSUME NEW o \in Ops, Async(o) PROVE Contract!Next
  <2>1. /\ started[o] = "no" /\ started' = [started EXCEPT ![o] = "constructed"]
        /\ UNCHANGED <<stopped, signals>>
    BY <1>3 DEF Async, TryConstruct
  <2>2. o \notin Begun /\ Begun' = Begun \cup {o} /\ Received' = Received
    BY <2>1 DEF Begun, Received, SocketInv, OperationInv, TypeOK
  <2>3. Contract!Start(o)
    BY <2>1, <2>2 DEF Contract!Start
  <2> QED
    BY <2>3 DEF Contract!Next
<1>4. ASSUME NEW o \in Ops, StartIo(o) PROVE UNCHANGED Contract!contractVars
  <2>1. /\ started[o] = "constructed" /\ started' = [started EXCEPT ![o] = "yes"]
        /\ UNCHANGED <<stopped, signals>>
    BY <1>4 DEF StartIo, Finished, Refused, IoPending, Post
  <2> QED
    BY <2>1, QuietContract DEF SocketInv, OperationInv, TypeOK
<1>5. ASSUME NEW o \in Ops, RequestStop(o) PROVE Contract!Next
  <2>1. o \notin stopped /\ stopped' = stopped \cup {o} /\ UNCHANGED <<started, signals>>
    BY <1>5 DEF RequestStop
  <2>2. Contract!Ask(o)
    BY <2>1 DEF Contract!Ask, Begun, Received
  <2> QED
    BY <2>2 DEF Contract!Next
<1>6. CASE \/ \E o \in Ops : IoFinishes(o) \/ StopIo(o) \/ StopAborts(o)
           \/ \E p \in Pumps : GetMany(p)
  <2>1. UNCHANGED <<started, stopped, signals>>
    BY <1>6 DEF IoFinishes, StopIo, TryStop, StopAborts, GetMany
  <2> QED
    BY <2>1, QuietContract
<1>7. ASSUME NEW s \in Sockets, Make(s) PROVE UNCHANGED vars
  BY <1>7 DEF Make
<1> QED
  BY <1>1, <1>2, <1>3, <1>4, <1>5, <1>6, <1>7, SignalContract DEF SocketNext, socketVars, HandleEntry

----------------------------------------------------------------------------
(* Theorems *)

\* The invariant of operations and sockets together, for any number of both.
THEOREM SocketCorrect == SocketSpec => []SocketInv
<1> QED
  BY InitSocket, SocketStep, PTL DEF SocketSpec

\* Nobody holds anything but known operations, open handles and known entries.
THEOREM SocketTypeCorrect == SocketSpec => [](TypeOK /\ HandlesTypeOK)
<1>1. SocketInv => TypeOK /\ HandlesTypeOK
  BY DEF SocketInv, OperationInv
<1> QED
  BY <1>1, SocketCorrect, PTL

\* However many operations race with stop requests, pumps and closed sockets, none
\* is destroyed while the kernel, the port, a thread or its stop callback has it.
THEOREM SocketOutlivesRequests == SocketSpec => []OutlivesItsRequest
<1>1. SocketInv => OutlivesItsRequest
  BY DEF SocketInv, OperationInv, OneHolder, OnItsWay, OutlivesItsRequest
<1> QED
  BY <1>1, SocketCorrect, PTL

\* No failed connect or accept, and no failed read into buffers that have room, is
\* ever reported as a success.
THEOREM SocketHonest == SocketSpec => []NoFalseSuccess
<1>1. SocketInv => NoFalseSuccess
  BY DEF SocketInv, OperationInv
<1> QED
  BY <1>1, SocketCorrect, PTL

\* No handle leaks or is closed twice, by any sequence of moves, assignments,
\* accepts and closes.
THEOREM SocketHandlesOwned == SocketSpec => []HandlesOwned
<1>1. SocketInv => HandlesOwned
  BY DEF SocketInv
<1> QED
  BY <1>1, SocketCorrect, PTL

\* Every operation is a sender as SenderContract says, also while sockets are moved
\* and closed: one signal after start(), and done only after a stop request.
THEOREM SocketImplementsContract == SocketSpec => ImplementsContract
<1>1. SocketInit => Contract!Init
  BY InitContract
<1>2. SocketInv /\ [SocketNext]_socketVars => [Contract!Next]_(Contract!contractVars)
  BY StepContract
<1> QED
  BY <1>1, <1>2, SocketCorrect, PTL DEF SocketSpec, ImplementsContract, Contract!Spec
=============================================================================

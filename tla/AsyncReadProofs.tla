--------------------------- MODULE AsyncReadProofs ---------------------------
(***************************************************************************)
(* Proofs about AsyncRead, for any number of reads and pumps, any sector   *)
(* size and any file: the pages of a read have one owner at a time, are    *)
(* freed once, and a success means all bytes.                              *)
(***************************************************************************)
EXTENDS AsyncRead, SequenceTheorems, TLAPS

USE DEF Port!Post

----------------------------------------------------------------------------
(* Sizes and offsets *)

LEMMA RounddownIsInteger ==
  ASSUME NEW v \in Int, NEW m \in Nat \ {0} PROVE Rounddown(v, m) \in Int
<1>1. v \div m \in Int
  OBVIOUS
<1>2. \A a, b \in Int : a * b \in Int
  OBVIOUS
<1> QED
  BY <1>1, <1>2 DEF Rounddown

LEMMA ReadNumbers ==
  ASSUME TypeOK, NEW r \in Reads
  PROVE  Asked(r) \in Nat /\ Stored(r) \in Nat /\ Delta(r) \in Int /\ request[r].size \in Nat
<1>1. /\ request[r].offset \in Nat /\ request[r].size \in Nat
      /\ Sector \in Nat \ {0} /\ DwordLimit \in Nat \ {0} /\ FileSize \in Nat
  <2>1. request[r] \in [offset : Offsets, size : Sizes]
    BY DEF TypeOK
  <2>2. request[r].offset \in Offsets /\ request[r].size \in Sizes
    BY <2>1
  <2>3. DwordLimit \in Nat /\ Sizes \subseteq 1..DwordLimit - 1
    BY AsyncReadAssumption
  <2>4. request[r].size \in Nat
    <3>1. \A n \in 1..DwordLimit - 1 : n \in Nat
      BY <2>3
    <3>2. request[r].size \in 1..DwordLimit - 1
      BY <2>2, <2>3
    <3> QED
      BY <3>1, <3>2
  <2> QED
    BY <2>2, <2>4, AsyncReadAssumption
<1>2. Offset(r) \in Int
  BY <1>1, RounddownIsInteger DEF Offset
<1>3. Rounddown(request[r].offset + request[r].size, Sector) \in Int
  BY <1>1, RounddownIsInteger
<1>4. Size(r) \in Int
  BY <1>1, <1>2, <1>3 DEF Size, Roundup
<1>5. Asked(r) \in Nat
  <2>1. \A a \in Int, n \in Nat \ {0} : a % n \in Nat
    OBVIOUS
  <2> QED
    BY <1>1, <1>4, <2>1 DEF Asked
<1>6. Stored(r) \in Nat
  BY <1>1, <1>2, <1>5 DEF Stored
<1> QED
  BY <1>1, <1>2, <1>5, <1>6 DEF Delta

\* What InvokeReadEnd tests is that the bytes the user asked for have been stored.
LEMMA EnoughIsAll ==
  ASSUME TypeOK, NEW r \in Reads, Enough(r, Stored(r)) PROVE Content(r) = "all"
BY ReadNumbers DEF Enough, Content

----------------------------------------------------------------------------
(* Where entries are *)

\* A read that is nowhere goes to the kernel.
LEMMA ReadIssued ==
  ASSUME TypeOK, EntriesOnce, NEW r \in Reads, ~OnItsWay(r),
         pending' = pending \cup {r}, UNCHANGED <<port, batch>>
  PROVE  /\ EntriesOnce' /\ OnItsWay(r)'
         /\ \A x \in Reads : x # r => (OnItsWay(x)' <=> OnItsWay(x))
BY DEF EntriesOnce, OnItsWay, Mentions

\* The kernel ends a read: its entry is in the port.
LEMMA EntryPosted ==
  ASSUME TypeOK, EntriesOnce, TrueEntries, NEW r \in pending,
         NEW e \in Entries, e.read = r, TrueEntry(e),
         pending' = pending \ {r}, Port!Post(e), UNCHANGED <<settings, batch>>
  PROVE  /\ port' \in Seq(Entries) /\ EntriesOnce' /\ TrueEntries'
         /\ \A x \in Reads : OnItsWay(x)' <=> OnItsWay(x)
<1>1. /\ port' \in Seq(Entries) /\ Len(port') = Len(port) + 1
      /\ \A k \in 1..Len(port) : port'[k] = port[k]
      /\ port'[Len(port) + 1] = e
  BY AppendProperties DEF TypeOK
<1>2. Len(port) \in Nat
  BY LenProperties DEF TypeOK
<1>3. /\ \A k \in 1..Len(port) : port[k].read # r
      /\ \A p \in Pumps : \A k \in 1..Len(batch[p]) : batch[p][k].read # r
  BY DEF EntriesOnce, Mentions
<1>4. EntriesOnce'
  <2>1. \A j, k \in 1..Len(port') : port'[j].read = port'[k].read => j = k
    BY <1>1, <1>2, <1>3 DEF EntriesOnce
  <2>2. \A j \in 1..Len(port'), p \in Pumps : \A k \in 1..Len(batch'[p]) :
           port'[j].read # batch'[p][k].read
    BY <1>1, <1>2, <1>3 DEF EntriesOnce
  <2>3. \A x \in pending' : ~Mentions(port, x)' /\ \A p \in Pumps : ~Mentions(batch[p], x)'
    BY <1>1, <1>2 DEF EntriesOnce, Mentions
  <2> QED
    BY <2>1, <2>2, <2>3 DEF EntriesOnce
<1>5. \A x \in Reads : OnItsWay(x)' <=> OnItsWay(x)
  <2>1. ASSUME NEW x \in Reads PROVE Mentions(port, x)' <=> Mentions(port, x) \/ x = r
    <3>1. Len(port) + 1 \in 1..Len(port') /\ \A k \in 1..Len(port) : k \in 1..Len(port')
      BY <1>1, <1>2
    <3>2. \A k \in 1..Len(port') : k \in 1..Len(port) \/ k = Len(port) + 1
      BY <1>1, <1>2
    <3> QED
      BY <1>1, <3>1, <3>2 DEF Mentions
  <2>2. \A x \in Reads, p \in Pumps : Mentions(batch[p], x)' <=> Mentions(batch[p], x)
    BY DEF Mentions
  <2> QED
    BY <2>1, <2>2 DEF OnItsWay
<1>6. TrueEntries'
  <2>1. \A x : Stored(x)' = Stored(x)
    BY DEF settings, Stored, Offset, Asked, Size, Roundup
  <2>2. ASSUME NEW k \in 1..Len(port') PROVE TrueEntry(port'[k])
    BY <1>1, <1>2 DEF TrueEntries
  <2>3. ASSUME NEW p \in Pumps, NEW k \in 1..Len(batch'[p]) PROVE TrueEntry(batch'[p][k])
    BY DEF TrueEntries
  <2> QED
    BY <2>1, <2>2, <2>3 DEF TrueEntries, TrueEntry
<1> QED
  BY <1>1, <1>4, <1>5, <1>6

\* get_many gives a pump the oldest entries.
LEMMA EntriesFetched ==
  ASSUME TypeOK, EntriesOnce, TrueEntries, NEW p \in Pumps, GetMany(p)
  PROVE  /\ port' \in Seq(Entries) /\ batch' \in [Pumps -> Seq(Entries)]
         /\ EntriesOnce' /\ TrueEntries'
         /\ \A x \in Reads : OnItsWay(x)' <=> OnItsWay(x)
         /\ \A x \in Reads : AtHead(x) => AtHead(x)'
<1>0. batch[p] = <<>> /\ UNCHANGED <<settings, pending>> /\ Len(port) \in Nat
  BY LenProperties DEF GetMany, TypeOK
<1>1. PICK n \in 1..Len(port) : Port!GetMany(n) /\ batch' = [batch EXCEPT ![p] = Port!OldestMany(n)]
  BY DEF GetMany
<1>2. /\ SubSeq(port, 1, n) \in Seq(Entries) /\ Len(SubSeq(port, 1, n)) = n
      /\ \A k \in 1..n : SubSeq(port, 1, n)[k] = port[k]
  BY <1>0, SubSeqProperties DEF TypeOK
<1>3. /\ SubSeq(port, n + 1, Len(port)) \in Seq(Entries)
      /\ Len(SubSeq(port, n + 1, Len(port))) = Len(port) - n
      /\ \A k \in 1..(Len(port) - n) : SubSeq(port, n + 1, Len(port))[k] = port[k + n]
  BY <1>0, SubSeqProperties DEF TypeOK
<1>4. Port!OldestMany(n) = SubSeq(port, 1, n)
  <2>1. (IF n < Len(port) THEN n ELSE Len(port)) = n
    BY <1>0
  <2> QED
    BY <2>1 DEF Port!OldestMany
<1>5. port' = SubSeq(port, n + 1, Len(port))
  BY <1>1, <1>2, <1>4 DEF Port!GetMany
<1>6. /\ batch'[p] = SubSeq(port, 1, n) /\ \A q \in Pumps : q # p => batch'[q] = batch[q]
      /\ batch' \in [Pumps -> Seq(Entries)]
  BY <1>1, <1>2, <1>4 DEF TypeOK
<1>7. \A k \in 1..Len(port') : port'[k] = port[k + n] /\ k + n \in 1..Len(port) /\ k \in Nat
  BY <1>0, <1>3, <1>5
<1>8. \A k \in 1..Len(batch'[p]) : batch'[p][k] = port[k] /\ k \in 1..Len(port) /\ k <= n
  BY <1>0, <1>2, <1>6
<1>9. \A x : Mentions(port, x) <=> Mentions(port', x) \/ Mentions(batch'[p], x)
  <2>1. ASSUME NEW x, NEW k \in 1..Len(port), port[k].read = x
        PROVE  Mentions(port', x) \/ Mentions(batch'[p], x)
    <3>1. CASE k <= n
      <4>1. k \in 1..Len(batch'[p]) /\ batch'[p][k] = port[k]
        BY <1>0, <1>2, <1>6, <3>1
      <4> QED
        BY <2>1, <4>1 DEF Mentions
    <3>2. CASE k > n
      <4>1. k - n \in 1..Len(port') /\ k - n + n = k
        BY <1>0, <1>3, <1>5, <3>2
      <4>2. port'[k - n] = port[k]
        BY <1>7, <4>1
      <4> QED
        BY <2>1, <4>1, <4>2 DEF Mentions
    <3> QED
      BY <1>0, <3>1, <3>2
  <2>2. ASSUME NEW x, Mentions(port', x) \/ Mentions(batch'[p], x) PROVE Mentions(port, x)
    BY <1>7, <1>8, <2>2 DEF Mentions
  <2> QED
    BY <2>1, <2>2 DEF Mentions
<1>10. ASSUME NEW x \in Reads PROVE OnItsWay(x)' <=> OnItsWay(x)
  <2>1. ~Mentions(batch[p], x)
    BY <1>0, EmptySeq DEF Mentions
  <2>2. \A q \in Pumps : q # p => (Mentions(batch'[q], x) <=> Mentions(batch[q], x))
    BY <1>6
  <2>3. OnItsWay(x)' <=> x \in pending \/ Mentions(port', x) \/ \E q \in Pumps : Mentions(batch'[q], x)
    BY <1>0 DEF OnItsWay, Mentions
  <2> QED
    BY <1>9, <2>1, <2>2, <2>3 DEF OnItsWay
<1>11. ASSUME NEW x \in Reads, AtHead(x) PROVE AtHead(x)'
  BY <1>0, <1>6, <1>11 DEF AtHead
<1>12. EntriesOnce'
  <2>1. ASSUME NEW j \in 1..Len(port'), NEW k \in 1..Len(port'), port'[j].read = port'[k].read
        PROVE  j = k
    <3>1. j + n = k + n
      BY <1>7, <2>1 DEF EntriesOnce
    <3> QED
      BY <1>0, <1>7, <3>1
  <2>2. ASSUME NEW q \in Pumps, NEW u \in Pumps,
               NEW j \in 1..Len(batch'[q]), NEW k \in 1..Len(batch'[u]),
               batch'[q][j].read = batch'[u][k].read
        PROVE  q = u /\ j = k
    <3>1. CASE q = p /\ u = p
      BY <1>8, <2>2, <3>1 DEF EntriesOnce
    <3>2. CASE q = p /\ u # p
      <4>1. batch'[u] = batch[u] /\ k \in 1..Len(batch[u])
        BY <1>6, <3>2
      <4>2. j \in 1..Len(port) /\ port[j].read = batch[u][k].read
        BY <1>8, <2>2, <3>2, <4>1
      <4> QED
        BY <4>1, <4>2 DEF EntriesOnce
    <3>3. CASE q # p /\ u = p
      BY <1>6, <1>8, <2>2, <3>3 DEF EntriesOnce
    <3>4. CASE q # p /\ u # p
      BY <1>6, <2>2, <3>4 DEF EntriesOnce
    <3> QED
      BY <3>1, <3>2, <3>3, <3>4
  <2>3. ASSUME NEW j \in 1..Len(port'), NEW q \in Pumps, NEW k \in 1..Len(batch'[q])
        PROVE  port'[j].read # batch'[q][k].read
    <3>1. CASE q = p
      <4>1. /\ j + n # k /\ j + n \in 1..Len(port) /\ port'[j] = port[j + n]
            /\ k \in 1..Len(port) /\ batch'[q][k] = port[k]
        BY <1>0, <1>7, <1>8, <3>1
      <4>2. port[j + n].read # port[k].read
        BY <4>1 DEF EntriesOnce
      <4> QED
        BY <4>1, <4>2
    <3>2. CASE q # p
      <4>1. batch'[q] = batch[q] /\ k \in 1..Len(batch[q])
        BY <1>6, <3>2
      <4>2. j + n \in 1..Len(port) /\ port'[j] = port[j + n]
        BY <1>7
      <4>3. \A i \in 1..Len(port) : port[i].read # batch[q][k].read
        BY <4>1 DEF EntriesOnce
      <4>4. port[j + n].read # batch[q][k].read
        BY <4>2, <4>3
      <4> QED
        BY <4>1, <4>2, <4>4
    <3> QED
      BY <3>1, <3>2
  <2>4. ASSUME NEW x \in pending'
        PROVE  ~Mentions(port, x)' /\ \A q \in Pumps : ~Mentions(batch[q], x)'
    <3>1. x \in pending /\ ~Mentions(port, x) /\ \A q \in Pumps : ~Mentions(batch[q], x)
      BY <1>0 DEF EntriesOnce
    <3>2. ~Mentions(port', x) /\ \A q \in Pumps : ~Mentions(batch'[q], x)
      BY <1>6, <1>9, <3>1
    <3> QED
      BY <3>2 DEF Mentions
  <2> QED
    BY <2>1, <2>2, <2>3, <2>4 DEF EntriesOnce
<1>13. TrueEntries'
  <2>1. \A x : Stored(x)' = Stored(x)
    BY <1>0 DEF settings, Stored, Offset, Asked, Size, Roundup
  <2>2. \A k \in 1..Len(port') : TrueEntry(port'[k])
    BY <1>7 DEF TrueEntries
  <2>3. ASSUME NEW q \in Pumps, NEW k \in 1..Len(batch'[q]) PROVE TrueEntry(batch'[q][k])
    BY <1>6, <1>8 DEF TrueEntries
  <2> QED
    BY <2>1, <2>2, <2>3 DEF TrueEntries, TrueEntry
<1> QED
  BY <1>3, <1>5, <1>6, <1>10, <1>11, <1>12, <1>13

\* A pump has done with an entry, which was the only one of its read.
LEMMA EntryDone ==
  ASSUME TypeOK, EntriesOnce, TrueEntries, UNCHANGED <<settings, pending, port>>,
         NEW p \in Pumps, batch[p] # <<>>, batch' = [batch EXCEPT ![p] = Tail(@)],
         NEW r \in Reads, r = Head(batch[p]).read
  PROVE  /\ batch' \in [Pumps -> Seq(Entries)] /\ EntriesOnce' /\ TrueEntries'
         /\ OnItsWay(r) /\ ~OnItsWay(r)'
         /\ \A x \in Reads : x # r => (OnItsWay(x)' <=> OnItsWay(x)) /\ (AtHead(x) => AtHead(x)')
<1>1. /\ batch[p] \in Seq(Entries) /\ Len(batch[p]) \in Nat \ {0}
      /\ Head(batch[p]) = batch[p][1]
  BY HeadTailProperties, LenProperties, EmptySeq DEF TypeOK
<1>2. /\ Tail(batch[p]) \in Seq(Entries) /\ Len(Tail(batch[p])) = Len(batch[p]) - 1
      /\ \A k \in 1..(Len(batch[p]) - 1) : Tail(batch[p])[k] = batch[p][k + 1]
  BY <1>1, HeadTailProperties
<1>3. /\ batch'[p] = Tail(batch[p]) /\ \A q \in Pumps : q # p => batch'[q] = batch[q]
      /\ batch' \in [Pumps -> Seq(Entries)]
  BY <1>2 DEF TypeOK
<1>4. \A k \in 1..Len(batch'[p]) :
         batch'[p][k] = batch[p][k + 1] /\ k + 1 \in 1..Len(batch[p]) /\ k \in Nat /\ k + 1 # 1
  BY <1>1, <1>2, <1>3
<1>5. 1 \in 1..Len(batch[p]) /\ batch[p][1].read = r
  BY <1>1
<1>6. EntriesOnce'
  <2>1. ASSUME NEW q \in Pumps, NEW u \in Pumps,
               NEW j \in 1..Len(batch'[q]), NEW k \in 1..Len(batch'[u]),
               batch'[q][j].read = batch'[u][k].read
        PROVE  q = u /\ j = k
    <3>1. CASE q = p /\ u = p
      BY <1>4, <2>1, <3>1 DEF EntriesOnce
    <3>2. CASE q = p /\ u # p
      BY <1>3, <1>4, <2>1, <3>2 DEF EntriesOnce
    <3>3. CASE q # p /\ u = p
      BY <1>3, <1>4, <2>1, <3>3 DEF EntriesOnce
    <3>4. CASE q # p /\ u # p
      BY <1>3, <2>1, <3>4 DEF EntriesOnce
    <3> QED
      BY <3>1, <3>2, <3>3, <3>4
  <2>2. ASSUME NEW j \in 1..Len(port), NEW q \in Pumps, NEW k \in 1..Len(batch'[q])
        PROVE  port[j].read # batch'[q][k].read
    BY <1>3, <1>4 DEF EntriesOnce
  <2>3. ASSUME NEW x \in pending
        PROVE  ~Mentions(port, x)' /\ \A q \in Pumps : ~Mentions(batch[q], x)'
    <3>1. ~Mentions(port, x) /\ \A q \in Pumps : ~Mentions(batch[q], x)
      BY DEF EntriesOnce
    <3> QED
      BY <1>3, <1>4, <3>1 DEF Mentions
  <2> QED
    BY <2>1, <2>2, <2>3 DEF EntriesOnce
<1>7. ~OnItsWay(r)'
  <2>1. r \notin pending /\ \A k \in 1..Len(port) : port[k].read # r
    BY <1>5 DEF EntriesOnce, Mentions
  <2>2. ASSUME NEW q \in Pumps, NEW k \in 1..Len(batch'[q]) PROVE batch'[q][k].read # r
    <3>1. CASE q = p
      <4>1. batch'[q][k] = batch[p][k + 1] /\ k + 1 \in 1..Len(batch[p]) /\ k + 1 # 1
        BY <1>4, <3>1
      <4>2. batch[p][k + 1].read # batch[p][1].read
        BY <1>5, <4>1 DEF EntriesOnce
      <4> QED
        BY <1>5, <4>1, <4>2
    <3>2. CASE q # p
      BY <1>3, <1>5, <3>2 DEF EntriesOnce
    <3> QED
      BY <3>1, <3>2
  <2> QED
    BY <2>1, <2>2 DEF OnItsWay, Mentions
<1>8. ASSUME NEW x \in Reads, x # r PROVE (OnItsWay(x)' <=> OnItsWay(x)) /\ (AtHead(x) => AtHead(x)')
  <2>1. Mentions(batch[p], x) <=> Mentions(batch'[p], x)
    <3>1. ASSUME NEW k \in 1..Len(batch[p]), batch[p][k].read = x PROVE Mentions(batch'[p], x)
      <4>1. k - 1 \in 1..Len(batch'[p]) /\ k - 1 + 1 = k
        BY <1>1, <1>2, <1>3, <1>5, <1>8, <3>1
      <4> QED
        BY <1>4, <3>1, <4>1 DEF Mentions
    <3> QED
      BY <1>4, <3>1 DEF Mentions
  <2>2. OnItsWay(x)' <=> x \in pending \/ Mentions(port, x) \/ \E q \in Pumps : Mentions(batch'[q], x)
    BY DEF OnItsWay, Mentions
  <2>3. \A q \in Pumps : Mentions(batch'[q], x) <=> Mentions(batch[q], x)
    BY <1>3, <2>1
  <2>4. AtHead(x) => AtHead(x)'
    BY <1>3, <1>8 DEF AtHead
  <2> QED
    BY <2>2, <2>3, <2>4 DEF OnItsWay
<1>9. TrueEntries'
  <2>1. \A x : Stored(x)' = Stored(x)
    BY DEF settings, Stored, Offset, Asked, Size, Roundup
  <2>2. \A k \in 1..Len(port') : TrueEntry(port'[k])
    BY DEF TrueEntries
  <2>3. ASSUME NEW q \in Pumps, NEW k \in 1..Len(batch'[q]) PROVE TrueEntry(batch'[q][k])
    BY <1>3, <1>4 DEF TrueEntries
  <2> QED
    BY <2>1, <2>2, <2>3 DEF TrueEntries, TrueEntry
<1>10. OnItsWay(r)
  BY <1>5 DEF OnItsWay, Mentions
<1> QED
  BY <1>3, <1>6, <1>7, <1>8, <1>9, <1>10

----------------------------------------------------------------------------
(* Steps *)

\* The steps that change no entry
LEMMA SameEntries ==
  ASSUME EntriesOnce, TrueEntries, UNCHANGED <<settings, pending, port, batch>>
  PROVE  /\ EntriesOnce' /\ TrueEntries'
         /\ \A x \in Reads : (OnItsWay(x)' <=> OnItsWay(x)) /\ (AtHead(x) => AtHead(x)')
<1>1. \A x : Stored(x)' = Stored(x)
  BY DEF settings, Stored, Offset, Asked, Size, Roundup
<1>2. TrueEntries'
  BY <1>1 DEF TrueEntries, TrueEntry
<1>3. EntriesOnce'
  BY DEF EntriesOnce, Mentions
<1> QED
  BY <1>2, <1>3 DEF OnItsWay, AtHead, Mentions

\* InvokeReadEnd: the pages go to the task exactly when it has data, and the status
\* says so.
LEMMA EndOfRead ==
  ASSUME TypeOK, NEW r \in Reads, NEW failed \in BOOLEAN, NEW bytes, ReadEnds(r, failed, bytes)
  PROVE  /\ pages' \in [Reads -> Owners] /\ status' \in [Reads -> BOOLEAN]
         /\ data' \in [Reads -> Contents] /\ ending' \in [Reads -> BOOLEAN]
         /\ ending'[r] /\ (status'[r] <=> data'[r] = "nothing")
         /\ pages'[r] = IF data'[r] = "nothing" THEN "freed" ELSE "task"
         /\ (~failed => bytes = Stored(r)) => data'[r] \in {"nothing", "all"}
         /\ \A x \in Reads : x # r =>
               /\ pages'[x] = pages[x] /\ status'[x] = status[x]
               /\ data'[x] = data[x] /\ ending'[x] = ending[x]
<1>1. PICK o \in Owners, f \in BOOLEAN, d \in Contents :
         /\ pages' = [pages EXCEPT ![r] = o] /\ status' = [status EXCEPT ![r] = f]
         /\ data' = [data EXCEPT ![r] = d] /\ ending' = [ending EXCEPT ![r] = TRUE]
         /\ f <=> d = "nothing"
         /\ o = IF d = "nothing" THEN "freed" ELSE "task"
         /\ (~failed => bytes = Stored(r)) => d \in {"nothing", "all"}
  <2>1. CASE ~failed /\ Enough(r, bytes)
    <3>1. /\ Content(r) \in Contents /\ Content(r) # "nothing" /\ "task" \in Owners
          /\ FALSE \in BOOLEAN
      BY DEF Content, Contents, Owners
    <3>2. bytes = Stored(r) => Content(r) = "all"
      BY <2>1, EnoughIsAll
    <3>3. /\ pages' = [pages EXCEPT ![r] = "task"] /\ status' = [status EXCEPT ![r] = FALSE]
          /\ data' = [data EXCEPT ![r] = Content(r)] /\ ending' = [ending EXCEPT ![r] = TRUE]
      BY <2>1 DEF ReadEnds
    <3> QED
      BY <2>1, <3>1, <3>2, <3>3, Zenon
  <2>2. CASE ~(~failed /\ Enough(r, bytes))
    <3>1. "nothing" \in Contents /\ "freed" \in Owners /\ TRUE \in BOOLEAN
      BY DEF Contents, Owners
    <3>2. /\ pages' = [pages EXCEPT ![r] = "freed"] /\ status' = [status EXCEPT ![r] = TRUE]
          /\ data' = [data EXCEPT ![r] = "nothing"] /\ ending' = [ending EXCEPT ![r] = TRUE]
      BY <2>2 DEF ReadEnds, ReadFails
    <3> QED
      BY <3>1, <3>2, Zenon
  <2> QED
    BY <2>1, <2>2
<1>2. /\ pages \in [Reads -> Owners] /\ status \in [Reads -> BOOLEAN]
      /\ data \in [Reads -> Contents] /\ ending \in [Reads -> BOOLEAN]
  BY DEF TypeOK
<1> QED
  BY <1>1, <1>2

\* A coroutine that goes on has what its task had.
LEMMA GoOnOfRead ==
  ASSUME TypeOK, NEW r \in Reads, GoOn(r)
  PROVE  /\ pages' \in [Reads -> Owners] /\ result' \in [Reads -> Results \cup {None}]
         /\ data' \in [Reads -> Contents] /\ alive' \in [Reads -> BOOLEAN]
         /\ ~alive'[r] /\ data'[r] = "nothing"
         /\ result'[r] = [failed |-> status[r], data |-> data[r]] /\ result'[r] # None
         /\ pages'[r] = IF data[r] = "nothing" THEN pages[r] ELSE "client"
         /\ \A x \in Reads : x # r =>
               /\ pages'[x] = pages[x] /\ data'[x] = data[x]
               /\ alive'[x] = alive[x] /\ result'[x] = result[x]
<1>1. data[r] \in Contents /\ status[r] \in BOOLEAN
  BY DEF TypeOK
<1>2. [failed |-> status[r], data |-> data[r]] \in Results
  BY <1>1 DEF Results
<1>3. [failed |-> status[r], data |-> data[r]] # None
  <2>1. data[r] # "none"
    BY <1>1 DEF Contents
  <2> QED
    BY <2>1 DEF None
<1> QED
  BY <1>1, <1>2, <1>3 DEF GoOn, TypeOK, Owners, Contents

\* on_end is over.
LEMMA ResumeOfRead ==
  ASSUME TypeOK, NEW r \in Reads, Resume(r)
  PROVE  /\ ending' \in [Reads -> BOOLEAN] /\ ~ending'[r]
         /\ \A x \in Reads : x # r => ending'[x] = ending[x]
         /\ IF alive[r] THEN GoOn(r) ELSE UNCHANGED <<result, pages, data, alive>>
  BY DEF Resume, TypeOK

LEMMA InitRead == Init => ReadInv
<1> SUFFICES ASSUME Init PROVE ReadInv
  OBVIOUS
<1>1. \A S : <<>> \in Seq(S) /\ Len(<<>>) = 0
  BY EmptySeq
<1>2. /\ port = <<>> /\ pending = {} /\ \A p \in Pumps : batch[p] = <<>>
      /\ \A k \in 1..Len(<<>>) : FALSE
  BY <1>1 DEF Init, Port!PortInit
<1>3. TypeOK
  <2>1. oneThread \in BOOLEAN
    BY DEF Init
  <2> QED
    BY <1>1, <2>1 DEF Init, TypeOK, Port!PortInit, Labels, Owners, Contents
<1>4. EntriesOnce /\ TrueEntries /\ \A r \in Reads : ~OnItsWay(r)
  BY <1>2 DEF EntriesOnce, TrueEntries, OnItsWay, Mentions
<1>5. OneOwner
  BY <1>4 DEF Init, OneOwner
<1>6. NothingInBetween /\ StatusOfData /\ SuccessGivesAllBytes
  BY DEF Init, NothingInBetween, StatusOfData, SuccessGivesAllBytes
<1> QED
  BY <1>3, <1>4, <1>5, <1>6 DEF ReadInv

LEMMA ReadStutters ==
  ASSUME ReadInv, UNCHANGED vars PROVE ReadInv'
<1>1. UNCHANGED <<settings, pending, port, batch>> /\ UNCHANGED <<pc, pages, taskVars>>
  BY DEF vars, kernelVars
<1>2. /\ EntriesOnce' /\ TrueEntries'
      /\ \A x \in Reads : (OnItsWay(x)' <=> OnItsWay(x)) /\ (AtHead(x) => AtHead(x)')
  BY <1>1, SameEntries DEF ReadInv
<1>3. TypeOK'
  BY <1>1 DEF ReadInv, TypeOK, settings, taskVars
<1>4. OneOwner'
  BY <1>1, <1>2 DEF ReadInv, OneOwner, taskVars
<1>5. NothingInBetween' /\ StatusOfData' /\ SuccessGivesAllBytes'
  BY <1>1 DEF ReadInv, NothingInBetween, StatusOfData, SuccessGivesAllBytes, taskVars, settings
<1> QED
  BY <1>2, <1>3, <1>4, <1>5 DEF ReadInv

\* await_suspend up to the call of ReadFile
LEMMA AwaitSuspendStep ==
  ASSUME ReadInv, NEW r \in Reads, AwaitSuspend(r) PROVE ReadInv'
<1>1. /\ pc[r] = "idle" /\ pc' = [pc EXCEPT ![r] = "issue"]
      /\ pages' = [pages EXCEPT ![r] = "request"]
      /\ UNCHANGED <<settings, pending, port, batch>> /\ UNCHANGED taskVars
  BY DEF AwaitSuspend, Goto, kernelVars
<1>2. /\ EntriesOnce' /\ TrueEntries'
      /\ \A x \in Reads : (OnItsWay(x)' <=> OnItsWay(x)) /\ (AtHead(x) => AtHead(x)')
  BY <1>1, SameEntries DEF ReadInv
<1>3. TypeOK'
  BY <1>1 DEF ReadInv, TypeOK, settings, taskVars, Labels, Owners
<1>4. OneOwner'
  BY <1>1, <1>2 DEF ReadInv, OneOwner, TypeOK, taskVars
<1>5. NothingInBetween' /\ StatusOfData' /\ SuccessGivesAllBytes'
  BY <1>1 DEF ReadInv, NothingInBetween, StatusOfData, OneOwner, TypeOK, SuccessGivesAllBytes, taskVars, settings
<1> QED
  BY <1>2, <1>3, <1>4, <1>5 DEF ReadInv

\* ReadFile ends at once, with success or with an error.
LEMMA ReadReturnsStep ==
  ASSUME ReadInv, NEW r \in Reads, ReadFinished(r) \/ ReadRefused(r) PROVE ReadInv'
<1>1. /\ pc[r] = "issue" /\ pc' = [pc EXCEPT ![r] = "inside"]
      /\ UNCHANGED <<settings, pending, port, batch>> /\ UNCHANGED <<alive, result, twice>>
      /\ \/ ReadEnds(r, FALSE, Asked(r)) /\ syncReads
         \/ ReadEnds(r, TRUE, 0)
  BY DEF ReadFinished, ReadRefused, ReadEnds, Goto, kernelVars
<1>2. /\ EntriesOnce' /\ TrueEntries'
      /\ \A x \in Reads : (OnItsWay(x)' <=> OnItsWay(x)) /\ (AtHead(x) => AtHead(x)')
  BY <1>1, SameEntries DEF ReadInv
<1>3. PICK failed, bytes : failed \in BOOLEAN /\ ReadEnds(r, failed, bytes) /\ (~failed => syncReads)
  BY <1>1
<1>4. TypeOK
  BY DEF ReadInv
<1>5. /\ pages' \in [Reads -> Owners] /\ status' \in [Reads -> BOOLEAN]
      /\ data' \in [Reads -> Contents] /\ ending' \in [Reads -> BOOLEAN]
      /\ ending'[r] /\ (status'[r] <=> data'[r] = "nothing")
      /\ pages'[r] = IF data'[r] = "nothing" THEN "freed" ELSE "task"
      /\ (~failed => bytes = Stored(r)) => data'[r] \in {"nothing", "all"}
      /\ \A x \in Reads : x # r =>
            /\ pages'[x] = pages[x] /\ status'[x] = status[x]
            /\ data'[x] = data[x] /\ ending'[x] = ending[x]
  BY <1>3, <1>4, EndOfRead
<1>6. TypeOK'
  BY <1>1, <1>4, <1>5 DEF TypeOK, settings, Labels
<1>7. pc'[r] = "inside" /\ \A x \in Reads : x # r => pc'[x] = pc[x]
  BY <1>1, <1>4 DEF TypeOK
<1>8. OneOwner'
  BY <1>1, <1>2, <1>5, <1>7 DEF ReadInv, OneOwner
<1>9. NothingInBetween' /\ StatusOfData'
  BY <1>1, <1>3, <1>5, <1>7 DEF ReadInv, NothingInBetween, StatusOfData, settings
<1>10. SuccessGivesAllBytes'
  BY <1>1 DEF ReadInv, SuccessGivesAllBytes, settings
<1> QED
  BY <1>2, <1>6, <1>8, <1>9, <1>10 DEF ReadInv

\* ReadFile leaves the read pending.
LEMMA ReadPendingStep ==
  ASSUME ReadInv, NEW r \in Reads, ReadPending(r) PROVE ReadInv'
<1>1. /\ pc[r] = "issue" /\ pc' = [pc EXCEPT ![r] = "return"]
      /\ pending' = pending \cup {r}
      /\ UNCHANGED <<port, batch>> /\ UNCHANGED settings /\ UNCHANGED <<pages, taskVars>>
  BY DEF ReadPending, Goto
<1>2. TypeOK /\ EntriesOnce /\ ~OnItsWay(r)
  BY <1>1 DEF ReadInv, OneOwner
<1>3. /\ EntriesOnce' /\ OnItsWay(r)'
      /\ \A x \in Reads : x # r => (OnItsWay(x)' <=> OnItsWay(x))
  BY <1>1, <1>2, ReadIssued
<1>4. TrueEntries' /\ \A x \in Reads : AtHead(x)' <=> AtHead(x)
  <2>1. \A x : Stored(x)' = Stored(x)
    BY <1>1 DEF settings, Stored, Offset, Asked, Size, Roundup
  <2> QED
    BY <1>1, <2>1 DEF ReadInv, TrueEntries, TrueEntry, AtHead
<1>5. TypeOK'
  BY <1>1, <1>2 DEF TypeOK, settings, taskVars, Labels
<1>6. OneOwner'
  BY <1>1, <1>2, <1>3, <1>4 DEF ReadInv, OneOwner, TypeOK, taskVars
<1>7. NothingInBetween' /\ StatusOfData'
  BY <1>1, <1>2 DEF ReadInv, NothingInBetween, StatusOfData, OneOwner, TypeOK, settings, taskVars
<1>8. SuccessGivesAllBytes'
  BY <1>1 DEF ReadInv, SuccessGivesAllBytes, settings, taskVars
<1> QED
  BY <1>3, <1>4, <1>5, <1>6, <1>7, <1>8 DEF ReadInv

\* A coroutine goes on inside await_suspend.
LEMMA ResumeInsideStep ==
  ASSUME ReadInv, NEW r \in Reads, ResumeInside(r) PROVE ReadInv'
<1>1. /\ pc[r] = "inside" /\ pc' = [pc EXCEPT ![r] = "return"] /\ Resume(r)
      /\ UNCHANGED <<settings, pending, port, batch>> /\ UNCHANGED <<status, twice>>
  BY DEF ResumeInside, Goto, kernelVars
<1>2. /\ TypeOK /\ ~OnItsWay(r) /\ alive[r] /\ ending[r]
      /\ pages[r] = IF data[r] = "nothing" THEN "freed" ELSE "task"
  BY <1>1 DEF ReadInv, OneOwner
<1>3. /\ EntriesOnce' /\ TrueEntries'
      /\ \A x \in Reads : (OnItsWay(x)' <=> OnItsWay(x)) /\ (AtHead(x) => AtHead(x)')
  BY <1>1, SameEntries DEF ReadInv
<1>4. pc'[r] = "return" /\ \A x \in Reads : x # r => pc'[x] = pc[x]
  BY <1>1, <1>2 DEF TypeOK
<1>5. TypeOK'
  BY <1>1, <1>2, ResumeOfRead, GoOnOfRead DEF TypeOK, settings, Labels
<1>6. /\ ~ending'[r] /\ ~alive'[r] /\ data'[r] = "nothing"
      /\ result'[r] = [failed |-> status[r], data |-> data[r]] /\ result'[r] # None
      /\ pages'[r] = IF data[r] = "nothing" THEN "freed" ELSE "client"
      /\ \A x \in Reads : x # r =>
            /\ pages'[x] = pages[x] /\ data'[x] = data[x] /\ ending'[x] = ending[x]
            /\ alive'[x] = alive[x] /\ result'[x] = result[x]
  BY <1>1, <1>2, ResumeOfRead, GoOnOfRead
<1>7. OneOwner'
  BY <1>1, <1>2, <1>3, <1>4, <1>6 DEF ReadInv, OneOwner
<1>8. NothingInBetween' /\ StatusOfData'
  BY <1>1, <1>4, <1>6 DEF ReadInv, NothingInBetween, StatusOfData, settings
<1>9. SuccessGivesAllBytes'
  BY <1>1, <1>2, <1>6 DEF ReadInv, StatusOfData, SuccessGivesAllBytes, settings
<1> QED
  BY <1>3, <1>5, <1>7, <1>8, <1>9 DEF ReadInv

\* The last write of await_suspend
LEMMA ClearErrorStep ==
  ASSUME ReadInv, NEW r \in Reads, ClearError(r) PROVE ReadInv'
<1>1. /\ pc[r] = "return" /\ pc' = [pc EXCEPT ![r] = "test"]
      /\ status' = [status EXCEPT ![r] = IF alive[r] THEN FALSE ELSE @]
      /\ UNCHANGED <<settings, pending, port, batch>>
      /\ UNCHANGED <<pages, data, ending, alive, result, twice>>
  BY DEF ClearError, Goto, kernelVars
<1>2. /\ EntriesOnce' /\ TrueEntries'
      /\ \A x \in Reads : (OnItsWay(x)' <=> OnItsWay(x)) /\ (AtHead(x) => AtHead(x)')
  BY <1>1, SameEntries DEF ReadInv
<1>3. TypeOK
  BY DEF ReadInv
<1>4. /\ pc'[r] = "test" /\ (alive[r] => ~status'[r])
      /\ \A x \in Reads : x # r => pc'[x] = pc[x] /\ status'[x] = status[x]
      /\ pc' \in [Reads -> Labels] /\ status' \in [Reads -> BOOLEAN]
  BY <1>1, <1>3 DEF TypeOK, Labels
<1>5. TypeOK'
  BY <1>1, <1>3, <1>4 DEF TypeOK, settings
<1>6. OneOwner'
  BY <1>1, <1>2, <1>4 DEF ReadInv, OneOwner
<1>7. NothingInBetween' /\ StatusOfData' /\ SuccessGivesAllBytes'
  BY <1>1, <1>4 DEF ReadInv, NothingInBetween, StatusOfData, SuccessGivesAllBytes, settings
<1> QED
  BY <1>2, <1>5, <1>6, <1>7 DEF ReadInv

\* await_suspend returns: true, or false, after which the coroutine goes on.
LEMMA AwaitSuspendEndStep ==
  ASSUME ReadInv, NEW r \in Reads, AwaitSuspendEnd(r) PROVE ReadInv'
<1>1. /\ pc[r] = "test" /\ pc' = [pc EXCEPT ![r] = "out"]
      /\ UNCHANGED <<settings, pending, port, batch>> /\ UNCHANGED <<status, ending>>
  BY DEF AwaitSuspendEnd, Goto, kernelVars
<1>2. /\ EntriesOnce' /\ TrueEntries'
      /\ \A x \in Reads : (OnItsWay(x)' <=> OnItsWay(x)) /\ (AtHead(x) => AtHead(x)')
  BY <1>1, SameEntries DEF ReadInv
<1>3. TypeOK
  BY DEF ReadInv
<1>4. pc'[r] = "out" /\ pc' \in [Reads -> Labels] /\ \A x \in Reads : x # r => pc'[x] = pc[x]
  BY <1>1, <1>3 DEF TypeOK, Labels
<1>5. CASE UNCHANGED <<pages, data, alive, result, twice>>
  <2>1. TypeOK'
    BY <1>1, <1>3, <1>4, <1>5 DEF TypeOK, settings
  <2>2. OneOwner'
    BY <1>1, <1>2, <1>4, <1>5 DEF ReadInv, OneOwner
  <2>3. NothingInBetween' /\ StatusOfData' /\ SuccessGivesAllBytes'
    BY <1>1, <1>4, <1>5 DEF ReadInv, NothingInBetween, StatusOfData, SuccessGivesAllBytes, settings
  <2> QED
    BY <1>2, <2>1, <2>2, <2>3 DEF ReadInv
<1>6. CASE FindsError(r) /\ twice' = twice \cup {r} /\ alive[r] /\ GoOn(r)
  <2>1. /\ status[r] /\ ending[r] /\ data[r] = "nothing" /\ pages[r] = "freed"
        /\ ~oneThread /\ r \in twice' /\ twice' \subseteq Reads
    BY <1>1, <1>3, <1>6 DEF ReadInv, OneOwner, NothingInBetween, FindsError, TypeOK
  <2>2. /\ pages' \in [Reads -> Owners] /\ result' \in [Reads -> Results \cup {None}]
        /\ data' \in [Reads -> Contents] /\ alive' \in [Reads -> BOOLEAN]
        /\ ~alive'[r] /\ data'[r] = "nothing" /\ result'[r] # None /\ pages'[r] = "freed"
        /\ \A x \in Reads : x # r =>
              /\ pages'[x] = pages[x] /\ data'[x] = data[x]
              /\ alive'[x] = alive[x] /\ result'[x] = result[x]
    BY <1>3, <1>6, <2>1, GoOnOfRead
  <2>3. TypeOK'
    BY <1>1, <1>3, <1>4, <2>1, <2>2 DEF TypeOK, settings
  <2>4. OneOwner'
    BY <1>1, <1>2, <1>4, <1>6, <2>1, <2>2 DEF ReadInv, OneOwner
  <2>5. NothingInBetween' /\ StatusOfData' /\ SuccessGivesAllBytes'
    BY <1>1, <2>1 DEF NothingInBetween, StatusOfData, SuccessGivesAllBytes, settings
  <2> QED
    BY <1>2, <2>3, <2>4, <2>5 DEF ReadInv
<1>7. CASE /\ FindsError(r) /\ twice' = twice \cup {r} /\ ~alive[r]
           /\ UNCHANGED <<pages, data, alive, result>>
  <2>1. ~oneThread
    BY <1>7 DEF FindsError
  <2>2. TypeOK'
    BY <1>1, <1>3, <1>4, <1>7 DEF TypeOK, settings
  <2>3. OneOwner'
    BY <1>1, <1>2, <1>4, <1>7 DEF ReadInv, OneOwner
  <2>4. NothingInBetween' /\ StatusOfData' /\ SuccessGivesAllBytes'
    BY <1>1, <2>1 DEF NothingInBetween, StatusOfData, SuccessGivesAllBytes, settings
  <2> QED
    BY <1>2, <2>2, <2>3, <2>4 DEF ReadInv
<1> QED
  BY <1>5, <1>6, <1>7 DEF AwaitSuspendEnd

\* The end of a ReadBuffer
LEMMA DropResultStep ==
  ASSUME ReadInv, NEW r \in Reads, DropResult(r) PROVE ReadInv'
<1>1. /\ pages[r] = "client" /\ pages' = [pages EXCEPT ![r] = "freed"]
      /\ UNCHANGED <<settings, pending, port, batch>> /\ UNCHANGED <<pc, taskVars>>
  BY DEF DropResult, kernelVars
<1>2. /\ EntriesOnce' /\ TrueEntries'
      /\ \A x \in Reads : (OnItsWay(x)' <=> OnItsWay(x)) /\ (AtHead(x) => AtHead(x)')
  BY <1>1, SameEntries DEF ReadInv
<1>3. TypeOK /\ ~alive[r] /\ ~ending[r]
  BY <1>1 DEF ReadInv, OneOwner
<1>4. TypeOK'
  BY <1>1, <1>3 DEF TypeOK, settings, taskVars, Owners
<1>5. pages'[r] = "freed" /\ \A x \in Reads : x # r => pages'[x] = pages[x]
  BY <1>1, <1>3 DEF TypeOK
<1>6. OneOwner'
  BY <1>1, <1>2, <1>3, <1>5 DEF ReadInv, OneOwner, taskVars
<1>7. NothingInBetween' /\ StatusOfData' /\ SuccessGivesAllBytes'
  BY <1>1 DEF ReadInv, NothingInBetween, StatusOfData, SuccessGivesAllBytes, settings, taskVars
<1> QED
  BY <1>2, <1>4, <1>6, <1>7 DEF ReadInv

\* The kernel ends a pending read.
LEMMA KernelStep ==
  ASSUME ReadInv, NEW r \in Reads, KernelReads(r) \/ KernelFails(r) PROVE ReadInv'
<1>1. TypeOK /\ EntriesOnce /\ TrueEntries
  BY DEF ReadInv
<1>2. PICK failed \in BOOLEAN, bytes \in Nat :
         Complete(r, failed, bytes) /\ (~failed => bytes = Stored(r))
  BY <1>1, ReadNumbers DEF KernelReads, KernelFails
<1>3. /\ Entry(r, failed, bytes) \in Entries /\ Entry(r, failed, bytes).read = r
      /\ TrueEntry(Entry(r, failed, bytes))
  BY <1>2 DEF Entry, Entries, TrueEntry
<1>4. /\ r \in pending /\ pending' = pending \ {r} /\ Port!Post(Entry(r, failed, bytes))
      /\ UNCHANGED <<settings, batch>> /\ UNCHANGED <<pc, pages, taskVars>>
  BY <1>2 DEF Complete
<1>5. /\ port' \in Seq(Entries) /\ EntriesOnce' /\ TrueEntries'
      /\ \A x \in Reads : OnItsWay(x)' <=> OnItsWay(x)
  BY <1>1, <1>3, <1>4, EntryPosted
<1>6. \A x \in Reads : AtHead(x)' <=> AtHead(x)
  BY <1>4 DEF AtHead
<1>7. TypeOK'
  BY <1>1, <1>4, <1>5 DEF TypeOK, settings, taskVars
<1>8. OneOwner'
  BY <1>4, <1>5, <1>6 DEF ReadInv, OneOwner, taskVars
<1>9. NothingInBetween' /\ StatusOfData' /\ SuccessGivesAllBytes'
  BY <1>4 DEF ReadInv, NothingInBetween, StatusOfData, SuccessGivesAllBytes, settings, taskVars
<1> QED
  BY <1>5, <1>7, <1>8, <1>9 DEF ReadInv

LEMMA GetManyStep ==
  ASSUME ReadInv, NEW p \in Pumps, GetMany(p) PROVE ReadInv'
<1>1. TypeOK /\ EntriesOnce /\ TrueEntries
  BY DEF ReadInv
<1>2. UNCHANGED <<settings, pc, pages, taskVars, pending>>
  BY DEF GetMany
<1>3. /\ port' \in Seq(Entries) /\ batch' \in [Pumps -> Seq(Entries)]
      /\ EntriesOnce' /\ TrueEntries'
      /\ \A x \in Reads : (OnItsWay(x)' <=> OnItsWay(x)) /\ (AtHead(x) => AtHead(x)')
  BY <1>1, EntriesFetched
<1>4. TypeOK'
  BY <1>1, <1>2, <1>3 DEF TypeOK, settings, taskVars
<1>5. OneOwner'
  BY <1>2, <1>3 DEF ReadInv, OneOwner, taskVars
<1>6. NothingInBetween' /\ StatusOfData' /\ SuccessGivesAllBytes'
  BY <1>2 DEF ReadInv, NothingInBetween, StatusOfData, SuccessGivesAllBytes, settings, taskVars
<1> QED
  BY <1>3, <1>4, <1>5, <1>6 DEF ReadInv

\* The entry a pump is at
LEMMA HeadOfBatch ==
  ASSUME TypeOK, NEW p \in Pumps, batch[p] # <<>>
  PROVE  /\ Head(batch[p]) \in Entries /\ Head(batch[p]).read \in Reads
         /\ OnItsWay(Head(batch[p]).read) /\ AtHead(Head(batch[p]).read)
         /\ TrueEntries => TrueEntry(Head(batch[p]))
<1>1. /\ batch[p] \in Seq(Entries) /\ Len(batch[p]) \in Nat \ {0}
      /\ Head(batch[p]) = batch[p][1] /\ Head(batch[p]) \in Entries
  BY HeadTailProperties, LenProperties, EmptySeq DEF TypeOK
<1>2. 1 \in 1..Len(batch[p])
  BY <1>1
<1> QED
  BY <1>1, <1>2 DEF OnItsWay, Mentions, AtHead, TrueEntries, Entries

\* A pump ends the read of its entry.
LEMMA HandleEntryStep ==
  ASSUME ReadInv, NEW p \in Pumps, HandleEntry(p) PROVE ReadInv'
<1> DEFINE e == Head(batch[p])
           r == e.read
<1>1. TypeOK
  BY DEF ReadInv
<1>2. /\ batch[p] # <<>> /\ UNCHANGED <<settings, pending, port, batch>>
      /\ UNCHANGED <<pc, alive, result, twice>>
      /\ (oneThread => pc[r] = "out") /\ ~ending[r] /\ ReadEnds(r, e.failed, e.bytes)
  BY DEF HandleEntry, kernelVars
<1>3. e \in Entries /\ r \in Reads /\ OnItsWay(r) /\ AtHead(r) /\ TrueEntry(e)
  BY <1>1, <1>2, HeadOfBatch DEF ReadInv
<1>4. e.failed \in BOOLEAN /\ (~e.failed => e.bytes = Stored(r))
  BY <1>3 DEF Entries, TrueEntry
<1> HIDE DEF e, r
<1>5. /\ EntriesOnce' /\ TrueEntries'
      /\ \A x \in Reads : (OnItsWay(x)' <=> OnItsWay(x)) /\ (AtHead(x) => AtHead(x)')
  BY <1>2, SameEntries DEF ReadInv
<1>6. /\ pages' \in [Reads -> Owners] /\ status' \in [Reads -> BOOLEAN]
      /\ data' \in [Reads -> Contents] /\ ending' \in [Reads -> BOOLEAN]
      /\ ending'[r] /\ (status'[r] <=> data'[r] = "nothing")
      /\ pages'[r] = IF data'[r] = "nothing" THEN "freed" ELSE "task"
      /\ data'[r] \in {"nothing", "all"}
      /\ \A x \in Reads : x # r =>
            /\ pages'[x] = pages[x] /\ status'[x] = status[x]
            /\ data'[x] = data[x] /\ ending'[x] = ending[x]
  BY <1>1, <1>2, <1>3, <1>4, EndOfRead
<1>7. TypeOK'
  BY <1>1, <1>2, <1>6 DEF TypeOK, settings
<1>8. OneOwner'
  BY <1>2, <1>3, <1>5, <1>6 DEF ReadInv, OneOwner
<1>9. NothingInBetween' /\ StatusOfData'
  BY <1>2, <1>3, <1>6 DEF ReadInv, NothingInBetween, StatusOfData, settings
<1>10. SuccessGivesAllBytes'
  BY <1>2 DEF ReadInv, SuccessGivesAllBytes, settings
<1> QED
  BY <1>5, <1>7, <1>8, <1>9, <1>10 DEF ReadInv

\* The coroutine of that read goes on, and the pump takes its next entry.
LEMMA ResumeFromPumpStep ==
  ASSUME ReadInv, NEW p \in Pumps, ResumeFromPump(p) PROVE ReadInv'
<1>1. TypeOK /\ EntriesOnce /\ TrueEntries
  BY DEF ReadInv
<1>2. /\ batch[p] # <<>> /\ UNCHANGED <<settings, pending, port>> /\ UNCHANGED <<pc, status, twice>>
      /\ batch' = [batch EXCEPT ![p] = Tail(@)]
  BY DEF ResumeFromPump, kernelVars
<1>3. PICK r \in Reads : r = Head(batch[p]).read /\ OnItsWay(r) /\ ending[r] /\ Resume(r)
  BY <1>1, <1>2, HeadOfBatch DEF ResumeFromPump
<1>4. /\ batch' \in [Pumps -> Seq(Entries)] /\ EntriesOnce' /\ TrueEntries' /\ ~OnItsWay(r)'
      /\ \A x \in Reads : x # r => (OnItsWay(x)' <=> OnItsWay(x)) /\ (AtHead(x) => AtHead(x)')
  BY <1>1, <1>2, <1>3, EntryDone
<1>5. /\ pages[r] = IF data[r] = "nothing" THEN "freed" ELSE "task"
      /\ pc[r] \notin {"idle", "issue", "inside"}
  BY <1>2, <1>3 DEF ReadInv, OneOwner
<1>6. /\ ending' \in [Reads -> BOOLEAN] /\ ~ending'[r]
      /\ \A x \in Reads : x # r => ending'[x] = ending[x]
      /\ IF alive[r] THEN GoOn(r) ELSE UNCHANGED <<result, pages, data, alive>>
  BY <1>1, <1>3, ResumeOfRead
<1>7. CASE alive[r]
  <2>1. /\ pages' \in [Reads -> Owners] /\ result' \in [Reads -> Results \cup {None}]
        /\ data' \in [Reads -> Contents] /\ alive' \in [Reads -> BOOLEAN]
        /\ ~alive'[r] /\ data'[r] = "nothing"
        /\ result'[r] = [failed |-> status[r], data |-> data[r]] /\ result'[r] # None
        /\ pages'[r] = IF data[r] = "nothing" THEN "freed" ELSE "client"
        /\ \A x \in Reads : x # r =>
              /\ pages'[x] = pages[x] /\ data'[x] = data[x]
              /\ alive'[x] = alive[x] /\ result'[x] = result[x]
    BY <1>1, <1>5, <1>6, <1>7, GoOnOfRead
  <2>2. TypeOK'
    BY <1>1, <1>2, <1>4, <1>6, <2>1 DEF TypeOK, settings
  <2>3. pages'[r] \in {"client", "freed"} /\ (pages'[r] = "client" => result'[r].data # "nothing")
    BY <2>1
  <2>4. OneOwner'
    BY <1>2, <1>3, <1>4, <1>5, <1>6, <2>1, <2>3 DEF ReadInv, OneOwner
  <2>5. NothingInBetween' /\ StatusOfData'
    BY <1>2, <1>6, <2>1 DEF ReadInv, NothingInBetween, StatusOfData, settings
  <2>6. SuccessGivesAllBytes'
    BY <1>2, <1>3, <2>1 DEF ReadInv, StatusOfData, SuccessGivesAllBytes, settings
  <2> QED
    BY <1>4, <2>2, <2>4, <2>5, <2>6 DEF ReadInv
<1>8. CASE ~alive[r]
  <2>1. UNCHANGED <<result, pages, data, alive>>
    BY <1>6, <1>8
  <2>2. TypeOK'
    BY <1>1, <1>2, <1>4, <1>6, <2>1 DEF TypeOK, settings
  <2>3. OneOwner'
    BY <1>2, <1>3, <1>4, <1>5, <1>6, <1>8, <2>1 DEF ReadInv, OneOwner
  <2>4. NothingInBetween' /\ StatusOfData' /\ SuccessGivesAllBytes'
    BY <1>2, <1>6, <2>1 DEF ReadInv, NothingInBetween, StatusOfData, SuccessGivesAllBytes, settings
  <2> QED
    BY <1>4, <2>2, <2>3, <2>4 DEF ReadInv
<1> QED
  BY <1>7, <1>8

LEMMA ReadStep == ReadInv /\ [Next]_vars => ReadInv'
<1> SUFFICES ASSUME ReadInv, [Next]_vars PROVE ReadInv'
  OBVIOUS
<1>1. CASE UNCHANGED vars
  BY <1>1, ReadStutters
<1>2. ASSUME NEW r \in Reads, Await(r) PROVE ReadInv'
  BY <1>2, AwaitSuspendStep, ReadReturnsStep, ReadPendingStep, ResumeInsideStep,
     ClearErrorStep, AwaitSuspendEndStep DEF Await
<1>3. ASSUME NEW r \in Reads, DropResult(r) \/ KernelReads(r) \/ KernelFails(r) PROVE ReadInv'
  BY <1>3, DropResultStep, KernelStep
<1>4. ASSUME NEW p \in Pumps, Pump(p) PROVE ReadInv'
  BY <1>4, GetManyStep, HandleEntryStep, ResumeFromPumpStep DEF Pump
<1> QED
  BY <1>1, <1>2, <1>3, <1>4 DEF Next

----------------------------------------------------------------------------
(* Theorems *)

\* The invariant of reads, for any number of them and of pumps.
THEOREM ReadCorrect == Spec => []ReadInv
<1> QED
  BY InitRead, ReadStep, PTL DEF Spec

\* A read, its task, its result and its entry are in states the code gives them.
THEOREM ReadTypeCorrect == Spec => []TypeOK
<1>1. ReadInv => TypeOK
  BY DEF ReadInv
<1> QED
  BY <1>1, ReadCorrect, PTL

\* Whether ReadFile ends at once or later, and however many pumps there are: while
\* the kernel, the port or a pump can reach the OVERLAPPED, its pages are not freed
\* and its task is not destroyed; then the pages have one owner.  The task is there
\* to the end of on_end, but for reads whose await_suspend has returned false.
THEOREM ReadPagesOutlive == Spec => []PagesOutliveTheRead
<1>1. ReadInv => PagesOutliveTheRead
  <2> SUFFICES ASSUME ReadInv, NEW r \in Reads
               PROVE  /\ InFlight(r) => pages[r] = "request" /\ alive[r] /\ ~ending[r]
                      /\ ending[r] => alive[r] \/ r \in twice
                      /\ pages[r] = "task" <=> ending[r] /\ data[r] # "nothing"
                      /\ result[r] # None => pages[r] \in {"client", "freed"}
                      /\ pages[r] = "client" => result[r].data # "nothing"
    BY DEF PagesOutliveTheRead
  <2>1. TypeOK /\ EntriesOnce /\ OneOwner
    BY DEF ReadInv
  <2>2. InFlight(r) => OnItsWay(r)
    BY DEF InFlight, OnItsWay, Mentions
  <2>3. ASSUME InFlight(r), ending[r] PROVE FALSE
    <3>1. AtHead(r)
      BY <2>1, <2>2, <2>3 DEF OneOwner
    <3>2. PICK p \in Pumps : batch[p] # <<>> /\ Head(batch[p]).read = r
      BY <3>1 DEF AtHead
    <3>3. 1 \in 1..Len(batch[p]) /\ batch[p][1].read = r
      <4>1. Len(batch[p]) \in Nat \ {0} /\ Head(batch[p]) = batch[p][1]
        BY <2>1, <3>2, HeadTailProperties, LenProperties, EmptySeq DEF TypeOK
      <4> QED
        BY <3>2, <4>1
    <3>4. r \notin pending /\ \A k \in 1..Len(port) : port[k].read # r
      BY <2>1, <3>3 DEF EntriesOnce, Mentions
    <3>5. \A q \in Pumps : \A k \in 1..Len(batch[q]) : batch[q][k].read = r => k = 1
      BY <2>1, <3>3 DEF EntriesOnce
    <3> QED
      BY <2>3, <3>4, <3>5 DEF InFlight
  <2>4. InFlight(r) => pc[r] \notin {"idle", "issue", "inside"}
    BY <2>1, <2>2 DEF OneOwner
  <2> QED
    BY <2>1, <2>2, <2>3, <2>4 DEF OneOwner
<1> QED
  BY <1>1, ReadCorrect, PTL

\* On the pump's thread await_suspend never returns false, so with the theorem
\* before every task is there to the end of on_end, and no coroutine is resumed by
\* two threads.
THEOREM ReadResumedOnce == Spec => []ResumedOnce
<1>1. ReadInv => ResumedOnce
  BY DEF ReadInv, NothingInBetween, ResumedOnce
<1> QED
  BY <1>1, ReadCorrect, PTL

\* On one thread, for requests that are pending: no error means that the bytes
\* that were asked for are there, for any sector size, offset, size and file.
THEOREM ReadSuccessIsAll == Spec => []SuccessGivesAllBytes
<1>1. ReadInv => SuccessGivesAllBytes
  BY DEF ReadInv
<1> QED
  BY <1>1, ReadCorrect, PTL
=============================================================================

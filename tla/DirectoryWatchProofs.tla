------------------------ MODULE DirectoryWatchProofs ------------------------
(***************************************************************************)
(* Proofs about DirectoryWatch, for any number of threads, changes, moves  *)
(* and entries of others, and all clients but the loop in the header: the  *)
(* OVERLAPPED and the buffer of a DirectoryChanges have one user at a      *)
(* time (WatchInv); the iterator of its reader stays inside the buffer,    *)
(* and no change is read twice (ReadInv).                                  *)
(***************************************************************************)
EXTENDS DirectoryWatch, OffsetsProofs, SequenceTheorems, FiniteSetTheorems, TLAPS

USE DEF Port!Post

LEMMA Bounds ==
  /\ Threads # {} /\ Capacity \in Nat \ {0} /\ MaxChanges \in Nat /\ MaxOthers \in Nat
  /\ MaxFailures \in Nat /\ MaxRefusals \in Nat /\ MaxMoves \in Nat
BY WatchAssumption

----------------------------------------------------------------------------
(* Entries of the port *)

LEMMA EntryPosted ==
  ASSUME port \in Seq(Entries), NEW e \in Entries, Port!Post(e), UNCHANGED object
  PROVE  /\ port' \in Seq(Entries) /\ Len(port') = Len(port) + 1 /\ Len(port) \in Nat
         /\ \A k \in 1..Len(port) : port'[k] = port[k]
         /\ port'[Len(port) + 1] = e
         /\ Own' = IF IsDirectoryChange(e) THEN Own \cup {Len(port) + 1} ELSE Own
<1>1. /\ port' \in Seq(Entries) /\ Len(port') = Len(port) + 1 /\ Len(port) \in Nat
      /\ \A k \in 1..Len(port) : port'[k] = port[k]
      /\ port'[Len(port) + 1] = e
  BY AppendProperties, LenProperties
<1>2. 1..Len(port') = 1..Len(port) \cup {Len(port) + 1} /\ Len(port) + 1 \notin 1..Len(port)
  BY <1>1
<1>3. Own' = IF IsDirectoryChange(e) THEN Own \cup {Len(port) + 1} ELSE Own
  BY <1>1, <1>2 DEF Own, IsDirectoryChange
<1> QED
  BY <1>1, <1>3

LEMMA EntryTaken ==
  ASSUME port \in Seq(Entries), Port!Get, UNCHANGED object, NEW e, e = Port!Oldest
  PROVE  /\ port' \in Seq(Entries) /\ e \in Entries /\ e = port[1]
         /\ \A k \in 1..Len(port') : k + 1 \in 1..Len(port) /\ port'[k] = port[k + 1] /\ k + 1 # 1
         /\ \A k \in Own' : k + 1 \in Own
         /\ Own = 1..Len(port) => Own' = 1..Len(port')
         /\ IsDirectoryChange(e) <=> 1 \in Own
<1>1. /\ port # <<>> /\ port' = Tail(port) /\ e = Head(port) /\ e \in Entries
      /\ port' \in Seq(Entries) /\ Len(port') = Len(port) - 1 /\ Len(port) \in Nat \ {0}
      /\ \A k \in 1..Len(port') : port'[k] = port[k + 1]
  BY HeadTailProperties, LenProperties, EmptySeq DEF Port!Get, Port!Oldest
<1>2. e = port[1] /\ 1 \in 1..Len(port)
  BY <1>1
<1>3. \A k \in 1..Len(port') : k + 1 \in 1..Len(port) /\ k + 1 # 1
  BY <1>1
<1>4. \A k \in Own' : k + 1 \in Own
  BY <1>1, <1>3 DEF Own, IsDirectoryChange
<1>5. Own = 1..Len(port) => Own' = 1..Len(port')
  BY <1>1, <1>3 DEF Own, IsDirectoryChange
<1>6. IsDirectoryChange(e) <=> 1 \in Own
  BY <1>2 DEF Own
<1> QED
  BY <1>1, <1>2, <1>3, <1>4, <1>5, <1>6

\* An entry whose content the kernel wrote is not one of a failure.
LEMMA ValidHasContent ==
  ASSUME NEW e, IsValidDirectoryChange(e)
  PROVE  IsDirectoryChange(e) /\ e.content # <<>>
<1>1. Lengths(<<>>) = <<>>
  BY DEF Lengths
<1>2. BytesTransferred(<<>>) = 0
  BY DEF BytesTransferred
<1> QED
  BY <1>1, <1>2 DEF IsValidDirectoryChange

LEMMA ContentsTyped ==
  ASSUME NEW S, NEW s \in Seq(S) PROVE Contents(s) \subseteq S
BY LenProperties DEF Contents

LEMMA OwnEntry ==
  ASSUME NEW s, NEW ok PROVE IsDirectoryChange(Entry(object, s, ok))
BY DEF IsDirectoryChange, Entry

----------------------------------------------------------------------------
(* The kernel *)

LEMMA InitWatch == "header" \notin Clients /\ Init => WatchInv
<1> SUFFICES ASSUME "header" \notin Clients, Init PROVE WatchInv
  OBVIOUS
<1>1. \A S : <<>> \in Seq(S) /\ Len(<<>>) = 0
  BY EmptySeq
<1>2. reads = <<>> /\ port = <<>> /\ buffer = <<>> /\ kept = <<>>
  BY DEF Init, Port!PortInit
<1>3. PICK main \in Threads : at = [t \in Threads |-> IF t = main THEN "start"
                                 ELSE IF client \in {"header", "careful"} THEN "wait"
                                 ELSE "absent"]
  BY Bounds DEF Init
<1>4. object = [ov |-> 1, key |-> 1] /\ \A k \in 1..Len(<<>>) : FALSE
  BY <1>1 DEF Init
<1>5. WatchTypeOK
  <2>1. /\ client \in Clients
        /\ changes \in 0..MaxChanges /\ others \in 0..MaxOthers
        /\ failures \in 0..MaxFailures /\ refusals \in 0..MaxRefusals /\ moves \in 0..MaxMoves
    BY Bounds DEF Init
  <2>2. object \in Objects
    BY <1>4 DEF Objects
  <2>3. kept \in Seq(1..MaxChanges) /\ Len(kept) <= Capacity
    BY <1>1, <1>2, Bounds
  <2>4. reads \in Seq(Objects) /\ buffer \in Seq(1..MaxChanges) /\ port \in Seq(Entries)
    BY <1>1, <1>2
  <2>5. at \in [Threads -> {"absent", "wait", "read", "start", "aborted"}] /\ DOMAIN range = Threads
    BY <1>3 DEF Init
  <2>6. watching \in BOOLEAN /\ overflow \in BOOLEAN /\ deaf \in BOOLEAN /\ lost \subseteq 1..MaxChanges
    BY DEF Init
  <2> QED
    BY <2>1, <2>2, <2>3, <2>4, <2>5, <2>6 DEF WatchTypeOK
<1>6. Own = {} /\ 1..Len(port) = {}
  BY <1>2, <1>4 DEF Own
<1>7. OneUser
  BY <1>1, <1>2, <1>3, <1>6 DEF OneUser, Active
<1>8. OldObjects
  BY <1>1, <1>2, <1>4, <1>6 DEF OldObjects
<1>9. BufferOfEntry
  BY <1>6 DEF BufferOfEntry, Init
<1>10. client # "header"
  BY DEF Init
<1> QED
  BY <1>5, <1>7, <1>8, <1>9, <1>10 DEF WatchInv

\* The kernel ends the oldest read.
LEMMA ReadEnds ==
  ASSUME WatchInv, reads # <<>>, reads' = Tail(reads),
         NEW s \in Seq(1..MaxChanges), NEW ok \in BOOLEAN,
         Port!Post(Entry(Head(reads), s, ok)), s # <<>> => buffer' = s,
         UNCHANGED <<client, object, at, range>>
  PROVE  /\ OneUser' /\ OldObjects' /\ BufferOfEntry'
         /\ reads' \in Seq(Objects) /\ port' \in Seq(Entries)
<1> DEFINE r == Head(reads)  e == Entry(r, s, ok)
<1>1. /\ r \in Objects /\ r = reads[1] /\ reads' = <<>> /\ reads' \in Seq(Objects)
      /\ reads \in Seq(Objects) /\ Len(reads) = 1
  <2>1. reads \in Seq(Objects) /\ Len(reads) <= 1
    BY DEF WatchInv, OneUser, WatchTypeOK
  <2>2. Len(reads) = 1
    <3>1. Len(reads) # 0
      BY <2>1, EmptySeq
    <3>2. Len(reads) \in Nat
      BY <2>1, LenProperties
    <3>3. \A n \in Nat : n <= 1 /\ n # 0 => n = 1
      OBVIOUS
    <3> QED
      BY <2>1, <3>1, <3>2, <3>3
  <2>3. /\ r \in Objects /\ reads' \in Seq(Objects) /\ Len(reads') = 0
    BY <2>1, <2>2, HeadTailProperties
  <2>4. r = reads[1]
    BY <2>1
  <2>5. reads' = <<>>
    BY <2>3, EmptySeq
  <2> QED
    BY <2>1, <2>2, <2>3, <2>4, <2>5
<1>2. e \in Entries /\ e.ov = r.ov /\ e.key = r.key /\ e.content = s
  BY <1>1 DEF Entry, Entries, Objects
<1>3. Port!Post(e)
  OBVIOUS
<1>4. Own = {} /\ Active = {} /\ Active' = {}
  BY DEF WatchInv, OneUser, Active
<1> HIDE DEF e, r
<1>5. /\ port' \in Seq(Entries) /\ Len(port') = Len(port) + 1 /\ Len(port) \in Nat
      /\ \A k \in 1..Len(port) : port'[k] = port[k]
      /\ port'[Len(port) + 1] = e
      /\ Own' = IF IsDirectoryChange(e) THEN Own \cup {Len(port) + 1} ELSE Own
  BY <1>2, <1>3, EntryPosted DEF WatchInv, WatchTypeOK
<1>6. OneUser'
  <2>1. Len(reads') <= 1
    BY <1>1
  <2>2. \A j, k \in Own' : j = k
    BY <1>4, <1>5
  <2> QED
    BY <1>1, <1>4, <2>1, <2>2 DEF OneUser
<1>7. \A k \in 1..Len(port') : k \in 1..Len(port) \/ k = Len(port) + 1
  BY <1>5
<1>8. OldObjects'
  <2>1. r.ov <= object.ov /\ r.key <= object.key
    BY <1>1 DEF WatchInv, OldObjects
  <2>2. client \in {"fs_changes_print", "verbose"} => IsDirectoryChange(e) /\ 1..Len(port) = {}
    BY <1>1, <1>2, <1>4 DEF WatchInv, OldObjects, IsDirectoryChange
  <2>3. client \in {"fs_changes_print", "verbose"} => Own' = 1..Len(port')
    <3> SUFFICES ASSUME client \in {"fs_changes_print", "verbose"} PROVE Own' = 1..Len(port')
      OBVIOUS
    <3>1. Len(port) = 0
      <4>1. 1 \notin 1..Len(port)
        BY <2>2
      <4> QED
        BY <1>5, <4>1
    <3>2. Own' = {1} /\ 1..Len(port') = {1}
      BY <1>4, <1>5, <2>2, <3>1
    <3> QED
      BY <3>2
  <2>4. \A k \in 1..Len(reads') : FALSE
    BY <1>1, EmptySeq
  <2> QED
    BY <1>2, <1>5, <1>7, <2>1, <2>3, <2>4 DEF WatchInv, OldObjects
<1>9. BufferOfEntry'
  <2>1. \A t \in Threads : range[t] = NoRange
    BY <1>4 DEF WatchInv, BufferOfEntry, Active
  <2>2. \A t \in Threads : at'[t] # "read"
    BY <1>4 DEF Active
  <2> QED
    BY <1>2, <1>4, <1>5, <2>1, <2>2 DEF BufferOfEntry
<1> QED
  BY <1>1, <1>5, <1>6, <1>8, <1>9

LEMMA ChangeStep ==
  ASSUME WatchInv, Change PROVE WatchInv'
<1>1. /\ changes' \in 1..MaxChanges /\ changes' \in 0..MaxChanges
      /\ UNCHANGED <<client, others, failures, refusals, moves, object, watching, at, range, deaf>>
  BY Bounds DEF Change, WatchInv, WatchTypeOK, threadVars
<1>2. CASE reads # <<>>
  <2>1. /\ buffer' = <<changes'>> /\ Port!Post(Entry(Head(reads), <<changes'>>, TRUE))
        /\ reads' = Tail(reads) /\ UNCHANGED <<kept, overflow, lost>>
    BY <1>2 DEF Change, Report
  <2>2. <<changes'>> \in Seq(1..MaxChanges)
    BY <1>1
  <2>3. /\ OneUser' /\ OldObjects' /\ BufferOfEntry'
        /\ reads' \in Seq(Objects) /\ port' \in Seq(Entries)
    BY <1>1, <1>2, <2>1, <2>2, ReadEnds
  <2>4. WatchTypeOK'
    BY <1>1, <2>1, <2>2, <2>3 DEF WatchInv, WatchTypeOK
  <2> QED
    BY <1>1, <2>3, <2>4 DEF WatchInv
<1>3. CASE reads = <<>>
  <2>1. UNCHANGED <<reads, buffer, port>>
    BY <1>3 DEF Change
  <2>2. /\ kept' \in Seq(1..MaxChanges) /\ Len(kept') <= Capacity
        /\ overflow' \in BOOLEAN /\ lost' \subseteq 1..MaxChanges
    <3>1. kept \in Seq(1..MaxChanges) /\ Len(kept) <= Capacity /\ Contents(kept) \subseteq 1..MaxChanges
      BY ContentsTyped DEF WatchInv, WatchTypeOK
    <3>2. CASE kept' = Append(kept, changes') /\ Len(kept) # Capacity /\ UNCHANGED <<overflow, lost>>
      <4>1. kept' \in Seq(1..MaxChanges) /\ Len(kept') = Len(kept) + 1
        BY <1>1, <3>1, <3>2, AppendProperties
      <4> QED
        BY <3>1, <3>2, <4>1, LenProperties, Bounds DEF WatchInv, WatchTypeOK
    <3>3. CASE kept' = <<>> /\ overflow' = TRUE /\ lost' = lost \cup {changes'} \cup Contents(kept)
      <4>1. kept' \in Seq(1..MaxChanges) /\ Len(kept') = 0
        BY <3>3
      <4>2. lost' \subseteq 1..MaxChanges
        BY <1>1, <3>1, <3>3 DEF WatchInv, WatchTypeOK
      <4>3. Len(kept') <= Capacity
        BY <4>1, Bounds
      <4> QED
        BY <3>3, <4>1, <4>2, <4>3
    <3>4. CASE lost' = lost \cup {changes'} /\ UNCHANGED <<kept, overflow>>
      BY <1>1, <3>1, <3>4 DEF WatchInv, WatchTypeOK
    <3> QED
      BY <1>3, <3>2, <3>3, <3>4 DEF Change
  <2>3. WatchTypeOK'
    BY <1>1, <2>1, <2>2 DEF WatchInv, WatchTypeOK
  <2>4. Own' = Own /\ Active' = Active
    BY <1>1, <2>1 DEF Own, Active, IsDirectoryChange
  <2> QED
    BY <1>1, <2>1, <2>3, <2>4 DEF WatchInv, OneUser, OldObjects, BufferOfEntry
<1> QED
  BY <1>2, <1>3

LEMMA FailStep ==
  ASSUME WatchInv, Fail PROVE WatchInv'
<1>1. /\ failures' \in 0..MaxFailures /\ reads # <<>> /\ reads' = Tail(reads)
      /\ Port!Post(Entry(Head(reads), <<>>, FALSE))
      /\ UNCHANGED <<client, changes, others, refusals, moves, object, watching, kept, overflow,
                     buffer, at, range, detected, lost, deaf>>
  BY Bounds DEF Fail, WatchInv, WatchTypeOK, threadVars, historyVars
<1>2. /\ OneUser' /\ OldObjects' /\ BufferOfEntry'
      /\ reads' \in Seq(Objects) /\ port' \in Seq(Entries)
  BY <1>1, ReadEnds, EmptySeq
<1>3. WatchTypeOK'
  BY <1>1, <1>2 DEF WatchInv, WatchTypeOK
<1> QED
  BY <1>1, <1>2, <1>3 DEF WatchInv

LEMMA PostOtherStep ==
  ASSUME WatchInv, PostOther PROVE WatchInv'
<1>1. /\ others' \in 0..MaxOthers /\ client \notin {"fs_changes_print", "verbose"}
      /\ Port!Post(Other)
      /\ UNCHANGED <<client, changes, failures, refusals, moves, object, watching, kept, overflow,
                     reads, buffer, at, range, detected, lost, deaf>>
  BY Bounds DEF PostOther, WatchInv, WatchTypeOK, kernelVars, threadVars, historyVars
<1>2. Other \in Entries /\ Other.ov = 0 /\ Other.key = object.key /\ ~IsDirectoryChange(Other)
  BY EmptySeq DEF Other, Entries, WatchInv, WatchTypeOK, Objects, OldObjects, IsDirectoryChange
<1>3. /\ port' \in Seq(Entries) /\ Len(port') = Len(port) + 1 /\ Len(port) \in Nat
      /\ \A k \in 1..Len(port) : port'[k] = port[k]
      /\ port'[Len(port) + 1] = Other
      /\ Own' = Own
  BY <1>1, <1>2, EntryPosted DEF WatchInv, WatchTypeOK
<1>4. WatchTypeOK'
  BY <1>1, <1>3 DEF WatchInv, WatchTypeOK
<1>5. OneUser'
  BY <1>1, <1>3 DEF WatchInv, OneUser, Active
<1>6. OldObjects'
  <2>1. \A k \in 1..Len(port') : k \in 1..Len(port) \/ k = Len(port) + 1
    BY <1>3
  <2>2. object.key \in Nat /\ object.ov \in Nat /\ object.ov > 0
    BY DEF WatchInv, OldObjects, WatchTypeOK, Objects
  <2>3. \A k \in 1..Len(port') : port'[k].ov <= object.ov /\ port'[k].key <= object.key
    BY <1>2, <1>3, <2>1, <2>2 DEF WatchInv, OldObjects
  <2> QED
    BY <1>1, <2>2, <2>3 DEF WatchInv, OldObjects
<1>7. BufferOfEntry'
  <2>1. \A k \in Own : port'[k] = port[k]
    BY <1>3 DEF Own
  <2> QED
    BY <1>1, <1>3, <2>1 DEF WatchInv, BufferOfEntry
<1> QED
  BY <1>1, <1>4, <1>5, <1>6, <1>7 DEF WatchInv

----------------------------------------------------------------------------
(* The threads *)

\* A thread that takes an entry becomes the user, if the entry is one of the object's.
LEMMA WaitStep ==
  ASSUME WatchInv, NEW t \in Threads, Wait(t) PROVE WatchInv'
<1> DEFINE e == Port!Oldest
<1>1. /\ at[t] = "wait" /\ Port!Get
      /\ UNCHANGED <<client, changes, others, failures, refusals, moves, object, watching, kept,
                     overflow, reads, buffer, detected>>
  BY DEF Wait, boundVars, kernelVars
<1>2. PICK x \in Entries : x = e
  BY <1>1, EntryTaken DEF WatchInv, WatchTypeOK
<1>3. /\ port' \in Seq(Entries) /\ x = port[1]
      /\ \A k \in 1..Len(port') : k + 1 \in 1..Len(port) /\ port'[k] = port[k + 1] /\ k + 1 # 1
      /\ \A k \in Own' : k + 1 \in Own
      /\ Own = 1..Len(port) => Own' = 1..Len(port')
      /\ IsDirectoryChange(x) <=> 1 \in Own
  BY <1>1, <1>2, EntryTaken DEF WatchInv, WatchTypeOK
<1>4. \/ /\ IsValidDirectoryChange(x) /\ at' = [at EXCEPT ![t] = "read"]
         /\ \E it : range' = [range EXCEPT ![t] = [content |-> x.content, it |-> it]]
         /\ UNCHANGED <<lost, deaf>>
      \/ /\ \/ at' = [at EXCEPT ![t] = "start"] /\ ~Ignores(x)
            \/ at' = [at EXCEPT ![t] = "aborted"]
            \/ at' = [at EXCEPT ![t] = "wait"]
         /\ lost' = lost \cup Contents(x.content) /\ deaf' \in BOOLEAN
         /\ UNCHANGED range
  <2>1. deaf \in BOOLEAN
    BY DEF WatchInv, WatchTypeOK
  <2>2. CASE IsValidDirectoryChange(x)
    BY <1>2, <2>2 DEF Wait, historyVars
  <2>3. CASE ~IsValidDirectoryChange(x)
    <3>1. /\ at' = [at EXCEPT ![t] =
                IF Aborts(x) THEN "aborted" ELSE IF Ignores(x) THEN "wait" ELSE "start"]
          /\ lost' = lost \cup Contents(x.content) /\ UNCHANGED range
          /\ deaf' = (deaf \/ Aborts(x) \/ (Ignores(x) /\ IsDirectoryChange(x)))
      BY <1>2, <2>3 DEF Wait
    <3>2. deaf' \in BOOLEAN
      BY <3>1
    <3>3. \/ at' = [at EXCEPT ![t] = "start"] /\ ~Ignores(x)
          \/ at' = [at EXCEPT ![t] = "aborted"]
          \/ at' = [at EXCEPT ![t] = "wait"]
      BY <3>1
    <3> QED
      BY <3>1, <3>2, <3>3
  <2> QED
    BY <2>2, <2>3
<1> HIDE DEF e
<1>5. at \in [Threads -> {"absent", "wait", "read", "start", "aborted"}] /\ DOMAIN range = Threads
  BY DEF WatchInv, WatchTypeOK
<1>6. WatchTypeOK'
  <2>1. x.content \in Seq(1..MaxChanges)
    BY DEF Entries
  <2>2. Contents(x.content) \subseteq 1..MaxChanges
    BY <2>1, ContentsTyped
  <2>3. lost' \subseteq 1..MaxChanges /\ deaf' \in BOOLEAN
    BY <1>4, <2>2 DEF WatchInv, WatchTypeOK
  <2>4. /\ at' \in [Threads -> {"absent", "wait", "read", "start", "aborted"}]
        /\ DOMAIN range' = Threads
    BY <1>4, <1>5
  <2> QED
    BY <1>1, <1>3, <2>3, <2>4 DEF WatchInv, WatchTypeOK
\* An entry of somebody else is only answered by a client that never meets one.
<1>7. at'[t] \in {"read", "start"} => 1 \in Own
  <2>1. CASE IsValidDirectoryChange(x)
    BY <1>3, <2>1, ValidHasContent
  <2>2. CASE at' = [at EXCEPT ![t] = "start"] /\ ~Ignores(x)
    <3>1. client \in {"fs_changes_print", "verbose"} \/ IsDirectoryChange(x)
      BY <2>2, WatchAssumption DEF Ignores, WatchInv, WatchTypeOK
    <3>2. client \in {"fs_changes_print", "verbose"} => Own = 1..Len(port)
      BY DEF WatchInv, OldObjects
    <3>3. 1 \in 1..Len(port)
      BY <1>1, EmptySeq DEF Port!Get, WatchInv, WatchTypeOK
    <3> QED
      BY <1>3, <3>1, <3>2, <3>3
  <2>3. CASE at' = [at EXCEPT ![t] = "aborted"] \/ at' = [at EXCEPT ![t] = "wait"]
    BY <1>5, <2>3
  <2> QED
    BY <1>4, <2>1, <2>2, <2>3
<1>8. /\ \A u \in Threads : u # t => at'[u] = at[u]
      /\ \A u \in Threads : u # t => range'[u] = range[u]
  BY <1>4, <1>5
<1>9. OneUser'
  <2>1. \A j, k \in Own' : j = k
    <3>1. ASSUME NEW j \in Own', NEW k \in Own' PROVE j = k
      <4>1. j + 1 \in Own /\ k + 1 \in Own /\ j \in Int /\ k \in Int
        BY <1>3 DEF Own
      <4>2. j + 1 = k + 1
        BY <4>1 DEF WatchInv, OneUser
      <4> QED
        BY <4>1, <4>2
    <3> QED
      BY <3>1
  <2>2. 1 \in Own => Own' = {} /\ Active = {} /\ reads = <<>>
    <3> SUFFICES ASSUME 1 \in Own PROVE Own' = {} /\ Active = {} /\ reads = <<>>
      OBVIOUS
    <3>1. ASSUME NEW k \in Own' PROVE FALSE
      <4>1. k + 1 \in Own /\ k + 1 # 1
        BY <1>3 DEF Own
      <4> QED
        BY <4>1 DEF WatchInv, OneUser
    <3> QED
      BY <3>1 DEF WatchInv, OneUser
  <2>3. Active' \subseteq Active \cup {t} /\ (t \in Active' => 1 \in Own)
    BY <1>7, <1>8 DEF Active
  <2>4. t \notin Active
    BY <1>1 DEF Active
  <2>5. Own' # {} => Own # {}
    BY <1>3
  <2> QED
    BY <1>1, <2>1, <2>2, <2>3, <2>4, <2>5 DEF WatchInv, OneUser
<1>10. OldObjects'
  BY <1>1, <1>3 DEF WatchInv, OldObjects
<1>11. BufferOfEntry'
  <2>1. ASSUME NEW k \in Own', port'[k].content # <<>> PROVE buffer' = port'[k].content
    <3>1. k + 1 \in Own /\ port'[k] = port[k + 1]
      BY <1>3 DEF Own
    <3> QED
      BY <1>1, <2>1, <3>1 DEF WatchInv, BufferOfEntry
  <2>2. range[t] = NoRange
    BY <1>1 DEF WatchInv, BufferOfEntry
  <2>3. CASE UNCHANGED range /\ at'[t] # "read"
    BY <1>1, <1>8, <2>1, <2>2, <2>3 DEF WatchInv, BufferOfEntry
  <2>4. CASE /\ IsValidDirectoryChange(x) /\ at' = [at EXCEPT ![t] = "read"]
             /\ \E it : range' = [range EXCEPT ![t] = [content |-> x.content, it |-> it]]
    <3>1. buffer = x.content
      BY <1>3, <2>4, ValidHasContent DEF WatchInv, BufferOfEntry
    <3>2. at'[t] = "read" /\ range'[t].content = x.content
      BY <1>5, <2>4
    <3> QED
      BY <1>1, <1>8, <2>1, <3>1, <3>2 DEF WatchInv, BufferOfEntry
  <2> QED
    BY <1>4, <1>5, <2>3, <2>4
<1> QED
  BY <1>1, <1>6, <1>9, <1>10, <1>11 DEF WatchInv

LEMMA ReadStep ==
  ASSUME WatchInv, NEW t \in Threads, Read(t) PROVE WatchInv'
<1>1. /\ at[t] = "read"
      /\ UNCHANGED <<client, changes, others, failures, refusals, moves, object, watching, kept,
                     overflow, reads, buffer, port, lost, deaf>>
  BY DEF Read, boundVars, kernelVars, historyVars
<1>2. \/ range' = [range EXCEPT ![t] = NoRange] /\ at' = [at EXCEPT ![t] = "start"]
      \/ (\E it : range' = [range EXCEPT ![t].it = it]) /\ UNCHANGED at
  BY DEF Read
<1>3. at \in [Threads -> {"absent", "wait", "read", "start", "aborted"}] /\ DOMAIN range = Threads
  BY DEF WatchInv, WatchTypeOK
<1>4. WatchTypeOK'
  <2>1. /\ at' \in [Threads -> {"absent", "wait", "read", "start", "aborted"}]
        /\ DOMAIN range' = Threads
    BY <1>2, <1>3
  <2> QED
    BY <1>1, <2>1 DEF WatchInv, WatchTypeOK
<1>5. Own' = Own
  BY <1>1 DEF Own, IsDirectoryChange
<1>6. Active' = Active
  BY <1>1, <1>2, <1>3 DEF Active
<1>7. OneUser' /\ OldObjects'
  BY <1>1, <1>5, <1>6 DEF WatchInv, OneUser, OldObjects
<1>8. BufferOfEntry'
  <2>1. CASE range' = [range EXCEPT ![t] = NoRange] /\ at' = [at EXCEPT ![t] = "start"]
    BY <1>1, <1>3, <1>5, <2>1 DEF WatchInv, BufferOfEntry
  <2>2. CASE (\E it : range' = [range EXCEPT ![t].it = it]) /\ UNCHANGED at
    <3>1. PICK it : range' = [range EXCEPT ![t].it = it]
      BY <2>2
    <3>2. \A u \in Threads : u # t => range'[u] = range[u]
      BY <1>3, <3>1
    <3>3. range'[t].content = range[t].content
      BY <1>3, <3>1
    <3>4. range'[t] # NoRange => at[t] = "read"
      BY <1>1
    <3> QED
      BY <1>1, <1>5, <2>2, <3>2, <3>3, <3>4 DEF WatchInv, BufferOfEntry
  <2> QED
    BY <1>2, <2>1, <2>2
<1> QED
  BY <1>1, <1>4, <1>7, <1>8 DEF WatchInv

\* A thread issues the next read: it reports at once, or is pending.
LEMMA StartWatchStep ==
  ASSUME WatchInv, NEW t \in Threads, StartWatch(t) PROVE WatchInv'
<1>1. /\ at[t] = "start" /\ at' = [at EXCEPT ![t] = "wait"] /\ watching' = TRUE
      /\ UNCHANGED <<client, changes, others, failures, refusals, moves, object, range, detected,
                     lost, deaf>>
  BY DEF StartWatch, boundVars, historyVars
<1>2. at \in [Threads -> {"absent", "wait", "read", "start", "aborted"}]
  BY DEF WatchInv, WatchTypeOK
<1>3. reads = <<>> /\ Own = {} /\ Active = {t}
  BY <1>1 DEF WatchInv, OneUser, Active
<1>4. Active' = {}
  BY <1>1, <1>2, <1>3 DEF Active
<1>5. \A u \in Threads : range[u] = NoRange /\ at'[u] # "read"
  BY <1>1, <1>2, <1>3 DEF WatchInv, BufferOfEntry, Active
<1>6. object \in Objects /\ object.ov \in Nat /\ object.key \in Nat
  BY DEF WatchInv, WatchTypeOK, Objects
<1>7. CASE /\ Report(object, kept) /\ kept' = <<>> /\ overflow' = FALSE /\ UNCHANGED reads
  <2> DEFINE e == Entry(object, kept, TRUE)
  <2>1. /\ e \in Entries /\ IsDirectoryChange(e) /\ e.content = kept
        /\ e.ov = object.ov /\ e.key = object.key
    BY <1>6, OwnEntry DEF WatchInv, WatchTypeOK, Entry, Entries, Objects
  <2>2. Port!Post(e) /\ buffer' = kept
    BY <1>7 DEF Report
  <2> HIDE DEF e
  <2>3. /\ port' \in Seq(Entries) /\ Len(port') = Len(port) + 1 /\ Len(port) \in Nat
        /\ \A k \in 1..Len(port) : port'[k] = port[k]
        /\ port'[Len(port) + 1] = e
        /\ Own' = {Len(port) + 1}
    BY <1>1, <1>3, <2>1, <2>2, EntryPosted DEF WatchInv, WatchTypeOK
  <2>4. kept' \in Seq(1..MaxChanges) /\ Len(kept') = 0 /\ buffer' \in Seq(1..MaxChanges)
    BY <1>7, <2>2 DEF WatchInv, WatchTypeOK
  <2>5. WatchTypeOK'
    <3>1. Len(kept') <= Capacity
      BY <2>4, Bounds
    <3>2. at' \in [Threads -> {"absent", "wait", "read", "start", "aborted"}]
      BY <1>1, <1>2
    <3> QED
      BY <1>1, <1>7, <2>3, <2>4, <3>1, <3>2 DEF WatchInv, WatchTypeOK
  <2>6. OneUser'
    BY <1>3, <1>4, <1>7, <2>3 DEF WatchInv, OneUser
  <2>7. \A k \in 1..Len(port') : k \in 1..Len(port) \/ k = Len(port) + 1
    BY <2>3
  <2>8. OldObjects'
    <3>1. client \in {"fs_changes_print", "verbose"} => 1..Len(port) = {}
      BY <1>3 DEF WatchInv, OldObjects
    <3>2. client \in {"fs_changes_print", "verbose"} => Own' = 1..Len(port')
      <4> SUFFICES ASSUME client \in {"fs_changes_print", "verbose"} PROVE Own' = 1..Len(port')
        OBVIOUS
      <4>1. Len(port) + 1 \in 1..Len(port')
        BY <2>3
      <4> QED
        BY <2>3, <2>7, <3>1, <4>1
    <3>3. \A k \in 1..Len(port') : port'[k].ov <= object.ov /\ port'[k].key <= object.key
      BY <1>6, <2>1, <2>3, <2>7 DEF WatchInv, OldObjects
    <3> QED
      BY <1>1, <1>7, <3>2, <3>3 DEF WatchInv, OldObjects
  <2>9. BufferOfEntry'
    BY <1>1, <1>5, <2>1, <2>2, <2>3 DEF BufferOfEntry
  <2> QED
    BY <1>1, <2>5, <2>6, <2>8, <2>9 DEF WatchInv
<1>8. CASE /\ reads' = Append(reads, object) /\ UNCHANGED <<kept, overflow, buffer, port>>
  <2>1. reads' = <<object>>
    BY <1>3, <1>8
  <2>2. /\ reads' \in Seq(Objects) /\ Len(reads') = 1 /\ reads' # <<>>
        /\ \A k \in 1..Len(reads') : reads'[k] = object
    <3>1. reads' \in Seq(Objects) /\ Len(reads') = 1 /\ reads' # <<>> /\ reads'[1] = object
      BY <1>6, <2>1
    <3>2. 1..Len(reads') = {1}
      BY <3>1
    <3> QED
      BY <3>1, <3>2
  <2>3. Own' = {}
    BY <1>1, <1>3, <1>8 DEF Own, IsDirectoryChange
  <2>4. WatchTypeOK'
    BY <1>1, <1>2, <1>8, <2>2 DEF WatchInv, WatchTypeOK
  <2>5. OneUser'
    BY <1>4, <2>2, <2>3 DEF OneUser
  <2>6. OldObjects'
    BY <1>1, <1>3, <1>6, <1>8, <2>2, <2>3 DEF WatchInv, OldObjects
  <2>7. BufferOfEntry'
    BY <1>1, <1>5, <2>3 DEF BufferOfEntry
  <2> QED
    BY <1>1, <2>4, <2>5, <2>6, <2>7 DEF WatchInv
<1> QED
  BY <1>7, <1>8 DEF StartWatch

LEMMA StartWatchFailsStep ==
  ASSUME WatchInv, NEW t \in Threads, StartWatchFails(t) PROVE WatchInv'
<1>1. /\ at[t] = "start" /\ refusals' \in 0..MaxRefusals
      /\ UNCHANGED <<client, changes, others, failures, moves, object, watching, kept, overflow,
                     reads, buffer, port, range, detected, lost>>
      /\ UNCHANGED <<at, deaf>> \/ (at' = [at EXCEPT ![t] = "wait"] /\ deaf' = TRUE)
  BY Bounds DEF StartWatchFails, WatchInv, WatchTypeOK, kernelVars
<1>2. /\ at' \in [Threads -> {"absent", "wait", "read", "start", "aborted"}]
      /\ deaf' \in BOOLEAN /\ Active' \subseteq Active
      /\ \A u \in Threads : at'[u] = "read" <=> at[u] = "read"
  BY <1>1 DEF WatchInv, WatchTypeOK, Active
<1>3. Own' = Own
  BY <1>1 DEF Own, IsDirectoryChange
<1>4. WatchTypeOK'
  BY <1>1, <1>2 DEF WatchInv, WatchTypeOK
<1>5. OneUser'
  BY <1>1, <1>2, <1>3 DEF WatchInv, OneUser
<1>6. OldObjects' /\ BufferOfEntry'
  BY <1>1, <1>2, <1>3 DEF WatchInv, OldObjects, BufferOfEntry
<1> QED
  BY <1>1, <1>4, <1>5, <1>6 DEF WatchInv

----------------------------------------------------------------------------
(* Moves *)

\* Nobody has an entry of an object with a new OVERLAPPED.
LEMMA MoveStep ==
  ASSUME WatchInv, Move PROVE WatchInv'
<1>1. /\ client = "careful" /\ \A t \in Threads : at[t] = "wait"
      /\ moves' \in 0..MaxMoves /\ object' = [object EXCEPT !.ov = @ + 1] /\ deaf' = TRUE
      /\ UNCHANGED <<client, changes, others, failures, refusals, watching, kept, overflow,
                     reads, buffer, port, at, range, detected, lost>>
  BY Bounds DEF Move, Movable, WatchInv, WatchTypeOK, kernelVars, threadVars
<1>2. /\ object \in Objects /\ object' \in Objects
      /\ object'.ov = object.ov + 1 /\ object'.key = object.key
      /\ object.ov \in Nat /\ object.key \in Nat
  <2>1. object \in Objects
    BY DEF WatchInv, WatchTypeOK
  <2> QED
    BY <1>1, <2>1 DEF Objects
<1>3. Len(reads) \in Nat /\ Len(port) \in Nat
  BY LenProperties DEF WatchInv, WatchTypeOK
<1>4. /\ \A k \in 1..Len(port) : port[k].ov \in Nat /\ port[k].key \in Nat
      /\ \A k \in 1..Len(reads) : reads[k].ov \in Nat /\ reads[k].key \in Nat
  <2>1. /\ \A k \in 1..Len(port) : port[k] \in Entries
        /\ \A k \in 1..Len(reads) : reads[k] \in Objects
    BY ElementOfSeq DEF WatchInv, WatchTypeOK
  <2> QED
    BY <2>1 DEF Entries, Objects
<1>5. Own' = {} /\ Active' = {}
  BY <1>1, <1>2, <1>4 DEF WatchInv, OldObjects, Own, Active, IsDirectoryChange
<1>6. WatchTypeOK'
  BY <1>1, <1>2 DEF WatchInv, WatchTypeOK
<1>7. OneUser'
  BY <1>1, <1>5 DEF WatchInv, OneUser
<1>8. OldObjects'
  BY <1>1, <1>2, <1>4 DEF WatchInv, OldObjects
<1>9. BufferOfEntry'
  BY <1>1, <1>5 DEF WatchInv, BufferOfEntry
<1> QED
  BY <1>1, <1>6, <1>7, <1>8, <1>9 DEF WatchInv

\* Nor of one with a new key; the read of its predecessor has ended.
LEMMA ReplaceStep ==
  ASSUME WatchInv, NEW t \in Threads, Replace(t) PROVE WatchInv'
<1> DEFINE ended == [k \in 1..Len(reads) |-> Entry(reads[k], <<>>, TRUE)]
<1>1. /\ client = "careful" /\ \A u \in Threads : at[u] = "wait"
      /\ moves' \in 0..MaxMoves /\ object' = [object EXCEPT !.key = @ + 1] /\ deaf' = FALSE
      /\ at' = [at EXCEPT ![t] = "start"]
      /\ watching' = FALSE /\ kept' = <<>> /\ overflow' = FALSE
      /\ lost' = lost \cup Contents(kept) /\ reads' = <<>> /\ port' = port \o ended
      /\ UNCHANGED <<client, changes, others, failures, refusals, buffer, range, detected>>
  BY Bounds DEF Replace, Movable, WatchInv, WatchTypeOK
<1>2. /\ object \in Objects /\ object' \in Objects
      /\ object'.key = object.key + 1 /\ object'.ov = object.ov
      /\ object.ov \in Nat /\ object.key \in Nat
  <2>1. object \in Objects
    BY DEF WatchInv, WatchTypeOK
  <2> QED
    BY <1>1, <2>1 DEF Objects
<1>3. port \in Seq(Entries) /\ reads \in Seq(Objects) /\ Len(reads) \in Nat /\ Len(port) \in Nat
  BY LenProperties DEF WatchInv, WatchTypeOK
<1>4. /\ ended \in Seq(Entries) /\ Len(ended) = Len(reads)
      /\ \A k \in 1..Len(reads) : ended[k].ov = reads[k].ov /\ ended[k].key = reads[k].key
  <2>1. \A k \in 1..Len(reads) : reads[k] \in Objects
    BY <1>3, ElementOfSeq
  <2>2. ended \in [1..Len(reads) -> Entries]
    BY <2>1 DEF Entry, Entries, Objects
  <2>3. ended \in Seq(Entries)
    BY <1>3, <2>2, SeqDef
  <2>4. Len(ended) = Len(reads)
    BY <1>3, <2>2, <2>3, LenProperties
  <2>5. \A k \in 1..Len(reads) : ended[k].ov = reads[k].ov /\ ended[k].key = reads[k].key
    BY DEF Entry
  <2> QED
    BY <2>3, <2>4, <2>5
<1> HIDE DEF ended
<1>5. /\ port' \in Seq(Entries) /\ Len(port') = Len(port) + Len(reads)
      /\ \A k \in 1..(Len(port) + Len(reads)) :
            port'[k] = IF k <= Len(port) THEN port[k] ELSE ended[k - Len(port)]
  <2>1. /\ port \o ended \in Seq(Entries) /\ Len(port \o ended) = Len(port) + Len(ended)
        /\ \A k \in 1..(Len(port) + Len(ended)) :
              (port \o ended)[k] = IF k <= Len(port) THEN port[k] ELSE ended[k - Len(port)]
    BY <1>3, <1>4, ConcatProperties
  <2> QED
    BY <1>1, <1>4, <2>1
<1>6. \A k \in 1..Len(port') : port'[k].ov <= object.ov /\ port'[k].key <= object.key
  <2> SUFFICES ASSUME NEW k \in 1..Len(port')
               PROVE  port'[k].ov <= object.ov /\ port'[k].key <= object.key
    OBVIOUS
  <2>1. CASE k <= Len(port)
    BY <1>3, <1>5, <2>1 DEF WatchInv, OldObjects
  <2>2. CASE ~(k <= Len(port))
    <3>1. k - Len(port) \in 1..Len(reads) /\ port'[k] = ended[k - Len(port)]
      BY <1>3, <1>5, <2>2
    <3> QED
      BY <1>4, <3>1 DEF WatchInv, OldObjects
  <2> QED
    BY <2>1, <2>2
<1>7. \A k \in 1..Len(port') : port'[k].key \in Nat
  <2>1. \A k \in 1..Len(port') : port'[k] \in Entries
    BY <1>5, ElementOfSeq
  <2> QED
    BY <2>1 DEF Entries
<1>8. Own' = {}
  BY <1>2, <1>6, <1>7 DEF Own, IsDirectoryChange
<1>9. Active' = {t}
  BY <1>1 DEF Active, WatchInv, WatchTypeOK
<1>10. WatchTypeOK'
  <2>1. kept' \in Seq(1..MaxChanges) /\ Len(kept') = 0 /\ reads' \in Seq(Objects)
    BY <1>1
  <2>2. lost' \subseteq 1..MaxChanges
    BY <1>1, ContentsTyped DEF WatchInv, WatchTypeOK
  <2>3. Len(kept') <= Capacity
    BY <2>1, Bounds
  <2>4. at' \in [Threads -> {"absent", "wait", "read", "start", "aborted"}]
    BY <1>1 DEF WatchInv, WatchTypeOK
  <2> QED
    BY <1>1, <1>2, <1>5, <2>1, <2>2, <2>3, <2>4 DEF WatchInv, WatchTypeOK
<1>11. OneUser'
  BY <1>1, <1>8, <1>9 DEF OneUser
<1>12. OldObjects'
  <2>1. \A k \in 1..Len(port') : port'[k].ov <= object'.ov /\ port'[k].key <= object'.key
    BY <1>2, <1>6, <1>7
  <2>2. \A k \in 1..Len(reads') : FALSE
    BY <1>1
  <2> QED
    BY <1>1, <1>2, <2>1, <2>2 DEF WatchInv, OldObjects
<1>13. BufferOfEntry'
  BY <1>1, <1>8 DEF WatchInv, BufferOfEntry, WatchTypeOK
<1> QED
  BY <1>1, <1>10, <1>11, <1>12, <1>13 DEF WatchInv

----------------------------------------------------------------------------
(* One user at a time *)

LEMMA NextWatch == WatchInv /\ [Next]_vars => WatchInv'
<1> SUFFICES ASSUME WatchInv, [Next]_vars PROVE WatchInv'
  OBVIOUS
<1>1. CASE UNCHANGED vars
  <2>1. UNCHANGED <<client, changes, others, failures, refusals, moves, object, watching, kept,
                    overflow, reads, buffer, port, at, range, detected, lost, deaf>>
    BY <1>1 DEF vars, boundVars, kernelVars, threadVars, historyVars
  <2>2. Own' = Own /\ Active' = Active
    BY <2>1 DEF Own, Active, IsDirectoryChange
  <2>3. WatchTypeOK'
    BY <2>1 DEF WatchInv, WatchTypeOK
  <2> QED
    BY <2>1, <2>2, <2>3 DEF WatchInv, OneUser, OldObjects, BufferOfEntry
<1>2. CASE Change \/ Fail \/ PostOther \/ Move
  BY <1>2, ChangeStep, FailStep, PostOtherStep, MoveStep
<1>3. ASSUME NEW t \in Threads, Loop(t) \/ Replace(t) PROVE WatchInv'
  BY <1>3, WaitStep, ReadStep, StartWatchStep, StartWatchFailsStep, ReplaceStep DEF Loop
<1> QED
  BY <1>1, <1>2, <1>3 DEF Next

\* The invariant, for every client that starts a watch only after the end of the
\* last one.
THEOREM WatchCorrect == "header" \notin Clients => (Spec => []WatchInv)
<1> SUFFICES ASSUME "header" \notin Clients PROVE Spec => []WatchInv
  OBVIOUS
<1>1. Init => WatchInv
  BY InitWatch
<1> QED
  BY <1>1, NextWatch, PTL DEF Spec

\* The kernel never writes to the buffer while a thread reads it, with any number
\* of threads on the port, through moves, replacements and failures.
THEOREM WatchBufferStable == "header" \notin Clients => (Spec => []BufferStableWhileRead)
<1> SUFFICES ASSUME "header" \notin Clients PROVE Spec => []BufferStableWhileRead
  OBVIOUS
<1>1. WatchInv => BufferStableWhileRead
  BY DEF WatchInv, BufferOfEntry, BufferStableWhileRead
<1> QED
  BY <1>1, WatchCorrect, PTL

\* ReadDirectoryChangesW is never called while its OVERLAPPED is in use.
THEOREM WatchOneRead == "header" \notin Clients => (Spec => []OneReadAtATime)
<1> SUFFICES ASSUME "header" \notin Clients PROVE Spec => []OneReadAtATime
  OBVIOUS
<1>1. WatchInv => OneReadAtATime
  <2> SUFFICES ASSUME WatchInv PROVE Len(reads) + Cardinality(Own) + Cardinality(Active) <= 1
    BY DEF OneReadAtATime, Own, Active
  <2>1. Len(reads) \in {0, 1} /\ (reads # <<>> <=> Len(reads) = 1)
    <3>1. Len(reads) \in Nat /\ Len(reads) <= 1
      BY LenProperties DEF WatchInv, WatchTypeOK, OneUser
    <3>2. reads # <<>> => Len(reads) # 0
      BY EmptySeq DEF WatchInv, WatchTypeOK
    <3>3. \A n \in Nat : n <= 1 => n \in {0, 1}
      OBVIOUS
    <3> QED
      BY <3>1, <3>2, <3>3
  <2>2. ASSUME NEW S, \A x, y \in S : x = y PROVE S = {} \/ Cardinality(S) = 1
    <3>1. ASSUME NEW x \in S PROVE Cardinality(S) = 1
      <4>1. S = {x}
        BY <2>2
      <4> QED
        BY <4>1, FS_Singleton
    <3> QED
      BY <3>1
  <2>3. Own = {} \/ Cardinality(Own) = 1
    BY <2>2 DEF WatchInv, OneUser
  <2>4. Active = {} \/ Cardinality(Active) = 1
    BY <2>2 DEF WatchInv, OneUser
  <2>5. Cardinality({}) = 0
    BY FS_EmptySet
  <2>6. CASE reads # <<>>
    <3>1. Own = {} /\ Active = {}
      BY <2>6 DEF WatchInv, OneUser
    <3>2. Cardinality(Own) = 0 /\ Cardinality(Active) = 0
      BY <2>5, <3>1
    <3>3. Len(reads) = 1
      BY <2>1, <2>6
    <3> QED
      BY <3>2, <3>3
  <2>7. CASE reads = <<>> /\ Own # {}
    <3>1. Active = {} /\ Len(reads) = 0
      BY <2>1, <2>7 DEF WatchInv, OneUser
    <3>2. Cardinality(Own) = 1 /\ Cardinality(Active) = 0
      BY <2>3, <2>5, <2>7, <3>1
    <3> QED
      BY <3>1, <3>2
  <2>8. CASE reads = <<>> /\ Own = {}
    <3>1. Len(reads) = 0
      BY <2>1, <2>8
    <3>2. Cardinality(Own) = 0 /\ Cardinality(Active) \in {0, 1}
      BY <2>4, <2>5, <2>8
    <3> QED
      BY <3>1, <3>2
  <2> QED
    BY <2>6, <2>7, <2>8
<1> QED
  BY <1>1, WatchCorrect, PTL

----------------------------------------------------------------------------
(* Records in a buffer *)

LEMMA PadBounds ==
  ASSUME NEW n \in Nat PROVE Pad(n) \in Nat /\ n <= Pad(n)
BY DEF Pad, SizeofDWORD

\* Records follow each other and do not overlap.
LEMMA RecordsApart ==
  ASSUME NEW lens \in Seq(Nat)
  PROVE  /\ Len(lens) \in Nat /\ (lens # <<>> => Len(lens) \in 1..Len(lens))
         /\ \A k \in 1..Len(lens) :
               /\ lens[k] \in Nat /\ RecordStart(lens, k) \in Nat
               /\ RecordSize(lens[k]) \in Nat \ {0}
         /\ lens # <<>> => RecordStart(lens, 1) = 0
         /\ \A k \in 1..Len(lens) - 1 :
               RecordStart(lens, k + 1) = RecordStart(lens, k) + Pad(RecordSize(lens[k]))
         /\ \A j, k \in 1..Len(lens) :
               j < k => RecordStart(lens, j) + RecordSize(lens[j]) <= RecordStart(lens, k)
<1> DEFINE sizes == [j \in 1..Len(lens) |-> Pad(RecordSize(lens[j]))]
<1>1. Len(lens) \in Nat /\ (lens # <<>> => Len(lens) \in 1..Len(lens))
  <2>1. Len(lens) \in Nat /\ (lens # <<>> => Len(lens) # 0)
    BY LenProperties, EmptySeq
  <2> QED
    BY <2>1
<1>2. \A k \in 1..Len(lens) : lens[k] \in Nat
  BY ElementOfSeq
<1>3. \A k \in 1..Len(lens) : RecordSize(lens[k]) \in Nat \ {0}
  BY <1>2 DEF RecordSize, SizeofDWORD
<1>4. \A k \in 1..Len(lens) :
         Pad(RecordSize(lens[k])) \in Nat /\ RecordSize(lens[k]) <= Pad(RecordSize(lens[k]))
  <2> TAKE k \in 1..Len(lens)
  <2>1. RecordSize(lens[k]) \in Nat
    BY <1>3
  <2> QED
    BY <2>1, PadBounds
<1>5. sizes \in Seq(Nat) /\ Len(sizes) = Len(lens)
  <2>1. sizes \in [1..Len(lens) -> Nat]
    BY <1>4
  <2>2. sizes \in Seq(Nat)
    BY <1>1, <2>1, SeqDef
  <2> QED
    BY <1>1, <2>1, <2>2, LenProperties
<1>6. \A k \in 1..Len(lens) : sizes[k] = Pad(RecordSize(lens[k]))
  OBVIOUS
<1>7. \A k : RecordStart(lens, k) = Offsets(0, sizes)[k]
  BY DEF RecordStart
<1> HIDE DEF sizes
<1>8. sizes = <<>> <=> lens = <<>>
  BY <1>5, EmptySeq
<1>9. /\ Offsets(0, sizes) \in [1..Len(sizes) -> Nat]
      /\ sizes # <<>> => Offsets(0, sizes)[1] = 0
      /\ \A i \in 1..Len(sizes) - 1 : Offsets(0, sizes)[i + 1] = Offsets(0, sizes)[i] + sizes[i]
  BY <1>5, OffsetsFollow
<1>10. \A i, j \in 1..Len(sizes) : i < j => Offsets(0, sizes)[i] + sizes[i] <= Offsets(0, sizes)[j]
  BY <1>5, OffsetsApart
<1>11. \A k \in 1..Len(lens) : RecordStart(lens, k) \in Nat
  BY <1>5, <1>7, <1>9
<1>12. \A k \in 1..Len(lens) - 1 :
         RecordStart(lens, k + 1) = RecordStart(lens, k) + Pad(RecordSize(lens[k]))
  <2> TAKE k \in 1..Len(lens) - 1
  <2>1. k \in 1..Len(lens)
    BY <1>1
  <2> QED
    BY <1>5, <1>6, <1>7, <1>9, <2>1
<1>13. ASSUME NEW j \in 1..Len(lens), NEW k \in 1..Len(lens), j < k
       PROVE  RecordStart(lens, j) + RecordSize(lens[j]) <= RecordStart(lens, k)
  <2>1. RecordStart(lens, j) + Pad(RecordSize(lens[j])) <= RecordStart(lens, k)
    BY <1>5, <1>6, <1>7, <1>10, <1>13
  <2>2. /\ RecordSize(lens[j]) \in Nat /\ Pad(RecordSize(lens[j])) \in Nat
        /\ RecordSize(lens[j]) <= Pad(RecordSize(lens[j]))
        /\ RecordStart(lens, j) \in Nat /\ RecordStart(lens, k) \in Nat
    BY <1>3, <1>4, <1>11
  <2> QED
    BY <2>1, <2>2
<1>14. lens # <<>> => RecordStart(lens, 1) = 0
  BY <1>7, <1>8, <1>9
<1> QED
  BY <1>1, <1>2, <1>3, <1>11, <1>12, <1>13, <1>14

\* The number of a record is found by where the record begins.
LEMMA RecordFound ==
  ASSUME NEW lens \in Seq(Nat), NEW k \in 1..Len(lens)
  PROVE  RecordAt(lens, RecordStart(lens, k)) = k
<1>1. ASSUME NEW j \in 1..Len(lens), RecordStart(lens, j) = RecordStart(lens, k) PROVE j = k
  <2>1. /\ RecordStart(lens, j) \in Nat /\ RecordStart(lens, k) \in Nat
        /\ RecordSize(lens[j]) \in Nat \ {0} /\ RecordSize(lens[k]) \in Nat \ {0}
    BY RecordsApart
  <2>2. j < k => RecordStart(lens, j) + RecordSize(lens[j]) <= RecordStart(lens, k)
    BY RecordsApart
  <2>3. k < j => RecordStart(lens, k) + RecordSize(lens[k]) <= RecordStart(lens, j)
    BY RecordsApart
  <2>4. ~(j < k) /\ ~(k < j)
    BY <1>1, <2>1, <2>2, <2>3
  <2> QED
    BY <2>4
<1> QED
  BY <1>1 DEF RecordAt

LEMMA RecordKnown ==
  ASSUME NEW lens \in Seq(Nat), NEW o, RecordAt(lens, o) # 0
  PROVE  RecordAt(lens, o) \in 1..Len(lens) /\ RecordStart(lens, RecordAt(lens, o)) = o
BY DEF RecordAt

LEMMA RecordInBuffer ==
  ASSUME NEW lens \in Seq(Nat), NEW k \in 1..Len(lens)
  PROVE  /\ BytesTransferred(lens) \in Nat
         /\ RecordStart(lens, k) + RecordSize(lens[k]) <= BytesTransferred(lens)
<1> DEFINE n == Len(lens)
<1>1. n \in 1..n /\ n \in Nat /\ lens # <<>>
  BY RecordsApart, EmptySeq
<1>2. BytesTransferred(lens) = RecordStart(lens, n) + RecordSize(lens[n])
  BY <1>1 DEF BytesTransferred, Last
<1>3. /\ RecordStart(lens, n) \in Nat /\ RecordSize(lens[n]) \in Nat
      /\ RecordStart(lens, k) \in Nat /\ RecordSize(lens[k]) \in Nat
  BY <1>1, RecordsApart
<1>4. k < n => RecordStart(lens, k) + RecordSize(lens[k]) <= RecordStart(lens, n)
  BY <1>1, RecordsApart
<1> HIDE DEF n
<1>5. k = n \/ k < n
  BY <1>1 DEF n
<1> QED
  BY <1>2, <1>3, <1>4, <1>5

LEMMA LengthsTyped ==
  ASSUME NEW s \in Seq(1..MaxChanges)
  PROVE  /\ Lengths(s) \in Seq(Nat) /\ Len(Lengths(s)) = Len(s) /\ Len(s) \in Nat
         /\ s # <<>> => Lengths(s) # <<>> /\ Len(s) \in Nat \ {0}
<1>1. Len(s) \in Nat /\ \A k \in 1..Len(s) : s[k] \in Nat
  <2>1. \A k \in 1..Len(s) : s[k] \in 1..MaxChanges
    BY ElementOfSeq
  <2> QED
    BY <2>1, LenProperties, Bounds
<1>2. \A c \in Nat : NameLength(c) \in Nat
  BY DEF NameLength
<1>3. Lengths(s) \in [1..Len(s) -> Nat]
  BY <1>1, <1>2 DEF Lengths
<1>4. Lengths(s) \in Seq(Nat)
  BY <1>1, <1>3, SeqDef
<1>5. Len(Lengths(s)) = Len(s)
  BY <1>1, <1>3, <1>4, LenProperties
<1>6. s # <<>> => Lengths(s) # <<>> /\ Len(s) \in Nat \ {0}
  BY <1>1, <1>4, <1>5, EmptySeq
<1> QED
  BY <1>1, <1>4, <1>5, <1>6

----------------------------------------------------------------------------
(* Iterators *)

LEMMA CurrentRecord ==
  ASSUME NEW t, IteratorFits(t), NEW lens, lens = Lengths(range[t].content)
  PROVE  /\ range[t].content \in Seq(1..MaxChanges) /\ lens \in Seq(Nat)
         /\ Len(lens) = Len(range[t].content) /\ Len(lens) \in Nat
         /\ Current(t) \in 1..Len(range[t].content)
         /\ range[t].content[Current(t)] \in 1..MaxChanges
         /\ RecordStart(lens, Current(t)) = range[t].it.current /\ range[t].it.current \in Nat
         /\ BytesTransferred(lens) \in Nat
         /\ RecordSize(lens[Current(t)]) \in Nat \ {0}
         /\ range[t].it.current + RecordSize(lens[Current(t)]) <= BytesTransferred(lens)
<1>1. /\ range[t].content \in Seq(1..MaxChanges) /\ lens \in Seq(Nat)
      /\ Len(lens) = Len(range[t].content) /\ Len(lens) \in Nat
  BY LengthsTyped DEF IteratorFits
<1>2. Current(t) = RecordAt(lens, range[t].it.current) /\ Current(t) # 0
  BY DEF Current, IteratorFits
<1>3. Current(t) \in 1..Len(lens) /\ RecordStart(lens, Current(t)) = range[t].it.current
  BY <1>1, <1>2, RecordKnown
<1>4. range[t].content[Current(t)] \in 1..MaxChanges
  BY <1>1, <1>3, ElementOfSeq
<1>5. /\ RecordStart(lens, Current(t)) \in Nat /\ RecordSize(lens[Current(t)]) \in Nat \ {0}
  BY <1>1, <1>3, RecordsApart
<1>6. /\ BytesTransferred(lens) \in Nat
      /\ RecordStart(lens, Current(t)) + RecordSize(lens[Current(t)]) <= BytesTransferred(lens)
  BY <1>1, <1>3, RecordInBuffer
<1> QED
  BY <1>1, <1>3, <1>4, <1>5, <1>6

\* begin(): the first record, with all of the buffer.
LEMMA IteratorBegins ==
  ASSUME NEW s \in Seq(1..MaxChanges), NEW lens, lens = Lengths(s), BytesTransferred(lens) # 0,
         NEW it, it = Iterator(0, BytesTransferred(lens))
  PROVE  /\ it \in [current : Int, consumed : Nat, max : Nat] /\ it.current = 0
         /\ s # <<>> /\ RecordAt(lens, 0) = 1
         /\ BytesTransferred(lens) - it.current <= AvailableSize(it)
<1>1. lens \in Seq(Nat) /\ Len(lens) = Len(s) /\ (s # <<>> => lens # <<>>)
  BY LengthsTyped
<1>2. lens # <<>>
  BY DEF BytesTransferred
<1>3. s # <<>>
  BY <1>1, <1>2, EmptySeq
<1>4. 1 \in 1..Len(lens) /\ RecordStart(lens, 1) = 0
  BY <1>1, <1>2, RecordsApart
<1>5. RecordAt(lens, 0) = 1
  BY <1>1, <1>4, RecordFound
<1>6. BytesTransferred(lens) \in Nat
  BY <1>1, <1>4, RecordInBuffer
<1>7. it = [current |-> 0, consumed |-> 0, max |-> BytesTransferred(lens)]
  BY DEF Iterator
<1> QED
  BY <1>3, <1>5, <1>6, <1>7 DEF AvailableSize

\* ++it: the next record if there is one, and no less than the rest of the buffer.
LEMMA IteratorMoves ==
  ASSUME NEW t, IteratorFits(t), NEW lens, lens = Lengths(range[t].content),
         NEW next, next = MoveToNext(range[t].it, lens, Current(t))
  PROVE  /\ next.current = nullptr <=> Current(t) = Len(lens)
         /\ \A it \in {next, Copy(next)} : Current(t) # Len(lens) =>
               /\ it \in [current : Int, consumed : Nat, max : Nat]
               /\ RecordAt(lens, it.current) = Current(t) + 1 /\ Current(t) + 1 \in 1..Len(lens)
               /\ BytesTransferred(lens) - it.current <= AvailableSize(it)
<1> DEFINE old == range[t].it
           k == Current(t)
           size == RecordSize(lens[k])
           bytes == BytesTransferred(lens)
<1>1. /\ lens \in Seq(Nat) /\ Len(lens) \in Nat
      /\ k \in 1..Len(lens) /\ RecordStart(lens, k) = old.current /\ old.current \in Nat
      /\ bytes \in Nat /\ size \in Nat \ {0} /\ old.current + size <= bytes
  BY CurrentRecord
<1>2. /\ old \in [current : Int, consumed : Nat, max : Nat]
      /\ bytes - old.current <= old.max - old.consumed
      /\ old.consumed \in Nat /\ old.max \in Nat
  BY DEF IteratorFits, AvailableSize
<1>3. GetInfoSize(lens[k]) = size
  <2>1. lens[k] \in Nat
    BY <1>1, RecordsApart
  <2> QED
    BY <2>1 DEF GetInfoSize, RecordSize, SizeofInfo, SizeofDWORD
<1>4. Pad(size) \in Nat /\ size <= Pad(size)
  BY <1>1, PadBounds
<1> DEFINE offset == NextEntryOffset(lens, k)
<1>5. /\ next = [old EXCEPT !.consumed = @ + GetInfoSize(lens[k]),
                            !.current = IF offset = 0 THEN nullptr ELSE @ + offset]
      /\ offset = IF k = Len(lens) THEN 0 ELSE Pad(size)
  BY DEF MoveToNext, NextEntryOffset
<1> HIDE DEF old, k, size, bytes, offset
<1>6. CASE k = Len(lens)
  <2>1. next.current = nullptr
    BY <1>2, <1>5, <1>6
  <2> QED
    BY <1>6, <2>1 DEF k
<1>7. CASE k # Len(lens)
  <2>1. /\ k + 1 \in 1..Len(lens) /\ k \in 1..Len(lens) - 1
    BY <1>1, <1>7
  <2>2. RecordStart(lens, k + 1) = old.current + Pad(size)
    BY <1>1, <2>1, RecordsApart DEF size
  <2>3. RecordAt(lens, RecordStart(lens, k + 1)) = k + 1
    BY <1>1, <2>1, RecordFound
  <2>4. /\ bytes \in Nat /\ RecordStart(lens, k + 1) + RecordSize(lens[k + 1]) <= bytes
        /\ RecordSize(lens[k + 1]) \in Nat \ {0}
    BY <1>1, <2>1, RecordInBuffer, RecordsApart DEF bytes
  <2>a. offset = Pad(size) /\ offset # 0
    BY <1>1, <1>4, <1>5, <1>7
  <2>b. next = [old EXCEPT !.consumed = old.consumed + size, !.current = old.current + Pad(size)]
    BY <1>3, <1>5, <2>a
  <2>5. /\ next = [current |-> old.current + Pad(size), consumed |-> old.consumed + size, max |-> old.max]
        /\ next.current = old.current + Pad(size) /\ next.consumed = old.consumed + size
        /\ next.max = old.max
    BY <1>2, <2>b
  <2>6. next.current \in Nat /\ next.consumed \in Nat /\ next.max \in Nat
    BY <1>1, <1>2, <1>4, <2>5
  <2>7. next \in [current : Int, consumed : Nat, max : Nat]
    BY <2>5, <2>6
  <2>8. bytes - next.current <= next.max - next.consumed /\ 0 < next.max - next.consumed
    <3> DEFINE c == old.current
               s == old.consumed
               m == old.max
               p == Pad(size)
               r == RecordSize(lens[k + 1])
    <3>1. /\ c \in Int /\ s \in Int /\ m \in Int /\ p \in Int /\ r \in Int /\ size \in Int
          /\ bytes \in Int
      BY <1>1, <1>2, <1>4, <2>4
    <3>2. bytes - c <= m - s /\ size <= p /\ r > 0 /\ (c + p) + r <= bytes
      BY <1>2, <1>4, <2>2, <2>4
    <3> HIDE DEF c, s, m, p, r
    <3>3. bytes - (c + p) <= m - (s + size) /\ 0 < m - (s + size)
      BY <3>1, <3>2
    <3>4. /\ bytes - (old.current + Pad(size)) <= old.max - (old.consumed + size)
          /\ 0 < old.max - (old.consumed + size)
      BY <3>3 DEF c, s, m, p
    <3> QED
      BY <2>5, <3>4
  <2>9. Copy(next) = [current |-> next.current, consumed |-> 0, max |-> next.max - next.consumed]
    BY <2>6, <2>8 DEF Copy, Iterator, AvailableSize
  <2>10. next.max - next.consumed \in Nat
    BY <2>6, <2>8
  <2>11. /\ Copy(next) \in [current : Int, consumed : Nat, max : Nat]
         /\ Copy(next).current = next.current /\ Copy(next).consumed = 0
         /\ Copy(next).max = next.max - next.consumed
    BY <2>6, <2>9, <2>10
  <2>12. \A it \in {next, Copy(next)} :
            /\ it \in [current : Int, consumed : Nat, max : Nat]
            /\ it.current = next.current /\ bytes - it.current <= AvailableSize(it)
    BY <2>6, <2>7, <2>8, <2>10, <2>11 DEF AvailableSize
  <2>13. next.current # nullptr
    BY <2>6 DEF nullptr
  <2>14. RecordAt(lens, next.current) = k + 1
    BY <2>2, <2>3, <2>5
  <2> QED
    BY <1>7, <2>1, <2>12, <2>13, <2>14 DEF k, bytes
<1> QED
  BY <1>6, <1>7

\* What the assertions of the iterator say.
LEMMA FitsInBounds ==
  ASSUME NEW t, IteratorFits(t), NEW lens, lens = Lengths(range[t].content),
         NEW it, it = range[t].it
  PROVE  /\ AssertionsHold(it, lens)
         /\ AssertionsHold(Copy(it), lens)
         /\ it.current + RecordSize(lens[RecordAt(lens, it.current)]) <= BytesTransferred(lens)
<1> DEFINE k == Current(t)
           size == RecordSize(lens[k])
           bytes == BytesTransferred(lens)
<1>1. /\ lens \in Seq(Nat) /\ k \in 1..Len(lens)
      /\ it.current \in Nat /\ bytes \in Nat /\ size \in Nat \ {0} /\ it.current + size <= bytes
  BY CurrentRecord
<1>2. /\ it \in [current : Int, consumed : Nat, max : Nat]
      /\ bytes - it.current <= it.max - it.consumed
      /\ k = RecordAt(lens, it.current) /\ k # 0
  BY DEF IteratorFits, AvailableSize, Current
<1>3. GetInfoSize(lens[k]) = size
  <2>1. lens[k] \in Nat
    BY <1>1, RecordsApart
  <2> QED
    BY <2>1 DEF GetInfoSize, RecordSize, SizeofInfo, SizeofDWORD
<1> HIDE DEF k, size, bytes
<1>4. it.consumed \in Nat /\ it.max \in Nat /\ size <= it.max - it.consumed /\ it.consumed + size <= it.max
  <2> DEFINE c == it.current
             s == it.consumed
             m == it.max
  <2>1. /\ c \in Nat /\ s \in Nat /\ m \in Nat /\ bytes \in Nat /\ size \in Nat
        /\ bytes - c <= m - s /\ c + size <= bytes
    BY <1>1, <1>2
  <2> HIDE DEF c, s, m
  <2>2. size <= m - s /\ s + size <= m
    BY <2>1
  <2> QED
    BY <2>1, <2>2 DEF s, m
<1>5. Copy(it) = [current |-> it.current, consumed |-> 0, max |-> it.max - it.consumed]
  BY <1>1, <1>4 DEF Copy, Iterator, AvailableSize
<1>6. AssertionsHold(it, lens)
  <2> DEFINE s == it.consumed
             m == it.max
  <2>0. s \in Nat /\ m \in Nat /\ size \in Nat /\ s + size <= m
    BY <1>1, <1>4
  <2> HIDE DEF s, m
  <2>2. s <= m
    BY <2>0
  <2>1. it.consumed <= it.max
    BY <2>2 DEF s, m
  <2> QED
    BY <1>2, <1>3, <1>4, <2>1 DEF AssertionsHold
<1>7. AssertionsHold(Copy(it), lens)
  <2>1. /\ Copy(it).current = it.current /\ Copy(it).consumed = 0
        /\ Copy(it).max = it.max - it.consumed
    BY <1>5
  <2>2. 0 <= it.max - it.consumed /\ 0 + size <= it.max - it.consumed
    <3> DEFINE d == it.max - it.consumed
    <3>1. d \in Int /\ size \in Nat /\ size <= d
      BY <1>1, <1>4
    <3> HIDE DEF d
    <3>2. 0 <= d /\ 0 + size <= d
      BY <3>1
    <3> QED
      BY <3>2 DEF d
  <2> QED
    BY <1>2, <1>3, <2>1, <2>2 DEF AssertionsHold
<1> QED
  BY <1>1, <1>2, <1>6, <1>7 DEF k, size, bytes

----------------------------------------------------------------------------
(* The changes that nobody has read *)

LEMMA ContentsMember ==
  ASSUME NEW s, NEW c
  PROVE  c \in Contents(s) <=> \E k \in 1..Len(s) : c = s[k]
BY DEF Contents

LEMMA NothingUnread == Contents(<<>>) = {} /\ IsInjective(<<>>)
BY DEF Contents, IsInjective

LEMMA UnreadMember ==
  ASSUME NEW t, NEW c
  PROVE  c \in Unread(t) <=>
            \E k \in Current(t)..Len(range[t].content) : c = range[t].content[k]
BY DEF Unread

\* An iterator stays as it is as long as its thread leaves it alone.
LEMMA IteratorsStay ==
  ASSUME \A t \in Threads : at[t] = "read" => IteratorFits(t),
         \A t \in Threads : at'[t] = "read" => at[t] = "read" /\ range'[t] = range[t]
  PROVE  /\ \A t \in Threads : at'[t] = "read" => IteratorFits(t)'
         /\ \A t \in Threads : at'[t] = "read" => Unread(t)' = Unread(t)
BY DEF IteratorFits, Unread, Current

LEMMA AtMostOnceStays ==
  ASSUME ReadInv, UNCHANGED detected, changes' \in Nat, changes <= changes',
         \A c \in lost' : c \in lost \/ detected[c] = 0
  PROVE  DetectedAtMostOnce'
<1> SUFFICES ASSUME NEW c \in 1..MaxChanges
             PROVE  detected[c] <= (IF c \in lost' \/ c > changes' THEN 0 ELSE 1)
  BY DEF DetectedAtMostOnce
<1>1. /\ detected[c] \in Nat /\ c \in Nat /\ changes \in Nat
      /\ detected[c] <= (IF c \in lost \/ c > changes THEN 0 ELSE 1)
  BY Bounds DEF ReadInv, DetectedAtMostOnce, WatchInv, WatchTypeOK
<1>2. c > changes' => c > changes
  BY <1>1
<1>3. c \in lost' => c \in lost \/ detected[c] = 0
  OBVIOUS
<1> QED
  BY <1>1, <1>2, <1>3

\* UnreadInOnePlace, of the iterators of some threads.
InOnePlace(R) ==
    /\ IsInjective(kept) /\ Untouched(Contents(kept))
    /\ \A k \in 1..Len(port) :
          /\ IsInjective(port[k].content) /\ Untouched(Contents(port[k].content))
          /\ Contents(port[k].content) \cap Contents(kept) = {}
          /\ \A j \in 1..Len(port) \ {k} :
                Contents(port[j].content) \cap Contents(port[k].content) = {}
    /\ \A t \in R : at[t] = "read" =>
          /\ IsInjective(range[t].content) /\ Untouched(Unread(t))
          /\ Unread(t) \cap Contents(kept) = {}
          /\ \A k \in 1..Len(port) : Unread(t) \cap Contents(port[k].content) = {}

\* A step that gives no change to a place where it was not, and reads none.  The
\* entry at k was at from[k].
LEMMA PlacesKept ==
  ASSUME ReadInv, changes' \in Nat, changes <= changes',
         kept' = kept \/ kept' = <<>>,
         NEW R \in SUBSET Threads,
         \A t \in R : at'[t] = "read" => at[t] = "read" /\ range'[t] = range[t],
         NEW from,
         \A k \in 1..Len(port') :
            \/ port'[k].content = <<>>
            \/ from[k] \in 1..Len(port) /\ port'[k].content = port[from[k]].content,
         \A j, k \in 1..Len(port') : from[j] = from[k] => j = k,
         \A c : c \in lost' \ lost \/ detected'[c] # detected[c] =>
            /\ c \notin Contents(kept')
            /\ \A k \in 1..Len(port') : c \notin Contents(port'[k].content)
            /\ \A t \in R : at'[t] = "read" => c \notin Unread(t)
  PROVE  InOnePlace(R)'
<1> USE NothingUnread
<1>1. UnreadInOnePlace /\ changes \in Nat /\ MaxChanges \in Nat
  BY Bounds DEF ReadInv, WatchInv, WatchTypeOK
<1>2. \A t \in R : at'[t] = "read" => Unread(t)' = Unread(t)
  BY DEF Unread, Current
<1>3. Contents(kept)' = Contents(kept') /\ \A k : Contents(port[k].content)' = Contents(port'[k].content)
  BY DEF Contents
<1>4. ASSUME NEW S, Untouched(S), \A c \in S : c \in Nat,
             \A c : c \in lost' \ lost \/ detected'[c] # detected[c] => c \notin S
      PROVE  \A c \in S : c <= changes' /\ c \notin lost' /\ detected'[c] = 0
  <2> TAKE c \in S
  <2>1. c <= changes /\ c \notin lost /\ detected[c] = 0 /\ c \in Nat
    BY <1>4 DEF Untouched
  <2> QED
    BY <1>1, <1>4, <2>1
<1>5. Contents(kept') \subseteq Contents(kept) /\ IsInjective(kept')
  BY <1>1 DEF UnreadInOnePlace
<1>6. \A c \in Contents(kept) : c \in Nat
  BY <1>1, ContentsTyped DEF ReadInv, WatchInv, WatchTypeOK
<1>7. ASSUME NEW k \in 1..Len(port) PROVE \A c \in Contents(port[k].content) : c \in Nat
  <2>1. port[k] \in Entries
    BY ElementOfSeq DEF ReadInv, WatchInv, WatchTypeOK
  <2>2. port[k].content \in Seq(1..MaxChanges)
    BY <2>1 DEF Entries
  <2> QED
    BY <1>1, <2>2, ContentsTyped
<1>8. ASSUME NEW t \in Threads, at[t] = "read" PROVE \A c \in Unread(t) : c \in Nat
  <2>1. range[t].content \in Seq(1..MaxChanges) /\ Current(t) \in 1..Len(range[t].content)
    BY <1>8, CurrentRecord DEF ReadInv
  <2>2. \A k \in 1..Len(range[t].content) : range[t].content[k] \in Nat
    BY <1>1, <2>1, ElementOfSeq
  <2>3. Len(range[t].content) \in Nat
    BY <2>1, LenProperties
  <2>4. \A k \in Current(t)..Len(range[t].content) : k \in 1..Len(range[t].content)
    BY <2>1, <2>3
  <2> QED
    BY <2>2, <2>4, UnreadMember
<1>9. \A c \in Contents(kept') : c <= changes' /\ c \notin lost' /\ detected'[c] = 0
  <2>1. Untouched(Contents(kept'))
    BY <1>1, <1>5 DEF UnreadInOnePlace, Untouched
  <2> QED
    BY <1>4, <1>5, <1>6, <2>1
<1>10. ASSUME NEW k \in 1..Len(port')
       PROVE  /\ IsInjective(port'[k].content)
              /\ \A c \in Contents(port'[k].content) :
                    c <= changes' /\ c \notin lost' /\ detected'[c] = 0
              /\ Contents(port'[k].content) \cap Contents(kept') = {}
              /\ \A j \in 1..Len(port') \ {k} :
                    Contents(port'[j].content) \cap Contents(port'[k].content) = {}
              /\ \A t \in R : at'[t] = "read" =>
                    Unread(t) \cap Contents(port'[k].content) = {}
  <2>1. CASE port'[k].content = <<>>
    BY <2>1
  <2>2. CASE port'[k].content # <<>>
    <3> DEFINE i == from[k]
    <3>1. i \in 1..Len(port) /\ port'[k].content = port[i].content
      BY <2>2
    <3>2. /\ IsInjective(port[i].content) /\ Untouched(Contents(port[i].content))
          /\ Contents(port[i].content) \cap Contents(kept) = {}
      BY <1>1, <3>1 DEF UnreadInOnePlace
    <3>3. \A c \in Contents(port'[k].content) : c <= changes' /\ c \notin lost' /\ detected'[c] = 0
      BY <1>4, <1>7, <3>1, <3>2
    <3>4. ASSUME NEW j \in 1..Len(port') \ {k}
          PROVE  Contents(port'[j].content) \cap Contents(port'[k].content) = {}
      <4>1. CASE port'[j].content = <<>>
        BY <4>1
      <4>2. CASE port'[j].content # <<>>
        <5>1. from[j] \in 1..Len(port) \ {i} /\ port'[j].content = port[from[j]].content
          BY <4>2
        <5> QED
          BY <1>1, <3>1, <5>1 DEF UnreadInOnePlace
      <4> QED
        BY <4>1, <4>2
    <3>5. ASSUME NEW t \in R, at'[t] = "read"
          PROVE  Unread(t) \cap Contents(port'[k].content) = {}
      <4>1. at[t] = "read"
        BY <3>5
      <4> QED
        BY <1>1, <3>1, <4>1 DEF UnreadInOnePlace
    <3> QED
      BY <1>5, <3>1, <3>2, <3>3, <3>4, <3>5
  <2> QED
    BY <2>1, <2>2
<1>11. ASSUME NEW t \in R, at'[t] = "read"
       PROVE  /\ IsInjective(range'[t].content)
              /\ \A c \in Unread(t) : c <= changes' /\ c \notin lost' /\ detected'[c] = 0
              /\ Unread(t) \cap Contents(kept') = {}
  <2>1. at[t] = "read" /\ range'[t] = range[t]
    BY <1>11
  <2>2. /\ IsInjective(range[t].content) /\ Untouched(Unread(t))
        /\ Unread(t) \cap Contents(kept) = {}
    BY <1>1, <2>1 DEF UnreadInOnePlace
  <2>3. \A c : c \in lost' \ lost \/ detected'[c] # detected[c] => c \notin Unread(t)
    BY <1>11
  <2>4. \A c \in Unread(t) : c <= changes' /\ c \notin lost' /\ detected'[c] = 0
    BY <1>4, <1>8, <2>1, <2>2, <2>3
  <2> QED
    BY <1>5, <2>1, <2>2, <2>4
<1>12. IsInjective(kept)' /\ Untouched(Contents(kept))'
  BY <1>3, <1>5, <1>9 DEF Untouched
<1>13. \A k \in 1..Len(port') :
          /\ IsInjective(port[k].content)' /\ Untouched(Contents(port[k].content))'
          /\ Contents(port[k].content)' \cap Contents(kept)' = {}
          /\ \A j \in 1..Len(port') \ {k} :
                Contents(port[j].content)' \cap Contents(port[k].content)' = {}
  BY <1>3, <1>10 DEF Untouched
<1>14. \A t \in R : at'[t] = "read" =>
          /\ IsInjective(range[t].content)' /\ Untouched(Unread(t))'
          /\ Unread(t)' \cap Contents(kept)' = {}
          /\ \A k \in 1..Len(port') : Unread(t)' \cap Contents(port[k].content)' = {}
  BY <1>2, <1>3, <1>10, <1>11 DEF Untouched
<1> QED
  BY <1>12, <1>13, <1>14 DEF InOnePlace

\* The changes in all places have happened and are numbers.
LEMMA UnreadAreChanges ==
  ASSUME ReadInv
  PROVE  /\ changes \in Nat /\ changes \in 0..MaxChanges /\ MaxChanges \in Nat
         /\ \A c \in Contents(kept) :
               c \in 1..MaxChanges /\ c <= changes /\ c \notin lost /\ detected[c] = 0
         /\ \A k \in 1..Len(port) : \A c \in Contents(port[k].content) :
               c \in 1..MaxChanges /\ c <= changes /\ c \notin lost /\ detected[c] = 0
         /\ \A t \in Threads : at[t] = "read" => \A c \in Unread(t) :
               c \in 1..MaxChanges /\ c <= changes /\ c \notin lost /\ detected[c] = 0
<1>1. UnreadInOnePlace /\ changes \in 0..MaxChanges /\ MaxChanges \in Nat
  BY Bounds DEF ReadInv, WatchInv, WatchTypeOK
<1>2. Contents(kept) \subseteq 1..MaxChanges
  BY ContentsTyped DEF ReadInv, WatchInv, WatchTypeOK
<1>3. ASSUME NEW k \in 1..Len(port) PROVE Contents(port[k].content) \subseteq 1..MaxChanges
  <2>1. port[k] \in Entries
    BY ElementOfSeq DEF ReadInv, WatchInv, WatchTypeOK
  <2>2. port[k].content \in Seq(1..MaxChanges)
    BY <2>1 DEF Entries
  <2> QED
    BY <2>2, ContentsTyped
<1>4. ASSUME NEW t \in Threads, at[t] = "read" PROVE Unread(t) \subseteq 1..MaxChanges
  <2>1. range[t].content \in Seq(1..MaxChanges) /\ Current(t) \in 1..Len(range[t].content)
    BY <1>4, CurrentRecord DEF ReadInv
  <2>2. \A k \in 1..Len(range[t].content) : range[t].content[k] \in 1..MaxChanges
    BY <2>1, ElementOfSeq
  <2>3. Len(range[t].content) \in Nat
    BY <2>1, LenProperties
  <2>4. \A k \in Current(t)..Len(range[t].content) : k \in 1..Len(range[t].content)
    BY <2>1, <2>3
  <2> QED
    BY <2>2, <2>4, UnreadMember
<1> QED
  BY <1>1, <1>2, <1>3, <1>4 DEF UnreadInOnePlace, Untouched

\* A new entry has changes that were kept, or a new one.
LEMMA EntryGetsChanges ==
  ASSUME ReadInv, UNCHANGED <<detected, lost, object>>, changes' \in Nat, changes <= changes',
         kept' = kept \/ kept' = <<>>,
         \A t \in Threads : at'[t] = "read" => at[t] = "read" /\ range'[t] = range[t],
         NEW e \in Entries, Port!Post(e), IsInjective(e.content),
         \A c \in Contents(e.content) :
            /\ c <= changes' /\ c \notin lost /\ detected[c] = 0 /\ c \notin Contents(kept')
            /\ \A k \in 1..Len(port) : c \notin Contents(port[k].content)
            /\ \A t \in Threads : at[t] = "read" => c \notin Unread(t)
  PROVE  UnreadInOnePlace'
<1> USE NothingUnread
<1> DEFINE n == Len(port)
<1>1. /\ UnreadInOnePlace
      /\ Len(port') = n + 1 /\ n \in Nat
      /\ \A k \in 1..n : port'[k] = port[k]
      /\ port'[n + 1] = e
  BY EntryPosted DEF ReadInv, WatchInv, WatchTypeOK
<1>2. \A k \in 1..Len(port') : k \in 1..n \/ k = n + 1
  BY <1>1
<1> HIDE DEF n
<1>3. \A t \in Threads : at'[t] = "read" => Unread(t)' = Unread(t)
  BY IteratorsStay DEF ReadInv
<1>4. Contents(kept)' = Contents(kept') /\ \A k : Contents(port[k].content)' = Contents(port'[k].content)
  BY DEF Contents
<1>5. ASSUME NEW S, \A c \in S : c \in Nat /\ c <= changes /\ c \notin lost /\ detected[c] = 0
      PROVE  \A c \in S : c <= changes' /\ c \notin lost' /\ detected'[c] = 0
  <2>1. changes \in Nat
    BY UnreadAreChanges
  <2> QED
    BY <1>5, <2>1
<1>6. \A c : c \in 1..MaxChanges => c \in Nat
  BY UnreadAreChanges
<1>7. Contents(kept') \subseteq Contents(kept) /\ IsInjective(kept')
  BY <1>1 DEF UnreadInOnePlace
<1>8. \A c \in Contents(kept') : c <= changes' /\ c \notin lost' /\ detected'[c] = 0
  BY <1>5, <1>6, <1>7, UnreadAreChanges
<1>9. ASSUME NEW k \in 1..n
      PROVE  /\ IsInjective(port'[k].content)
             /\ \A c \in Contents(port'[k].content) : c <= changes' /\ c \notin lost' /\ detected'[c] = 0
             /\ Contents(port'[k].content) \cap Contents(kept') = {}
             /\ \A t \in Threads : at'[t] = "read" =>
                   Unread(t) \cap Contents(port'[k].content) = {}
  <2>1. /\ IsInjective(port[k].content) /\ Contents(port[k].content) \cap Contents(kept) = {}
        /\ \A t \in Threads : at[t] = "read" => Unread(t) \cap Contents(port[k].content) = {}
    BY <1>1 DEF UnreadInOnePlace, n
  <2>2. \A c \in Contents(port[k].content) : c <= changes' /\ c \notin lost' /\ detected'[c] = 0
    BY <1>5, <1>6, UnreadAreChanges DEF n
  <2>3. port'[k] = port[k]
    BY <1>1
  <2> QED
    BY <1>7, <2>1, <2>2, <2>3
<1>10. /\ IsInjective(port'[n + 1].content)
       /\ \A c \in Contents(port'[n + 1].content) : c <= changes' /\ c \notin lost' /\ detected'[c] = 0
       /\ Contents(port'[n + 1].content) \cap Contents(kept') = {}
       /\ \A t \in Threads : at'[t] = "read" =>
             Unread(t) \cap Contents(port'[n + 1].content) = {}
       /\ \A k \in 1..n : Contents(port'[k].content) \cap Contents(port'[n + 1].content) = {}
  BY <1>1 DEF n
<1>11. ASSUME NEW j \in 1..Len(port'), NEW k \in 1..Len(port'), j # k
       PROVE  Contents(port'[j].content) \cap Contents(port'[k].content) = {}
  <2>1. CASE j \in 1..n /\ k \in 1..n
    BY <1>1, <1>11, <2>1 DEF UnreadInOnePlace, n
  <2>2. CASE j = n + 1 \/ k = n + 1
    BY <1>2, <1>10, <1>11, <2>2
  <2> QED
    BY <1>2, <2>1, <2>2
<1>12. ASSUME NEW t \in Threads, at'[t] = "read"
       PROVE  /\ IsInjective(range'[t].content)
              /\ \A c \in Unread(t) : c <= changes' /\ c \notin lost' /\ detected'[c] = 0
              /\ Unread(t) \cap Contents(kept') = {}
  <2>1. at[t] = "read" /\ range'[t] = range[t] /\ Unread(t)' = Unread(t)
    BY <1>3, <1>12
  <2>2. IsInjective(range[t].content) /\ Unread(t) \cap Contents(kept) = {}
    BY <1>1, <2>1 DEF UnreadInOnePlace
  <2>3. \A c \in Unread(t) : c <= changes' /\ c \notin lost' /\ detected'[c] = 0
    BY <1>5, <1>6, <2>1, UnreadAreChanges
  <2> QED
    BY <1>7, <2>1, <2>2, <2>3
<1>13. IsInjective(kept)' /\ Untouched(Contents(kept))'
  BY <1>4, <1>7, <1>8 DEF Untouched
<1>14. \A k \in 1..Len(port') :
          /\ IsInjective(port[k].content)' /\ Untouched(Contents(port[k].content))'
          /\ Contents(port[k].content)' \cap Contents(kept)' = {}
          /\ \A j \in 1..Len(port') \ {k} :
                Contents(port[j].content)' \cap Contents(port[k].content)' = {}
  BY <1>2, <1>4, <1>9, <1>10, <1>11 DEF Untouched
<1>15. \A t \in Threads : at'[t] = "read" =>
          /\ IsInjective(range[t].content)' /\ Untouched(Unread(t))'
          /\ Unread(t)' \cap Contents(kept)' = {}
          /\ \A k \in 1..Len(port') : Unread(t)' \cap Contents(port[k].content)' = {}
  BY <1>2, <1>3, <1>4, <1>9, <1>10, <1>12 DEF Untouched
<1> QED
  BY <1>13, <1>14, <1>15 DEF UnreadInOnePlace

\* What remains of ReadInv after a step that reads no change.
LEMMA NothingRead ==
  ASSUME ReadInv, WatchInv', UnreadInOnePlace', UNCHANGED detected,
         changes' \in Nat, changes <= changes',
         \A t \in Threads : at'[t] = "read" => at[t] = "read" /\ range'[t] = range[t],
         \A c \in lost' : c \in lost \/ (c \in 1..changes' /\ detected[c] = 0)
  PROVE  ReadInv'
<1>1. DetectedAtMostOnce'
  BY AtMostOnceStays
<1>2. \A t \in Threads : at'[t] = "read" => IteratorFits(t)'
  BY IteratorsStay DEF ReadInv
<1>3. detected' \in [1..MaxChanges -> Nat] /\ lost' \subseteq 1..changes'
  <2>1. lost \subseteq 1..changes /\ changes \in Nat
    BY UnreadAreChanges DEF ReadInv
  <2>2. 1..changes \subseteq 1..changes'
    BY <2>1
  <2> QED
    BY <2>1, <2>2 DEF ReadInv
<1> QED
  BY <1>1, <1>2, <1>3 DEF ReadInv

\* A step that leaves the port alone and drops changes that the kernel kept, or none.
LEMMA PortStays ==
  ASSUME ReadInv, WatchInv', UNCHANGED <<detected, port>>, changes' \in Nat, changes <= changes',
         \/ kept' = kept /\ (\A c \in lost' : c \in lost \/ (c \in 1..changes' /\ c > changes))
         \/ kept' = <<>> /\ (\A c \in lost' : \/ c \in lost \/ c \in Contents(kept)
                                              \/ (c \in 1..changes' /\ c > changes)),
         \A t \in Threads : at'[t] = "read" => at[t] = "read" /\ range'[t] = range[t]
  PROVE  ReadInv'
<1> DEFINE from == [k \in 1..Len(port') |-> k]
<1>1. /\ \A k \in 1..Len(port') : from[k] \in 1..Len(port) /\ port'[k].content = port[from[k]].content
      /\ \A j, k \in 1..Len(port') : from[j] = from[k] => j = k
  OBVIOUS
<1> HIDE DEF from
<1>2. UnreadInOnePlace /\ changes \in Nat /\ \A c \in 1..changes' : c \in Nat
  BY UnreadAreChanges DEF ReadInv
<1>3. ASSUME NEW c \in lost', c \notin lost, c \in 1..changes', c > changes
      PROVE  /\ c \notin Contents(kept) /\ detected[c] = 0
             /\ \A k \in 1..Len(port) : c \notin Contents(port[k].content)
             /\ \A t \in Threads : at[t] = "read" => c \notin Unread(t)
  <2>1. ~(c <= changes)
    BY <1>2, <1>3
  <2>2. c \in 1..MaxChanges
    BY <1>3 DEF WatchInv, WatchTypeOK
  <2>3. detected[c] <= 0 /\ detected[c] \in Nat
    BY <1>3, <2>2 DEF ReadInv, DetectedAtMostOnce
  <2> QED
    BY <2>1, <2>3, UnreadAreChanges
<1>4. ASSUME NEW c \in Contents(kept)
      PROVE  /\ \A k \in 1..Len(port) : c \notin Contents(port[k].content)
             /\ \A t \in Threads : at[t] = "read" => c \notin Unread(t)
             /\ detected[c] = 0 /\ c \in 1..changes'
  <2>1. c \in 1..MaxChanges /\ c <= changes /\ detected[c] = 0 /\ MaxChanges \in Nat
    BY UnreadAreChanges
  <2>2. c \in 1..changes'
    BY <1>2, <2>1
  <2> QED
    BY <1>2, <2>1, <2>2 DEF UnreadInOnePlace
<1>5. \A c \in lost' \ lost :
         /\ c \notin Contents(kept')
         /\ \A k \in 1..Len(port') : c \notin Contents(port'[k].content)
         /\ \A t \in Threads : at'[t] = "read" => c \notin Unread(t)
         /\ c \in 1..changes' /\ detected[c] = 0
  <2> TAKE c \in lost' \ lost
  <2>1. CASE c \in 1..changes' /\ c > changes
    BY <1>3, <2>1, NothingUnread
  <2>2. CASE kept' = <<>> /\ c \in Contents(kept)
    BY <1>4, <2>2, NothingUnread
  <2> QED
    BY <2>1, <2>2
<1>6. InOnePlace(Threads)'
  <2>1. \A c : c \in lost' \ lost \/ detected'[c] # detected[c] =>
           /\ c \notin Contents(kept')
           /\ \A k \in 1..Len(port') : c \notin Contents(port'[k].content)
           /\ \A t \in Threads : at'[t] = "read" => c \notin Unread(t)
    BY <1>5
  <2>2. \A k \in 1..Len(port') :
           \/ port'[k].content = <<>>
           \/ from[k] \in 1..Len(port) /\ port'[k].content = port[from[k]].content
    BY <1>1
  <2>3. kept' = kept \/ kept' = <<>>
    OBVIOUS
  <2>4. Threads \in SUBSET Threads
    OBVIOUS
  <2> QED
    BY <1>1, <2>1, <2>2, <2>3, <2>4, PlacesKept
<1>7. UnreadInOnePlace'
  BY <1>6 DEF InOnePlace, UnreadInOnePlace
<1> QED
  BY <1>5, <1>7, NothingRead

\* What somebody else posts, or the entry of a read that failed, has no changes.
LEMMA EmptyEntryRead ==
  ASSUME ReadInv, WatchInv', UNCHANGED <<changes, kept, lost, detected, at, range, object>>,
         NEW e \in Entries, Port!Post(e), e.content = <<>>
  PROVE  ReadInv'
<1>1. changes \in Nat /\ changes <= changes'
  BY UnreadAreChanges
<1>2. IsInjective(e.content) /\ \A c \in Contents(e.content) : FALSE
  BY NothingUnread
<1>3. UnreadInOnePlace'
  BY <1>1, <1>2, EntryGetsChanges
<1> QED
  BY <1>1, <1>3, NothingRead

LEMMA PendingRead ==
  ASSUME WatchInv, reads # <<>> PROVE Head(reads) \in Objects
BY HeadTailProperties DEF WatchInv, WatchTypeOK

LEMMA FailRead ==
  ASSUME ReadInv, Fail PROVE ReadInv'
<1> DEFINE e == Entry(Head(reads), <<>>, FALSE)
<1>1. WatchInv'
  BY FailStep DEF ReadInv
<1>2. /\ Port!Post(e) /\ UNCHANGED <<changes, kept, lost, detected, at, range, object>>
  BY DEF Fail, threadVars, historyVars
<1>3. e \in Entries /\ e.content = <<>>
  <2>1. Head(reads) \in Objects
    BY PendingRead DEF ReadInv, Fail
  <2> QED
    BY <2>1, EmptySeq DEF Entry, Entries, Objects
<1> HIDE DEF e
<1> QED
  BY <1>1, <1>2, <1>3, EmptyEntryRead

LEMMA PostOtherRead ==
  ASSUME ReadInv, PostOther PROVE ReadInv'
<1>1. WatchInv'
  BY PostOtherStep DEF ReadInv
<1>2. /\ Port!Post(Other) /\ UNCHANGED <<changes, kept, lost, detected, at, range, object>>
  BY DEF PostOther, kernelVars, threadVars, historyVars
<1>3. Other \in Entries /\ Other.content = <<>>
  BY EmptySeq DEF Other, Entries, ReadInv, WatchInv, WatchTypeOK, Objects
<1> QED
  BY <1>1, <1>2, <1>3, EmptyEntryRead

\* A new change has not been anywhere.
LEMMA NewChange ==
  ASSUME ReadInv, changes < MaxChanges, NEW c, c = changes + 1
  PROVE  /\ c \in 1..MaxChanges /\ c \in Nat /\ changes \in Nat /\ c > changes
         /\ c \notin lost /\ detected[c] = 0 /\ c \notin Contents(kept)
         /\ \A k \in 1..Len(port) : c \notin Contents(port[k].content)
         /\ \A t \in Threads : at[t] = "read" => c \notin Unread(t)
<1>1. c \in 1..MaxChanges /\ changes \in Nat /\ c > changes /\ ~(c <= changes) /\ c \in Nat
  BY UnreadAreChanges
<1>2. c \notin lost
  BY <1>1 DEF ReadInv
<1>3. detected[c] <= 0 /\ detected[c] \in Nat
  BY <1>1 DEF ReadInv, DetectedAtMostOnce
<1> QED
  BY <1>1, <1>2, <1>3, UnreadAreChanges

LEMMA ChangeRead ==
  ASSUME ReadInv, Change PROVE ReadInv'
<1> DEFINE c == changes + 1
<1>1. WatchInv'
  BY ChangeStep DEF ReadInv
<1>2. /\ changes < MaxChanges /\ changes' = c
      /\ UNCHANGED <<detected, at, range, object>>
  BY DEF Change, threadVars
<1>3. /\ c \in 1..MaxChanges /\ c \in Nat /\ changes \in Nat /\ c > changes
      /\ c \notin lost /\ detected[c] = 0 /\ c \notin Contents(kept)
      /\ \A k \in 1..Len(port) : c \notin Contents(port[k].content)
      /\ \A t \in Threads : at[t] = "read" => c \notin Unread(t)
  BY <1>2, NewChange
<1>4. changes' \in Nat /\ changes <= changes' /\ c \in 1..changes' /\ changes \in Nat
  BY <1>2, <1>3
<1>a. \A s : s = <<c>> => Contents(s) = {c} /\ IsInjective(s)
  BY DEF Contents, IsInjective
<1>5. CASE reads # <<>>
  <2> DEFINE e == Entry(Head(reads), <<c>>, TRUE)
  <2>1. Port!Post(e) /\ UNCHANGED <<kept, lost>>
    BY <1>2, <1>5 DEF Change, Report
  <2>2. e \in Entries /\ e.content = <<c>>
    <3>1. Head(reads) \in Objects
      BY <1>5, PendingRead DEF ReadInv
    <3>2. <<c>> \in Seq(1..MaxChanges)
      BY <1>3
    <3> QED
      BY <3>1, <3>2 DEF Entry, Entries, Objects
  <2>3. IsInjective(e.content) /\ Contents(e.content) = {c}
    BY <1>a, <2>2
  <2> HIDE DEF e, c
  <2>4. c <= changes'
    BY <1>2, <1>3
  <2>5. UnreadInOnePlace'
    BY <1>2, <1>3, <1>4, <2>1, <2>2, <2>3, <2>4, EntryGetsChanges
  <2> QED
    BY <1>1, <1>2, <1>4, <2>1, <2>5, NothingRead
<1>6. CASE reads = <<>> /\ ~(kept' = Append(kept, changes') /\ UNCHANGED lost)
  <2>1. UNCHANGED port
    BY <1>6 DEF Change
  <2>2. \/ kept' = kept /\ lost' = lost \cup {c}
        \/ kept' = <<>> /\ lost' = lost \cup {c} \cup Contents(kept)
    BY <1>2, <1>6 DEF Change
  <2> HIDE DEF c
  <2>3. \/ kept' = kept /\ (\A x \in lost' : x \in lost \/ (x \in 1..changes' /\ x > changes))
        \/ kept' = <<>> /\ (\A x \in lost' : \/ x \in lost \/ x \in Contents(kept)
                                             \/ (x \in 1..changes' /\ x > changes))
    BY <1>3, <1>4, <2>2
  <2> QED
    BY <1>1, <1>2, <1>4, <2>1, <2>3, PortStays
<1>7. CASE reads = <<>> /\ kept' = Append(kept, changes') /\ UNCHANGED lost
  <2>1. UNCHANGED port
    BY <1>7 DEF Change
  <2>2. kept \in Seq(1..MaxChanges) /\ UnreadInOnePlace
    BY DEF ReadInv, WatchInv, WatchTypeOK
  <2> HIDE DEF c
  <2>3. /\ Len(kept') = Len(kept) + 1 /\ Len(kept) \in Nat
        /\ \A k \in 1..Len(kept) : kept'[k] = kept[k]
        /\ kept'[Len(kept) + 1] = c
        /\ kept' \in Seq(1..MaxChanges)
    BY <1>2, <1>3, <1>7, <2>2, AppendProperties, LenProperties
  <2>4. \A k \in 1..Len(kept') : k \in 1..Len(kept) \/ k = Len(kept) + 1
    BY <2>3
  <2>5. Contents(kept') = Contents(kept) \cup {c}
    <3>1. \A k \in 1..Len(kept) : k \in 1..Len(kept')
      BY <2>3
    <3>2. Len(kept) + 1 \in 1..Len(kept')
      BY <2>3
    <3> QED
      BY <2>3, <2>4, <3>1, <3>2 DEF Contents
  <2>6. DOMAIN kept' = 1..Len(kept') /\ DOMAIN kept = 1..Len(kept)
    BY <2>2, <2>3, LenProperties
  <2>7. IsInjective(kept')
    <3> SUFFICES ASSUME NEW j \in 1..Len(kept'), NEW k \in 1..Len(kept'), kept'[j] = kept'[k]
                 PROVE  j = k
      BY <2>6 DEF IsInjective
    <3>1. \A i \in 1..Len(kept) : kept[i] # c
      BY <1>3 DEF Contents
    <3>2. CASE j \in 1..Len(kept) /\ k \in 1..Len(kept)
      BY <2>2, <2>3, <2>6, <3>2 DEF UnreadInOnePlace, IsInjective
    <3> QED
      BY <2>3, <2>4, <3>1, <3>2
  <2>8. \A x \in Nat : x <= changes => x <= changes'
    BY <1>4
  <2>9. \A x : x \in 1..MaxChanges => x \in Nat
    OBVIOUS
  <2>10. ASSUME NEW S, \A x \in S : x \in 1..MaxChanges, Untouched(S)
         PROVE  \A x \in S : x <= changes' /\ x \notin lost' /\ detected'[x] = 0
    BY <1>2, <1>7, <2>8, <2>9, <2>10 DEF Untouched
  <2>11. \A t \in Threads : Unread(t)' = Unread(t) /\ at'[t] = at[t]
    BY <1>2 DEF Unread, Current
  <2>12. Untouched(Contents(kept))'
    <3>1. \A x \in Contents(kept) : x <= changes' /\ x \notin lost' /\ detected'[x] = 0
      BY <2>2, <2>10, UnreadAreChanges DEF UnreadInOnePlace
    <3>2. c <= changes' /\ c \notin lost' /\ detected'[c] = 0
      BY <1>2, <1>3, <1>4, <1>7
    <3>3. Contents(kept)' = Contents(kept')
      BY DEF Contents
    <3> QED
      BY <2>5, <3>1, <3>2, <3>3 DEF Untouched
  <2>13. \A k \in 1..Len(port) :
            /\ IsInjective(port[k].content) /\ Untouched(Contents(port[k].content))'
            /\ Contents(port[k].content) \cap Contents(kept') = {}
            /\ \A j \in 1..Len(port) \ {k} :
                  Contents(port[j].content) \cap Contents(port[k].content) = {}
    <3> TAKE k \in 1..Len(port)
    <3>1. /\ IsInjective(port[k].content) /\ Untouched(Contents(port[k].content))
          /\ Contents(port[k].content) \cap Contents(kept) = {}
          /\ \A j \in 1..Len(port) \ {k} :
                Contents(port[j].content) \cap Contents(port[k].content) = {}
      BY <2>2 DEF UnreadInOnePlace
    <3>2. \A x \in Contents(port[k].content) : x <= changes' /\ x \notin lost' /\ detected'[x] = 0
      BY <2>10, <3>1, UnreadAreChanges
    <3>3. Contents(port[k].content)' = Contents(port[k].content)
      BY <2>1 DEF Contents
    <3> QED
      BY <1>3, <2>5, <3>1, <3>2, <3>3 DEF Untouched
  <2>14. \A t \in Threads : at[t] = "read" =>
            /\ IsInjective(range[t].content) /\ Untouched(Unread(t))'
            /\ Unread(t) \cap Contents(kept') = {}
            /\ \A k \in 1..Len(port) : Unread(t) \cap Contents(port[k].content) = {}
    <3> SUFFICES ASSUME NEW t \in Threads, at[t] = "read"
                 PROVE  /\ IsInjective(range[t].content) /\ Untouched(Unread(t))'
                        /\ Unread(t) \cap Contents(kept') = {}
                        /\ \A k \in 1..Len(port) : Unread(t) \cap Contents(port[k].content) = {}
      OBVIOUS
    <3>1. /\ IsInjective(range[t].content) /\ Untouched(Unread(t))
          /\ Unread(t) \cap Contents(kept) = {}
          /\ \A k \in 1..Len(port) : Unread(t) \cap Contents(port[k].content) = {}
      BY <2>2 DEF UnreadInOnePlace
    <3>2. \A x \in Unread(t) : x <= changes' /\ x \notin lost' /\ detected'[x] = 0
      BY <2>10, <3>1, UnreadAreChanges
    <3> QED
      BY <1>3, <2>5, <2>11, <3>1, <3>2 DEF Untouched
  <2>15. UnreadInOnePlace'
    <3>1. Contents(kept)' = Contents(kept') /\ \A k : Contents(port[k].content)' = Contents(port[k].content)
      BY <2>1 DEF Contents
    <3> QED
      BY <1>2, <2>1, <2>7, <2>11, <2>12, <2>13, <2>14, <3>1 DEF UnreadInOnePlace
  <2> QED
    BY <1>1, <1>2, <1>4, <1>7, <2>15, NothingRead
<1> QED
  BY <1>5, <1>6, <1>7

\* The kernel reports all that it kept in one entry, or nothing.
LEMMA StartWatchRead ==
  ASSUME ReadInv, NEW t \in Threads, StartWatch(t) PROVE ReadInv'
<1> DEFINE e == Entry(object, kept, TRUE)
<1>1. WatchInv' /\ UnreadInOnePlace
  BY StartWatchStep DEF ReadInv
<1>2. /\ UNCHANGED <<changes, lost, detected, object, range>>
      /\ at' = [at EXCEPT ![t] = "wait"] /\ at \in [Threads -> {"absent", "wait", "read", "start", "aborted"}]
      /\ changes \in Nat /\ changes <= changes'
  BY UnreadAreChanges DEF StartWatch, boundVars, historyVars, ReadInv, WatchInv, WatchTypeOK
<1>3. \A u \in Threads : at'[u] = "read" => at[u] = "read" /\ range'[u] = range[u]
  BY <1>2
<1>4. CASE Report(object, kept) /\ kept' = <<>>
  <2>1. Port!Post(e)
    BY <1>4 DEF Report
  <2>2. e \in Entries /\ e.content = kept
    BY DEF Entry, Entries, Objects, ReadInv, WatchInv, WatchTypeOK
  <2> HIDE DEF e
  <2>3. IsInjective(e.content)
    BY <1>1, <2>2 DEF UnreadInOnePlace
  <2>4. \A c \in Contents(e.content) :
            /\ c <= changes' /\ c \notin lost /\ detected[c] = 0 /\ c \notin Contents(kept')
            /\ \A k \in 1..Len(port) : c \notin Contents(port[k].content)
            /\ \A u \in Threads : at[u] = "read" => c \notin Unread(u)
    <3> TAKE c \in Contents(e.content)
    <3>1. c <= changes' /\ c \notin lost /\ detected[c] = 0
      BY <1>2, <2>2, UnreadAreChanges
    <3>2. c \notin Contents(kept')
      BY <1>4, NothingUnread
    <3> QED
      BY <1>1, <2>2, <3>1, <3>2 DEF UnreadInOnePlace
  <2>5. UnreadInOnePlace'
    BY <1>2, <1>3, <1>4, <2>1, <2>2, <2>3, <2>4, EntryGetsChanges
  <2> QED
    BY <1>1, <1>2, <1>3, <2>5, NothingRead
<1>5. CASE UNCHANGED <<kept, port>>
  BY <1>1, <1>2, <1>3, <1>5, PortStays
<1> QED
  BY <1>4, <1>5 DEF StartWatch

LEMMA StartWatchFailsRead ==
  ASSUME ReadInv, NEW t \in Threads, StartWatchFails(t) PROVE ReadInv'
<1>1. WatchInv' /\ changes \in Nat /\ changes <= changes
  BY StartWatchFailsStep, UnreadAreChanges DEF ReadInv
<1>2. /\ UNCHANGED <<changes, lost, detected, range, kept, port>>
      /\ at' = at \/ at' = [at EXCEPT ![t] = "wait"]
      /\ at \in [Threads -> {"absent", "wait", "read", "start", "aborted"}]
  BY DEF StartWatchFails, kernelVars, ReadInv, WatchInv, WatchTypeOK
<1>3. \A u \in Threads : at'[u] = "read" => at[u] = "read" /\ range'[u] = range[u]
  BY <1>2
<1> QED
  BY <1>1, <1>2, <1>3, PortStays

LEMMA MoveRead ==
  ASSUME ReadInv, Move PROVE ReadInv'
<1>1. WatchInv' /\ changes \in Nat /\ changes <= changes
  BY MoveStep, UnreadAreChanges DEF ReadInv
<1>2. UNCHANGED <<changes, lost, detected, at, range, kept, port>>
  BY DEF Move, kernelVars, threadVars
<1> QED
  BY <1>1, <1>2, PortStays

\* The kernel forgets what it kept; the entries of the reads that end have no changes.
LEMMA ReplaceRead ==
  ASSUME ReadInv, NEW t \in Threads, Replace(t) PROVE ReadInv'
<1> DEFINE ended == [k \in 1..Len(reads) |-> Entry(reads[k], <<>>, TRUE)]
<1>1. WatchInv' /\ changes \in Nat /\ UnreadInOnePlace
  BY ReplaceStep, UnreadAreChanges DEF ReadInv
<1>2. /\ UNCHANGED <<changes, detected, range>> /\ kept' = <<>>
      /\ lost' = lost \cup Contents(kept) /\ port' = port \o ended
      /\ at' = [at EXCEPT ![t] = "start"]
      /\ at \in [Threads -> {"absent", "wait", "read", "start", "aborted"}]
      /\ port \in Seq(Entries) /\ reads \in Seq(Objects)
  BY DEF Replace, ReadInv, WatchInv, WatchTypeOK
<1>3. \A u \in Threads : at'[u] = "read" => at[u] = "read" /\ range'[u] = range[u]
  BY <1>2
<1>4. /\ ended \in Seq(Entries) /\ Len(ended) = Len(reads) /\ Len(reads) \in Nat
      /\ \A k \in 1..Len(reads) : ended[k].content = <<>>
  <2>1. Len(reads) \in Nat /\ \A k \in 1..Len(reads) : reads[k] \in Objects
    BY <1>2, ElementOfSeq, LenProperties
  <2>2. ended \in [1..Len(reads) -> Entries]
    BY <2>1, EmptySeq DEF Entry, Entries, Objects
  <2>3. ended \in Seq(Entries)
    BY <2>1, <2>2, SeqDef
  <2>4. Len(ended) = Len(reads)
    BY <2>1, <2>2, <2>3, LenProperties
  <2>5. \A k \in 1..Len(reads) : ended[k].content = <<>>
    BY DEF Entry
  <2> QED
    BY <2>1, <2>3, <2>4, <2>5
<1> HIDE DEF ended
<1>5. /\ Len(port') = Len(port) + Len(reads) /\ Len(port) \in Nat
      /\ \A k \in 1..Len(port') :
            port'[k] = IF k <= Len(port) THEN port[k] ELSE ended[k - Len(port)]
  <2>1. /\ Len(port \o ended) = Len(port) + Len(ended)
        /\ \A k \in 1..(Len(port) + Len(ended)) :
              (port \o ended)[k] = IF k <= Len(port) THEN port[k] ELSE ended[k - Len(port)]
    BY <1>2, <1>4, ConcatProperties
  <2> QED
    BY <1>2, <1>4, <2>1, LenProperties
<1> DEFINE from == [k \in 1..Len(port') |-> k]
<1>6. \A k \in 1..Len(port') : from[k] = k
  OBVIOUS
<1> HIDE DEF from
<1>7. \A k \in 1..Len(port') :
         \/ port'[k].content = <<>>
         \/ from[k] \in 1..Len(port) /\ port'[k].content = port[from[k]].content
  <2> TAKE k \in 1..Len(port')
  <2>1. CASE k <= Len(port)
    BY <1>5, <1>6, <2>1
  <2>2. CASE ~(k <= Len(port))
    <3>1. k - Len(port) \in 1..Len(reads)
      BY <1>4, <1>5, <2>2
    <3> QED
      BY <1>4, <1>5, <2>2, <3>1
  <2> QED
    BY <2>1, <2>2
<1>8. \A j, k \in 1..Len(port') : from[j] = from[k] => j = k
  BY <1>6
<1>9. ASSUME NEW c \in Contents(kept)
      PROVE  /\ \A k \in 1..Len(port) : c \notin Contents(port[k].content)
             /\ \A u \in Threads : at[u] = "read" => c \notin Unread(u)
             /\ detected[c] = 0 /\ c \in 1..changes'
  <2>1. c \in 1..MaxChanges /\ c <= changes /\ detected[c] = 0 /\ MaxChanges \in Nat
    BY UnreadAreChanges
  <2>2. c \in 1..changes'
    BY <1>1, <1>2, <2>1
  <2> QED
    BY <1>1, <2>1, <2>2 DEF UnreadInOnePlace
<1>10. \A c : c \in lost' \ lost \/ detected'[c] # detected[c] =>
            /\ c \notin Contents(kept')
            /\ \A k \in 1..Len(port') : c \notin Contents(port'[k].content)
            /\ \A u \in Threads : at'[u] = "read" => c \notin Unread(u)
  <2> SUFFICES ASSUME NEW c \in Contents(kept)
               PROVE  /\ c \notin Contents(kept')
                      /\ \A k \in 1..Len(port') : c \notin Contents(port'[k].content)
                      /\ \A u \in Threads : at'[u] = "read" => c \notin Unread(u)
    BY <1>2
  <2> QED
    BY <1>2, <1>3, <1>7, <1>9, NothingUnread
<1>11. InOnePlace(Threads)'
  <2>1. kept' = kept \/ kept' = <<>>
    BY <1>2
  <2>2. Threads \in SUBSET Threads /\ changes' \in Nat /\ changes <= changes'
    BY <1>1, <1>2
  <2> QED
    BY <1>3, <1>7, <1>8, <1>10, <2>1, <2>2, PlacesKept
<1>12. UnreadInOnePlace'
  BY <1>11 DEF InOnePlace, UnreadInOnePlace
<1>13. \A c \in lost' : c \in lost \/ (c \in 1..changes' /\ detected[c] = 0)
  BY <1>2, <1>9
<1>14. UNCHANGED detected /\ changes' \in Nat /\ changes <= changes'
  BY <1>1, <1>2
<1> QED
  BY <1>1, <1>3, <1>12, <1>13, <1>14, NothingRead

LEMMA WaitRead ==
  ASSUME ReadInv, NEW t \in Threads, Wait(t) PROVE ReadInv'
<1> DEFINE x == Port!Oldest
<1>1. WatchInv' /\ changes \in Nat /\ UnreadInOnePlace
  BY WaitStep, UnreadAreChanges DEF ReadInv
<1>2. /\ at[t] = "wait" /\ Port!Get /\ UNCHANGED <<changes, object, kept, detected>>
      /\ at \in [Threads -> {"absent", "wait", "read", "start", "aborted"}]
      /\ DOMAIN range = Threads /\ port \in Seq(Entries)
  BY DEF Wait, boundVars, kernelVars, ReadInv, WatchInv, WatchTypeOK
<1>3. /\ x \in Entries /\ x = port[1] /\ port # <<>>
      /\ \A k \in 1..Len(port') : k + 1 \in 1..Len(port) /\ port'[k] = port[k + 1] /\ k + 1 # 1
  BY <1>2, EntryTaken DEF Port!Get
<1>4. \/ /\ IsValidDirectoryChange(x) /\ at' = [at EXCEPT ![t] = "read"]
         /\ range' = [range EXCEPT ![t] = [content |-> x.content,
                                  it |-> Iterator(0, BytesTransferred(Lengths(x.content)))]]
         /\ UNCHANGED lost
      \/ /\ \E a \in {"start", "aborted", "wait"} : at' = [at EXCEPT ![t] = a]
         /\ lost' = lost \cup Contents(x.content)
         /\ UNCHANGED range
  BY DEF Wait, historyVars
<1> HIDE DEF x
<1> DEFINE from == [k \in 1..Len(port') |-> k + 1]
<1>5. /\ \A k \in 1..Len(port') :
           \/ port'[k].content = <<>>
           \/ from[k] \in 1..Len(port) /\ port'[k].content = port[from[k]].content
      /\ \A j, k \in 1..Len(port') : from[j] = from[k] => j = k
  <2>1. \A k \in 1..Len(port') : from[k] = k + 1
    OBVIOUS
  <2>2. \A j, k \in 1..Len(port') : j + 1 = k + 1 => j = k
    OBVIOUS
  <2> HIDE DEF from
  <2> QED
    BY <1>3, <2>1, <2>2
<1> HIDE DEF from
<1>6. 1 \in 1..Len(port)
  <2>1. Len(port) \in Nat \ {0}
    BY <1>2, <1>3, EmptySeq, LenProperties
  <2> QED
    BY <2>1
<1>7. /\ \A k \in 1..Len(port') : Contents(port'[k].content) \cap Contents(x.content) = {}
      /\ Contents(x.content) \cap Contents(kept) = {}
      /\ \A u \in Threads : at[u] = "read" => Unread(u) \cap Contents(x.content) = {}
      /\ IsInjective(x.content)
      /\ \A c \in Contents(x.content) :
            /\ c \in 1..changes /\ c <= changes /\ c \notin lost /\ detected[c] = 0
  <2>1. ASSUME NEW k \in 1..Len(port')
        PROVE  Contents(port'[k].content) \cap Contents(x.content) = {}
    BY <1>1, <1>3, <1>6 DEF UnreadInOnePlace
  <2>2. /\ Contents(x.content) \cap Contents(kept) = {}
        /\ \A u \in Threads : at[u] = "read" => Unread(u) \cap Contents(x.content) = {}
        /\ IsInjective(x.content)
    BY <1>1, <1>3, <1>6 DEF UnreadInOnePlace
  <2>3. \A c \in Contents(x.content) :
            c \in 1..MaxChanges /\ c <= changes /\ c \notin lost /\ detected[c] = 0
    BY <1>3, <1>6, UnreadAreChanges
  <2>4. \A c \in 1..MaxChanges : c <= changes => c \in 1..changes
    BY <1>1
  <2> QED
    BY <2>1, <2>2, <2>3, <2>4
<1>8. CASE /\ \E a \in {"start", "aborted", "wait"} : at' = [at EXCEPT ![t] = a]
           /\ lost' = lost \cup Contents(x.content)
           /\ UNCHANGED range
  <2>1. \A u \in Threads : at'[u] = "read" => at[u] = "read" /\ range'[u] = range[u]
    BY <1>2, <1>8
  <2>2. \A c : c \in lost' \ lost \/ detected'[c] # detected[c] =>
            /\ c \notin Contents(kept')
            /\ \A k \in 1..Len(port') : c \notin Contents(port'[k].content)
            /\ \A u \in Threads : at'[u] = "read" => c \notin Unread(u)
    <3> SUFFICES ASSUME NEW c \in Contents(x.content)
                 PROVE  /\ c \notin Contents(kept')
                        /\ \A k \in 1..Len(port') : c \notin Contents(port'[k].content)
                        /\ \A u \in Threads : at'[u] = "read" => c \notin Unread(u)
      BY <1>2, <1>8
    <3> QED
      BY <1>2, <1>7, <2>1
  <2>3. /\ kept' = kept \/ kept' = <<>>
        /\ Threads \in SUBSET Threads /\ changes' \in Nat /\ changes <= changes'
    BY <1>1, <1>2
  <2>4. InOnePlace(Threads)'
    BY <1>5, <2>1, <2>2, <2>3, PlacesKept
  <2>5. UnreadInOnePlace'
    BY <2>4 DEF InOnePlace, UnreadInOnePlace
  <2>6. \A c \in lost' : c \in lost \/ (c \in 1..changes' /\ detected[c] = 0)
    BY <1>2, <1>7, <1>8
  <2> QED
    BY <1>1, <1>2, <2>1, <2>3, <2>5, <2>6, NothingRead
<1>9. CASE /\ IsValidDirectoryChange(x) /\ at' = [at EXCEPT ![t] = "read"]
           /\ range' = [range EXCEPT ![t] = [content |-> x.content,
                                    it |-> Iterator(0, BytesTransferred(Lengths(x.content)))]]
           /\ UNCHANGED lost
  <2> DEFINE s == x.content
             lens == Lengths(s)
             it == Iterator(0, BytesTransferred(lens))
             R == Threads \ {t}
  <2>1. s \in Seq(1..MaxChanges) /\ BytesTransferred(lens) # 0
    BY <1>3, <1>9 DEF Entries, IsValidDirectoryChange
  <2>2. /\ it \in [current : Int, consumed : Nat, max : Nat] /\ it.current = 0
        /\ RecordAt(lens, 0) = 1
        /\ BytesTransferred(lens) - it.current <= AvailableSize(it)
    BY <2>1, IteratorBegins
  <2>3. range'[t] = [content |-> s, it |-> it]
    BY <1>2, <1>9
  <2> HIDE DEF it, lens, s
  <2>4. range'[t].content = s /\ range'[t].it = it
    BY <2>3
  <2>5. \A u \in R : /\ range'[u] = range[u] /\ at'[u] = at[u]
                     /\ at'[u] = "read" => at[u] = "read" /\ range'[u] = range[u]
    BY <1>2, <1>9
  <2>6. IteratorFits(t)' /\ Current(t)' = 1
    <3>1. Current(t)' = 1
      BY <2>2, <2>4 DEF Current, lens
    <3>2. range'[t] \in [content : Seq(1..MaxChanges),
                         it : [current : Int, consumed : Nat, max : Nat]]
      BY <2>1, <2>2, <2>3
    <3>3. BytesTransferred(Lengths(range'[t].content)) - range'[t].it.current
             <= AvailableSize(range'[t].it)
      BY <2>2, <2>4 DEF lens
    <3> QED
      BY <3>1, <3>2, <3>3 DEF IteratorFits
  <2>7. \A u \in Threads : at'[u] = "read" => IteratorFits(u)'
    <3>1. ASSUME NEW u \in R, at'[u] = "read" PROVE IteratorFits(u)'
      <4>1. IteratorFits(u) /\ range'[u] = range[u]
        BY <2>5, <3>1 DEF ReadInv
      <4> QED
        BY <4>1 DEF IteratorFits, Current
    <3> QED
      BY <2>6, <3>1
  <2>8. Unread(t)' = Contents(s)
    BY <2>4, <2>6 DEF Unread, Contents
  <2>9. InOnePlace(R)'
    <3>1. /\ kept' = kept \/ kept' = <<>>
          /\ R \in SUBSET Threads /\ changes' \in Nat /\ changes <= changes'
      BY <1>1, <1>2
    <3>2. \A c : c \in lost' \ lost \/ detected'[c] # detected[c] =>
              /\ c \notin Contents(kept')
              /\ \A k \in 1..Len(port') : c \notin Contents(port'[k].content)
              /\ \A u \in R : at'[u] = "read" => c \notin Unread(u)
      BY <1>2, <1>9
    <3>3. \A u \in R : at'[u] = "read" => at[u] = "read" /\ range'[u] = range[u]
      BY <2>5
    <3> HIDE DEF R
    <3> QED
      BY <1>5, <3>1, <3>2, <3>3, PlacesKept
  <2>10. /\ IsInjective(range[t].content)' /\ Untouched(Unread(t))'
         /\ Unread(t)' \cap Contents(kept)' = {}
         /\ \A k \in 1..Len(port') : Unread(t)' \cap Contents(port[k].content)' = {}
    <3>1. IsInjective(s) /\ Contents(s) \cap Contents(kept) = {}
          /\ \A k \in 1..Len(port') : Contents(port'[k].content) \cap Contents(s) = {}
      BY <1>7 DEF s
    <3>2. \A c \in Contents(s) : c <= changes' /\ c \notin lost' /\ detected'[c] = 0
      BY <1>2, <1>7, <1>9 DEF s
    <3>3. /\ Contents(kept)' = Contents(kept)
          /\ \A k : Contents(port[k].content)' = Contents(port'[k].content)
      BY <1>2 DEF Contents
    <3> QED
      BY <2>4, <2>8, <3>1, <3>2, <3>3 DEF Untouched
  <2>11. UnreadInOnePlace'
    <3>1. \A u \in Threads : u = t \/ u \in R
      OBVIOUS
    <3> HIDE DEF R
    <3> QED
      BY <2>9, <2>10, <3>1 DEF InOnePlace, UnreadInOnePlace
  <2>12. DetectedAtMostOnce' /\ lost' \subseteq 1..changes' /\ detected' \in [1..MaxChanges -> Nat]
    BY <1>2, <1>9 DEF ReadInv, DetectedAtMostOnce
  <2> QED
    BY <1>1, <2>7, <2>11, <2>12 DEF ReadInv
<1> QED
  BY <1>4, <1>8, <1>9

\* A thread reads the change at its iterator, which then stands after it.
LEMMA ReadRead ==
  ASSUME ReadInv, NEW t \in Threads, Read(t) PROVE ReadInv'
<1> DEFINE s == range[t].content
           lens == Lengths(s)
           k == Current(t)
           c == s[k]
           next == MoveToNext(range[t].it, lens, k)
           R == Threads \ {t}
<1>1. /\ WatchInv' /\ WatchInv /\ UnreadInOnePlace /\ changes \in Nat
      /\ at[t] = "read" /\ IteratorFits(t) /\ buffer = s
  BY ReadStep, UnreadAreChanges DEF ReadInv, Read, WatchInv, BufferOfEntry
<1>2. /\ UNCHANGED <<changes, object, kept, port, lost>>
      /\ at \in [Threads -> {"absent", "wait", "read", "start", "aborted"}]
      /\ DOMAIN range = Threads /\ detected \in [1..MaxChanges -> Nat]
  BY DEF Read, boundVars, kernelVars, historyVars, ReadInv, WatchInv, WatchTypeOK
<1>3. /\ s \in Seq(1..MaxChanges) /\ Len(lens) = Len(s) /\ Len(s) \in Nat
      /\ k \in 1..Len(s) /\ c \in 1..MaxChanges
  BY <1>1, CurrentRecord
<1>4. k # 0 /\ k = RecordAt(Lengths(buffer), range[t].it.current)
  BY <1>1, <1>3 DEF Current
<1>5. /\ detected' = [detected EXCEPT ![c] = @ + 1]
      /\ \/ /\ next.current = nullptr
            /\ range' = [range EXCEPT ![t] = NoRange] /\ at' = [at EXCEPT ![t] = "start"]
         \/ /\ next.current # nullptr
            /\ \E it \in {next, Copy(next)} : range' = [range EXCEPT ![t].it = it]
            /\ UNCHANGED at
  BY <1>1, <1>4 DEF Read
<1>6. /\ next.current = nullptr <=> k = Len(s)
      /\ \A it \in {next, Copy(next)} : k # Len(s) =>
               /\ it \in [current : Int, consumed : Nat, max : Nat]
               /\ RecordAt(lens, it.current) = k + 1 /\ k + 1 \in 1..Len(s)
               /\ BytesTransferred(lens) - it.current <= AvailableSize(it)
  BY <1>1, <1>3, IteratorMoves
<1> HIDE DEF s, lens, k, c, next
<1>7. c \in Unread(t)
  <2>1. k \in Current(t)..Len(range[t].content)
    BY <1>3 DEF k, s
  <2> QED
    BY <2>1, UnreadMember DEF c, s
<1>8. /\ c \notin Contents(kept) /\ \A j \in 1..Len(port) : c \notin Contents(port[j].content)
      /\ IsInjective(s) /\ Untouched(Unread(t))
      /\ Unread(t) \cap Contents(kept) = {}
      /\ \A j \in 1..Len(port) : Unread(t) \cap Contents(port[j].content) = {}
  BY <1>1, <1>7 DEF UnreadInOnePlace, s
<1>9. c <= changes /\ c \notin lost /\ detected[c] = 0
  BY <1>7, <1>8 DEF Untouched
<1>10. detected' \in [1..MaxChanges -> Nat] /\ detected'[c] = 1
       /\ \A x : x # c => detected'[x] = detected[x]
  BY <1>2, <1>3, <1>5, <1>9
<1>11. \A u \in R : at'[u] # "read"
  <2>1. \A u \in R : at[u] # "read"
    BY <1>1 DEF WatchInv, OneUser, Active
  <2> QED
    BY <1>2, <1>5, <2>1
<1>12. DetectedAtMostOnce'
  <2> SUFFICES ASSUME NEW x \in 1..MaxChanges
               PROVE  detected'[x] <= (IF x \in lost' \/ x > changes' THEN 0 ELSE 1)
    BY DEF DetectedAtMostOnce
  <2>1. CASE x # c
    BY <1>2, <1>10, <2>1 DEF ReadInv, DetectedAtMostOnce
  <2>2. CASE x = c
    <3>1. c \in Nat
      BY <1>3
    <3>2. ~(c > changes)
      BY <1>1, <1>9, <3>1
    <3> QED
      BY <1>2, <1>9, <1>10, <2>2, <3>2
  <2> QED
    BY <2>1, <2>2
<1>13. InOnePlace(R)'
  <2> DEFINE from == [j \in 1..Len(port') |-> j]
  <2>1. /\ \A j \in 1..Len(port') :
              \/ port'[j].content = <<>>
              \/ from[j] \in 1..Len(port) /\ port'[j].content = port[from[j]].content
        /\ \A i, j \in 1..Len(port') : from[i] = from[j] => i = j
    BY <1>2
  <2> HIDE DEF from
  <2>2. /\ kept' = kept \/ kept' = <<>>
        /\ R \in SUBSET Threads /\ changes' \in Nat /\ changes <= changes'
    BY <1>1, <1>2
  <2>3. \A x : x \in lost' \ lost \/ detected'[x] # detected[x] =>
              /\ x \notin Contents(kept')
              /\ \A j \in 1..Len(port') : x \notin Contents(port'[j].content)
              /\ \A u \in R : at'[u] = "read" => x \notin Unread(u)
    BY <1>2, <1>8, <1>10, <1>11
  <2>4. \A u \in R : at'[u] = "read" => at[u] = "read" /\ range'[u] = range[u]
    BY <1>11
  <2> HIDE DEF R
  <2> QED
    BY <2>1, <2>2, <2>3, <2>4, PlacesKept
<1>14. CASE at' = [at EXCEPT ![t] = "start"]
  <2>1. \A u \in Threads : at'[u] # "read"
    BY <1>2, <1>11, <1>14
  <2>2. UnreadInOnePlace'
    BY <1>13, <2>1 DEF InOnePlace, UnreadInOnePlace
  <2> QED
    BY <1>1, <1>2, <1>10, <1>12, <2>1, <2>2 DEF ReadInv
<1>15. CASE /\ next.current # nullptr
            /\ \E it \in {next, Copy(next)} : range' = [range EXCEPT ![t].it = it]
            /\ UNCHANGED at
  <2>1. PICK it \in {next, Copy(next)} : range' = [range EXCEPT ![t].it = it]
    BY <1>15
  <2>2. /\ it \in [current : Int, consumed : Nat, max : Nat]
        /\ RecordAt(lens, it.current) = k + 1 /\ k + 1 \in 1..Len(s)
        /\ BytesTransferred(lens) - it.current <= AvailableSize(it)
    BY <1>6, <1>15
  <2>3. range[t] \in [content : Seq(1..MaxChanges), it : [current : Int, consumed : Nat, max : Nat]]
    BY <1>1 DEF IteratorFits
  <2>4. /\ range'[t] = [content |-> s, it |-> it] /\ range'[t].content = s /\ range'[t].it = it
    BY <1>2, <2>1, <2>3 DEF s
  <2>5. IteratorFits(t)' /\ Current(t)' = k + 1
    <3>1. Current(t)' = k + 1
      BY <2>2, <2>4 DEF Current, lens
    <3>2. k + 1 # 0
      BY <1>3
    <3>3. range'[t] \in [content : Seq(1..MaxChanges),
                         it : [current : Int, consumed : Nat, max : Nat]]
      BY <1>3, <2>2, <2>4
    <3>4. BytesTransferred(Lengths(range'[t].content)) - range'[t].it.current
             <= AvailableSize(range'[t].it)
      BY <2>2, <2>4 DEF lens
    <3> QED
      BY <3>1, <3>2, <3>3, <3>4 DEF IteratorFits
  <2>6. \A u \in Threads : at'[u] = "read" => u = t
    BY <1>11
  <2>7. \A u \in Threads : at'[u] = "read" => IteratorFits(u)'
    BY <2>5, <2>6
  <2>8. Unread(t)' = {s[j] : j \in k + 1..Len(s)}
    BY <2>4, <2>5 DEF Unread
  <2>9. \A x \in Unread(t)' : x \in Unread(t) /\ x # c
    <3> SUFFICES ASSUME NEW j \in k + 1..Len(s) PROVE s[j] \in Unread(t) /\ s[j] # c
      BY <2>8
    <3>1. j \in k..Len(s) /\ j # k /\ j \in 1..Len(s)
      BY <1>3
    <3>2. s[j] \in Unread(t)
      BY <3>1, UnreadMember DEF k, s
    <3>3. DOMAIN s = 1..Len(s)
      BY <1>3, LenProperties
    <3>4. s[j] # s[k]
      BY <1>3, <1>8, <3>1, <3>3 DEF IsInjective
    <3> QED
      BY <3>2, <3>4 DEF c
  <2>10. /\ IsInjective(range[t].content)' /\ Untouched(Unread(t))'
         /\ Unread(t)' \cap Contents(kept)' = {}
         /\ \A j \in 1..Len(port') : Unread(t)' \cap Contents(port[j].content)' = {}
    <3>1. \A x \in Unread(t)' : x <= changes' /\ x \notin lost' /\ detected'[x] = 0
      BY <1>2, <1>8, <1>10, <2>9 DEF Untouched
    <3>2. /\ Contents(kept)' = Contents(kept)
          /\ \A j : Contents(port[j].content)' = Contents(port[j].content)
      BY <1>2 DEF Contents
    <3> QED
      BY <1>2, <1>8, <2>4, <2>9, <3>1, <3>2 DEF Untouched
  <2>11. UnreadInOnePlace'
    <3>1. \A u \in Threads : u = t \/ u \in R
      OBVIOUS
    <3> HIDE DEF R
    <3> QED
      BY <1>13, <2>10, <3>1 DEF InOnePlace, UnreadInOnePlace
  <2> QED
    BY <1>1, <1>2, <1>10, <1>12, <2>7, <2>11 DEF ReadInv
<1> QED
  BY <1>5, <1>14, <1>15

----------------------------------------------------------------------------
(* What the threads read *)

LEMMA InitRead == "header" \notin Clients /\ Init => ReadInv
<1> SUFFICES ASSUME "header" \notin Clients, Init PROVE ReadInv
  OBVIOUS
<1>1. WatchInv
  BY InitWatch
<1>2. kept = <<>> /\ port = <<>> /\ Len(<<>>) = 0 /\ \A k \in 1..0 : FALSE
  BY DEF Init, Port!PortInit
<1>3. \A t \in Threads : at[t] # "read"
  BY DEF Init
<1>4. UnreadInOnePlace
  BY <1>2, <1>3, NothingUnread DEF UnreadInOnePlace, Untouched
<1>5. /\ detected = [c \in 1..MaxChanges |-> 0] /\ lost = {} /\ changes = 0
  BY DEF Init
<1>6. DetectedAtMostOnce
  BY <1>5 DEF DetectedAtMostOnce
<1> QED
  BY <1>1, <1>3, <1>4, <1>5, <1>6 DEF ReadInv

LEMMA NextRead == ReadInv /\ [Next]_vars => ReadInv'
<1> SUFFICES ASSUME ReadInv, [Next]_vars PROVE ReadInv'
  OBVIOUS
<1>1. CASE UNCHANGED vars
  <2>1. UNCHANGED <<changes, kept, port, at, range, detected, lost>>
    BY <1>1 DEF vars, boundVars, kernelVars, threadVars, historyVars
  <2>2. WatchInv'
    BY <1>1, NextWatch DEF ReadInv
  <2>3. changes \in Nat /\ changes <= changes'
    BY <2>1, UnreadAreChanges
  <2> QED
    BY <2>1, <2>2, <2>3, PortStays
<1>2. CASE Change \/ Fail \/ PostOther \/ Move
  BY <1>2, ChangeRead, FailRead, PostOtherRead, MoveRead
<1>3. ASSUME NEW t \in Threads, Loop(t) \/ Replace(t) PROVE ReadInv'
  BY <1>3, WaitRead, ReadRead, StartWatchRead, StartWatchFailsRead, ReplaceRead DEF Loop
<1> QED
  BY <1>1, <1>2, <1>3 DEF Next

\* The invariant of the changes, for the same clients.
THEOREM WatchReadsCorrect == "header" \notin Clients => (Spec => []ReadInv)
<1> SUFFICES ASSUME "header" \notin Clients PROVE Spec => []ReadInv
  OBVIOUS
<1>1. Init => ReadInv
  BY InitRead
<1> QED
  BY <1>1, NextRead, PTL DEF Spec

\* A thread has a range exactly while it reads one, whatever it is told by the port.
THEOREM WatchTypeCorrect == "header" \notin Clients => (Spec => []TypeOK)
<1> SUFFICES ASSUME "header" \notin Clients PROVE Spec => []TypeOK
  OBVIOUS
<1>1. ReadInv => TypeOK
  <2> SUFFICES ASSUME ReadInv PROVE TypeOK
    OBVIOUS
  <2>1. ASSUME NEW t \in Threads PROVE at[t] = "read" <=> range[t] # NoRange
    <3>1. range[t] # NoRange => at[t] = "read"
      BY DEF ReadInv, WatchInv, BufferOfEntry
    <3>2. ASSUME at[t] = "read" PROVE range[t] # NoRange
      <4>1. range[t].it.current \in Nat
        BY <3>2, CurrentRecord DEF ReadInv
      <4>2. NoRange.it.current = -1
        BY DEF NoRange, Iterator, nullptr
      <4>3. -1 \notin Nat
        OBVIOUS
      <4> QED
        BY <4>1, <4>2, <4>3
    <3> QED
      BY <3>1, <3>2
  <2> QED
    BY <2>1 DEF TypeOK, ReadInv, WatchInv
<1> QED
  BY <1>1, WatchReadsCorrect, PTL

\* An iterator stays at a record that the kernel has written whole, with its
\* assertions true: the padding it does not count only makes it believe that more
\* is left.
THEOREM WatchIterators == "header" \notin Clients => (Spec => []IteratorInBounds)
<1> SUFFICES ASSUME "header" \notin Clients PROVE Spec => []IteratorInBounds
  OBVIOUS
<1>1. ReadInv => IteratorInBounds
  BY FitsInBounds DEF ReadInv, IteratorInBounds
<1> QED
  BY <1>1, WatchReadsCorrect, PTL

\* No change is read twice, and none that was dropped is read, with any number of
\* threads on the port and through moves, replacements and failures.
THEOREM WatchDetectsOnce == "header" \notin Clients => (Spec => []DetectedAtMostOnce)
<1> SUFFICES ASSUME "header" \notin Clients PROVE Spec => []DetectedAtMostOnce
  OBVIOUS
<1>1. ReadInv => DetectedAtMostOnce
  BY DEF ReadInv
<1> QED
  BY <1>1, WatchReadsCorrect, PTL
=============================================================================

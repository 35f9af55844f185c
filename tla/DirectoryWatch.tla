--------------------------- MODULE DirectoryWatch ---------------------------
(***************************************************************************)
(* DirectoryChanges (read_directory_changes.h): one directory, one buffer, *)
(* one OVERLAPPED, and threads that wait on the completion port, read the  *)
(* changes from the buffer and start the next watch.  The kernel writes    *)
(* into the buffer whenever a read is pending.                             *)
(*                                                                         *)
(* Clients:                                                                *)
(*   "header"            the loop of the header (lines 216-223), which     *)
(*                       calls start_watch() after every get();            *)
(*   "careful"           one that calls it after entries of its own watch  *)
(*                       only, as the comment on start_watch() asks, and   *)
(*                       that may move its DirectoryChanges and open       *)
(*                       another directory in its place;                   *)
(*   "fs_changes_print"  WatchForever, which has the port for itself;      *)
(*   "verbose"           the same with the option v;                       *)
(*   "rxcpp_fs_changes"  which looks at valid changes only.  Its           *)
(*                       assert(ec), which a start_watch() that succeeds   *)
(*                       fails, is compiled out.                           *)
(***************************************************************************)
EXTENDS Integers, Sequences, FiniteSets, NotifyRecords

CONSTANTS
    Threads,    \* threads that wait on the port
    Clients,    \* the clients to consider
    Capacity,   \* changes the kernel keeps while no read is pending
    MaxChanges, \* bound: changes in the directory
    MaxOthers,  \* bound: entries posted to the port by somebody else
    MaxFailures,\* bound: reads that fail once they are pending
    MaxRefusals,\* bound: start_watch() calls that fail
    MaxMoves    \* bound: moves of the object

ASSUME WatchAssumption ==
    /\ Threads # {}
    /\ Clients \subseteq
          {"header", "careful", "fs_changes_print", "verbose", "rxcpp_fs_changes"}
    /\ Capacity \in Nat \ {0}
    /\ {MaxChanges, MaxOthers, MaxFailures, MaxRefusals, MaxMoves} \subseteq Nat

VARIABLES
    client,     \* which client
    changes,    \* changes so far, numbered from 1
    others,     \* entries posted by somebody else so far
    failures,   \* reads that failed so far
    refusals,   \* start_watch() calls that failed so far
    moves,      \* moves so far
    object,     \* the address of ov_ and dir_key_
    watching,   \* the directory's handle has been read, so the kernel keeps changes
    kept,       \* changes the kernel has not reported yet
    overflow,   \* the kernel has dropped changes since it last reported
    reads,      \* pending ReadDirectoryChangesW requests: the object that issued each
    buffer,     \* the changes in buffer_
    port,       \* entries in the completion port
    at,         \* what each thread is doing
    range,      \* the DirectoryChangesRange a thread reads, and its iterator
    detected,   \* how often each change was read
    lost,       \* history: changes the kernel dropped, or whose entry nobody takes
    deaf        \* history: no read, and no entry that makes the client start one

kernelVars == <<watching, kept, overflow, reads, buffer>>
boundVars == <<client, changes, others, failures, refusals, moves>>
threadVars == <<at, range, detected>>
historyVars == <<lost, deaf>>
vars == <<boundVars, object, kernelVars, port, threadVars, historyVars>>

Port == INSTANCE CompletionPort WITH entries <- port

\* Two bytes a character: records with padding and without.
NameLength(c) == 2 * ((c % 3) + 1)

Lengths(s) == [k \in 1..Len(s) |-> NameLength(s[k])]

\* An entry of the port.  content is history: what the kernel wrote for it,
\* nothing after an overflow and for a read that failed.
Entry(o, content, ok) ==
    [ov |-> o.ov, key |-> o.key, content |-> content, ok |-> ok]

\* A client may post with any key, but has not the address of ov_.
Other == [ov |-> 0, key |-> object.key, content |-> <<>>, ok |-> TRUE]

NoRange == [content |-> <<>>, it |-> Iterator(nullptr, 0)]

Contents(s) == {s[k] : k \in 1..Len(s)}

\* make() has succeeded; the main thread goes on to start_watch().  The examples
\* have no other.
Init ==
    /\ client \in Clients
    /\ changes = 0 /\ others = 0 /\ failures = 0 /\ refusals = 0 /\ moves = 0
    /\ object = [ov |-> 1, key |-> 1]
    /\ watching = FALSE /\ kept = <<>> /\ overflow = FALSE
    /\ reads = <<>>
    /\ buffer = <<>>
    /\ Port!PortInit
    /\ LET main == CHOOSE t \in Threads : TRUE IN
          at = [t \in Threads |-> IF t = main THEN "start"
                                 ELSE IF client \in {"header", "careful"} THEN "wait"
                                 ELSE "absent"]
    /\ range = [t \in Threads |-> NoRange]
    /\ detected = [c \in 1..MaxChanges |-> 0]
    /\ lost = {}
    /\ deaf = FALSE

----------------------------------------------------------------------------
(* The kernel and the other users of the port *)

\* The kernel fills the buffer for a read and posts the entry of that read.
Report(o, s) ==
    /\ buffer' = s
    /\ Port!Post(Entry(o, s, TRUE))

\* A file changes.  A pending read reports it; else it is kept, or all that was
\* kept is dropped.
Change ==
    /\ changes < MaxChanges
    /\ changes' = changes + 1
    /\ IF reads # <<>>
       THEN /\ Report(Head(reads), <<changes'>>)
            /\ reads' = Tail(reads)
            /\ UNCHANGED <<kept, overflow, lost>>
       ELSE /\ IF ~watching
               THEN lost' = lost \cup {changes'} /\ UNCHANGED <<kept, overflow>>
               ELSE IF overflow \/ Len(kept) = Capacity
               THEN /\ kept' = <<>>
                    /\ overflow' = TRUE
                    /\ lost' = lost \cup {changes'} \cup Contents(kept)
               ELSE kept' = Append(kept, changes') /\ UNCHANGED <<overflow, lost>>
            /\ UNCHANGED <<reads, buffer, port>>
    /\ UNCHANGED <<client, others, failures, refusals, moves, object, watching, threadVars, deaf>>

\* A pending read ends without changes.
Fail ==
    /\ failures < MaxFailures
    /\ reads # <<>>
    /\ failures' = failures + 1
    /\ reads' = Tail(reads)
    /\ Port!Post(Entry(Head(reads), <<>>, FALSE))
    /\ UNCHANGED <<client, changes, others, refusals, moves, object, watching, kept, overflow,
                   buffer, threadVars, historyVars>>

\* IoCompletionPort::post by another client of the port, or another directory
PostOther ==
    /\ client \notin {"fs_changes_print", "verbose"}
    /\ others < MaxOthers
    /\ others' = others + 1
    /\ Port!Post(Other)
    /\ UNCHANGED <<client, changes, failures, refusals, moves, object, kernelVars, threadVars,
                   historyVars>>

----------------------------------------------------------------------------
(* DirectoryChanges *)

\* Bug: only the key is compared, which a posted entry may have, too.
IsDirectoryChange_KeyOnly(e) == e.key = object.key

\* Bug: only the address is compared, at which another object may have been.
IsDirectoryChange_OverlappedOnly(e) == e.ov = object.ov

IsDirectoryChange(e) == e.key = object.key /\ e.ov = object.ov

\* The size is 0 after an overflow, a failure or close().
IsValidDirectoryChange(e) == IsDirectoryChange(e) /\ BytesTransferred(Lengths(e.content)) # 0

\* What the client does after an entry that holds no valid change for it.
Ignores(e) ==
    \/ client = "careful" /\ ~IsDirectoryChange(e)
    \/ client = "rxcpp_fs_changes"

\* LogUnexpectedPortChanges, for an entry without an error
Aborts(e) == client = "verbose" /\ e.ok

\* wait_impl: directory_changes() of a valid change, port_changes() of any other
\* entry, be it an overflow, a failed read (with ec) or somebody else's.  A wait
\* that times out changes nothing.
Wait(t) ==
    /\ at[t] = "wait"
    /\ Port!Get
    /\ LET e == Port!Oldest IN
       IF IsValidDirectoryChange(e)
       THEN /\ at' = [at EXCEPT ![t] = "read"]
            /\ range' = [range EXCEPT ![t] = [content |-> e.content,
                             it |-> Iterator(0, BytesTransferred(Lengths(e.content)))]]
            /\ UNCHANGED historyVars
       ELSE /\ at' = [at EXCEPT ![t] =
                 IF Aborts(e) THEN "aborted" ELSE IF Ignores(e) THEN "wait" ELSE "start"]
            /\ lost' = lost \cup Contents(e.content)
            /\ deaf' = (deaf \/ Aborts(e) \/ (Ignores(e) /\ IsDirectoryChange(e)))
            /\ UNCHANGED range
    /\ UNCHANGED <<boundVars, object, kernelVars, detected>>

\* Bug: the range is kept while the next watch runs.
Read_RangeKept(t) ==
    /\ at[t] = "read"
    /\ at' = [at EXCEPT ![t] = "start"]
    /\ UNCHANGED <<boundVars, object, kernelVars, port, range, detected, historyVars>>

\* LogChanges and others: *it, from the buffer, and the next step of the loop,
\* with the iterator itself or with what ++it returns.
Read(t) ==
    /\ at[t] = "read"
    /\ LET lens == Lengths(buffer)
           k == RecordAt(lens, range[t].it.current)
           next == IF k = 0 THEN NoRange.it ELSE MoveToNext(range[t].it, lens, k)
       IN  /\ detected' = IF k = 0 THEN detected ELSE [detected EXCEPT ![buffer[k]] = @ + 1]
           /\ IF next.current = nullptr
              THEN /\ range' = [range EXCEPT ![t] = NoRange]
                   /\ at' = [at EXCEPT ![t] = "start"]
              ELSE /\ \E it \in {next, Copy(next)} : range' = [range EXCEPT ![t].it = it]
                   /\ UNCHANGED at
    /\ UNCHANGED <<boundVars, object, kernelVars, port, historyVars>>

\* start_watch: ReadDirectoryChangesW reports what was kept, or that something
\* was dropped (0 bytes), or stays pending.
StartWatch(t) ==
    /\ at[t] = "start"
    /\ at' = [at EXCEPT ![t] = "wait"]
    /\ watching' = TRUE
    /\ IF overflow \/ kept # <<>>
       THEN /\ Report(object, kept) /\ kept' = <<>> /\ overflow' = FALSE /\ UNCHANGED reads
       ELSE /\ reads' = Append(reads, object) /\ UNCHANGED <<kept, overflow, buffer, port>>
    /\ UNCHANGED <<boundVars, object, range, detected, historyVars>>

\* Bug: WatchForever goes on to get() although the watch has not started.
StartWatchFails_NoRetry(t) ==
    /\ refusals < MaxRefusals
    /\ at[t] = "start"
    /\ refusals' = refusals + 1
    /\ at' = [at EXCEPT ![t] = "wait"]
    /\ UNCHANGED <<client, changes, others, failures, moves, object, kernelVars, port, range,
                   detected, historyVars>>

\* start_watch: ReadDirectoryChangesW fails.  WatchForever tries again.
StartWatchFails(t) ==
    /\ refusals < MaxRefusals
    /\ at[t] = "start"
    /\ refusals' = refusals + 1
    /\ IF client \in {"careful", "fs_changes_print", "verbose"}
       THEN UNCHANGED <<at, deaf>>
       ELSE at' = [at EXCEPT ![t] = "wait"] /\ deaf' = TRUE
    /\ UNCHANGED <<client, changes, others, failures, moves, object, kernelVars, port, range,
                   detected, lost>>

----------------------------------------------------------------------------
(* Moves, by the careful client, between two calls *)

Movable ==
    /\ client = "careful"
    /\ moves < MaxMoves
    /\ \A t \in Threads : at[t] = "wait"

\* DirectoryChanges(DirectoryChanges&&): the new object has an ov_ of its own, the
\* kernel still has the old one's.
Move ==
    /\ Movable
    /\ moves' = moves + 1
    /\ object' = [object EXCEPT !.ov = @ + 1]
    /\ deaf' = TRUE
    /\ UNCHANGED <<client, changes, others, failures, refusals, kernelVars, port, threadVars, lost>>

\* Bug: the directory that is replaced is not closed.
Replace_NoClose(t) ==
    /\ Movable
    /\ moves' = moves + 1
    /\ object' = [object EXCEPT !.key = @ + 1]
    /\ at' = [at EXCEPT ![t] = "start"]
    /\ watching' = FALSE /\ kept' = <<>> /\ overflow' = FALSE
    /\ lost' = lost \cup Contents(kept)
    /\ deaf' = FALSE
    /\ UNCHANGED <<client, changes, others, failures, refusals, reads, buffer, port, range, detected>>

\* operator=(DirectoryChanges&&), from what make() returns for a directory with
\* the same buffer and a key of its own: close() ends the pending read and
\* forgets what the kernel has kept; then start_watch().  The directory that is
\* replaced was opened by name; close() leaves a HANDLE that was only lent alone.
Replace(t) ==
    /\ Movable
    /\ moves' = moves + 1
    /\ object' = [object EXCEPT !.key = @ + 1]
    /\ at' = [at EXCEPT ![t] = "start"]
    /\ watching' = FALSE /\ kept' = <<>> /\ overflow' = FALSE
    /\ lost' = lost \cup Contents(kept)
    /\ deaf' = FALSE
    /\ reads' = <<>>
    /\ port' = port \o [k \in 1..Len(reads) |-> Entry(reads[k], <<>>, TRUE)]
    /\ UNCHANGED <<client, changes, others, failures, refusals, buffer, range, detected>>

----------------------------------------------------------------------------
Loop(t) == Wait(t) \/ Read(t) \/ StartWatch(t) \/ StartWatchFails(t)

Next ==
    \/ Change \/ Fail \/ PostOther \/ Move
    \/ \E t \in Threads : Loop(t) \/ Replace(t)

Spec == Init /\ [][Next]_vars

\* The waiting threads run; nothing makes files change.
Fairness == \A t \in Threads : WF_vars(Loop(t))

FairSpec == Spec /\ Fairness

----------------------------------------------------------------------------
(* Properties *)

Objects == [ov : Nat, key : Nat]
Entries == [ov : Nat, key : Nat, content : Seq(1..MaxChanges), ok : BOOLEAN]

WatchTypeOK ==
    /\ client \in Clients
    /\ changes \in 0..MaxChanges /\ others \in 0..MaxOthers
    /\ failures \in 0..MaxFailures /\ refusals \in 0..MaxRefusals /\ moves \in 0..MaxMoves
    /\ object \in Objects
    /\ kept \in Seq(1..MaxChanges) /\ Len(kept) <= Capacity
    /\ watching \in BOOLEAN /\ overflow \in BOOLEAN /\ deaf \in BOOLEAN
    /\ lost \subseteq 1..MaxChanges
    /\ reads \in Seq(Objects)
    /\ buffer \in Seq(1..MaxChanges)
    /\ port \in Seq(Entries)
    /\ at \in [Threads -> {"absent", "wait", "read", "start", "aborted"}]
    /\ DOMAIN range = Threads

\* The buffer holds changes, and each thread is in one place of its loop.
TypeOK ==
    /\ WatchTypeOK
    /\ \A t \in Threads : (at[t] = "read") <=> (range[t] # NoRange)
    /\ detected \in [1..MaxChanges -> Nat]

\* read_directory_changes.h:254-256, "call only after processing data stored in
\* the `buffer` since system can write into it while you are reading": while a
\* thread reads a range, the buffer holds what its entry was posted for, though
\* other clients post to the port and the directory may have been replaced.
BufferStableWhileRead ==
    \A t \in Threads : range[t] # NoRange => buffer = range[t].content

\* A request is never issued on an OVERLAPPED and a buffer that are in use: by a
\* pending read, by an entry in the port, or by a thread that reads.
OneReadAtATime ==
    Len(reads) + Cardinality({k \in 1..Len(port) : IsDirectoryChange(port[k])})
               + Cardinality({t \in Threads : at[t] \in {"read", "start"}}) <= 1

\* The assertions of DirectoryChangesIterator hold for the iterator of a loop,
\* and for those ++ returns, although consumed_size_ leaves out the padding; and
\* an iterator never points behind the bytes that the kernel wrote.
IteratorInBounds ==
    \A t \in Threads : at[t] = "read" =>
        LET lens == Lengths(range[t].content)  it == range[t].it IN
        /\ AssertionsHold(it, lens)
        /\ AssertionsHold(Copy(it), lens)
        /\ it.current + RecordSize(lens[RecordAt(lens, it.current)]) <= BytesTransferred(lens)

\* The AreChangesEqual assertion of Waiting_From_Multiple_Threads (lines 249 and
\* 316) as far as it goes at any time: no thread reads a change that another has
\* read, and none that the kernel has dropped.
DetectedAtMostOnce ==
    \A c \in 1..MaxChanges : detected[c] <= (IF c \in lost \/ c > changes THEN 0 ELSE 1)

\* Every change is read by some thread, or the kernel has dropped it; unless the
\* object was moved while it was watched, or the client left an overflow or a
\* failure unanswered.
ChangesDetected ==
    \A c \in 1..MaxChanges : (changes >= c) ~> (detected[c] > 0 \/ c \in lost \/ deaf)

----------------------------------------------------------------------------
(* The inductive invariant: who may use the OVERLAPPED and the buffer *)

Own == {k \in 1..Len(port) : IsDirectoryChange(port[k])}
Active == {t \in Threads : at[t] \in {"read", "start"}}

\* The kernel, an entry or one thread.
OneUser ==
    /\ Len(reads) <= 1
    /\ \A j, k \in Own : j = k
    /\ \A t, u \in Active : t = u
    /\ reads # <<>> => Own = {} /\ Active = {}
    /\ Own # {} => Active = {}

\* Requests and entries of the object that was moved or replaced stay apart from
\* those of its successor; a client that has the port for itself meets no other.
OldObjects ==
    /\ object.ov > 0
    /\ \A k \in 1..Len(port) : port[k].ov <= object.ov /\ port[k].key <= object.key
    /\ \A k \in 1..Len(reads) : reads[k].ov <= object.ov /\ reads[k].key <= object.key
    /\ client \in {"fs_changes_print", "verbose"} =>
          Own = 1..Len(port) /\ \A k \in 1..Len(reads) : reads[k] = object

\* The buffer is that of the entry which nobody has taken yet, or of its reader.
BufferOfEntry ==
    /\ \A k \in Own : port[k].content # <<>> => buffer = port[k].content
    /\ \A t \in Threads :
          /\ range[t] # NoRange => at[t] = "read"
          /\ at[t] = "read" => buffer = range[t].content

WatchInv ==
    client # "header" /\ WatchTypeOK /\ OneUser /\ OldObjects /\ BufferOfEntry

----------------------------------------------------------------------------
(* The inductive invariant: where the changes are that nobody has read *)

Current(t) == RecordAt(Lengths(range[t].content), range[t].it.current)

\* What the iterator of a thread will still come to.
Unread(t) == {range[t].content[k] : k \in Current(t)..Len(range[t].content)}

\* The iterator is at a record, and expects the rest of the buffer at least: the
\* padding, which it does not count, is part of what it believes available.
IteratorFits(t) ==
    LET lens == Lengths(range[t].content)  it == range[t].it IN
    /\ range[t] \in [content : Seq(1..MaxChanges), it : [current : Int, consumed : Nat, max : Nat]]
    /\ Current(t) # 0
    /\ BytesTransferred(lens) - it.current <= AvailableSize(it)

Untouched(S) == \A c \in S : c <= changes /\ c \notin lost /\ detected[c] = 0

\* A change waits in the kernel, in one entry or before one iterator, once, and
\* only for as long as nobody has read it.
UnreadInOnePlace ==
    /\ IsInjective(kept) /\ Untouched(Contents(kept))
    /\ \A k \in 1..Len(port) :
          /\ IsInjective(port[k].content) /\ Untouched(Contents(port[k].content))
          /\ Contents(port[k].content) \cap Contents(kept) = {}
          /\ \A j \in 1..Len(port) \ {k} :
                Contents(port[j].content) \cap Contents(port[k].content) = {}
    /\ \A t \in Threads : at[t] = "read" =>
          /\ IsInjective(range[t].content) /\ Untouched(Unread(t))
          /\ Unread(t) \cap Contents(kept) = {}
          /\ \A k \in 1..Len(port) : Unread(t) \cap Contents(port[k].content) = {}

ReadInv ==
    /\ WatchInv
    /\ detected \in [1..MaxChanges -> Nat] /\ lost \subseteq 1..changes
    /\ \A t \in Threads : at[t] = "read" => IteratorFits(t)
    /\ UnreadInOnePlace
    /\ DetectedAtMostOnce
=============================================================================

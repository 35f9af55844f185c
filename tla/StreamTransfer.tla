---------------------------- MODULE StreamTransfer ----------------------------
(***************************************************************************)
(* async_read and async_write of unifex_IOCP_sockets.hpp: read_some or     *)
(* write_some is repeated until all the buffers are processed              *)
(* (State_AsyncReadWrite), and every N-th call goes through the completion *)
(* port first (SelectOnceInN_Scheduler), so that a transfer whose calls    *)
(* all complete at once does not keep the thread for itself.               *)
(*                                                                         *)
(* All transfers share one port and the one thread in IOCP_sync_wait.  A   *)
(* byte is its number in the transfer's data, a buffer the numbers of its  *)
(* first byte and of its bytes.  How a call ends, and what stopping does   *)
(* to it, is the subject of SocketOperation.                               *)
(***************************************************************************)
EXTENDS Offsets, SequencesExt

CONSTANTS
    Transfers,      \* the transfers
    N,              \* SelectOnceInN_Scheduler::_N, 128 in the code
    Shapes,         \* the lengths of the buffers of a transfer
    MaxFailures,    \* bound: posts that fail, and calls that fail once they are pending
    Null

ASSUME TransferAssumption ==
    /\ N \in Nat \ {0} /\ MaxFailures \in Nat
    /\ Shapes \subseteq Seq(Nat) \ {<<>>}
    /\ Null \notin Transfers \cup Nat

VARIABLES
    reads,      \* the transfers that are async_read
    buffers,    \* _buffers
    current,    \* _current_buffer, as an index
    totalSize,  \* _total_size, or Null if not calculated yet
    processed,  \* _processed_bytes
    calls,      \* _calls_count, modulo N (which divides 2^32 in the code)
    at,         \* where each transfer stands
    running,    \* the transfer that has the thread
    port,       \* transfers with an entry in the port, with its bytes_transferred
    failures,   \* posts and pending calls that failed so far
    moved,      \* history: the bytes transferred, in order
    waited      \* history: calls of each other while the entry of a transfer waits

dataVars == <<buffers, current, totalSize, processed>>
vars == <<reads, dataVars, calls, at, running, port, failures, moved, waited>>

Port == INSTANCE CompletionPort WITH entries <- port

Labels == {"repeat", "scheduled", "some", "pending", "value", "error", "done"}
Buffer == [at : Nat, len : Nat]
Entry(t, n) == [transfer |-> t, bytes |-> n]

\* The buffers that follow each other in the data, from their lengths.
Layout(lens) ==
    [i \in 1..Len(lens) |-> [at |-> Offsets(1, lens)[i], len |-> lens[i]]]

\* The bytes of the buffers from the first to the last of the given indices.
Bytes(bs, first, last) ==
    FlattenSeq([i \in 1..last - first + 1 |->
        LET b == bs[first + i - 1] IN [k \in 1..b.len |-> b.at + k - 1]])

AllBytes(bs) == Bytes(bs, 1, Len(bs))

\* remaining()
Remaining(t) == Bytes(buffers[t], current[t], Len(buffers[t]))

Init ==
    /\ reads \in SUBSET Transfers
    /\ buffers \in [Transfers -> {Layout(lens) : lens \in Shapes}]
    /\ \E calculated \in SUBSET Transfers : totalSize = [t \in Transfers |->
            IF t \in calculated THEN Len(AllBytes(buffers[t])) ELSE Null]
    /\ current = [t \in Transfers |-> 1]
    /\ processed = [t \in Transfers |-> 0]
    /\ calls = [t \in Transfers |-> 0]
    /\ at = [t \in Transfers |-> "repeat"]
    /\ running = Null
    /\ Port!PortInit
    /\ failures = 0
    /\ moved = [t \in Transfers |-> <<>>]
    /\ waited = [t \in Transfers |-> [u \in Transfers |-> 0]]

----------------------------------------------------------------------------
(* State_AsyncReadWrite *)

TotalSize(t) == IF totalSize[t] = Null THEN Len(AllBytes(buffers[t])) ELSE totalSize[t]

\* Bug: the end is one buffer too far.
Consume_PastEnd(t, n) ==
    /\ processed' = [processed EXCEPT ![t] = @ + n]
    /\ totalSize' = [totalSize EXCEPT ![t] = TotalSize(t)]
    /\ current' = [current EXCEPT ![t] = Len(buffers[t]) + 2]
    /\ UNCHANGED buffers

\* Bug: the part of a buffer that was processed is not cut off it.
Consume_WholeBuffers(t, n) ==
    LET p == processed[t] + n
        last == Len(buffers[t])
        Before(k) == Len(Bytes(buffers[t], current[t], k - 1))
        k == CHOOSE j \in current[t]..last : Before(j) <= n /\ n < Before(j + 1)
    IN  /\ processed' = [processed EXCEPT ![t] = p]
        /\ totalSize' = [totalSize EXCEPT ![t] = TotalSize(t)]
        /\ current' = [current EXCEPT ![t] = IF p >= TotalSize(t) THEN last + 1 ELSE k]
        /\ UNCHANGED buffers

\* consume(bytes_transferred): the buffers before the k-th are processed, and
\* so is the beginning of the k-th.
Consume(t, n) ==
    LET p == processed[t] + n
        last == Len(buffers[t])
        Before(k) == Len(Bytes(buffers[t], current[t], k - 1))
        k == CHOOSE j \in current[t]..last : Before(j) <= n /\ n < Before(j + 1)
        part == n - Before(k)
    IN  /\ processed' = [processed EXCEPT ![t] = p]
        /\ totalSize' = [totalSize EXCEPT ![t] = TotalSize(t)]
        /\ IF p >= TotalSize(t)
           THEN current' = [current EXCEPT ![t] = last + 1] /\ UNCHANGED buffers
           ELSE /\ current' = [current EXCEPT ![t] = k]
                /\ buffers' = [buffers EXCEPT
                     ![t][k] = [at |-> @.at + part, len |-> @.len - part]]

\* Bug: > in place of >=.
IsCompleted_Strict(t, n) == processed[t] + n > TotalSize(t)

\* is_completed()
IsCompleted(t, n) == processed[t] + n >= TotalSize(t)

\* What repeat_effect_until does with the value of a call: the transfer goes on
\* with the thread, or is over and gives it back.
Transferred(t, n) ==
    /\ Consume(t, n)
    /\ at' = [at EXCEPT ![t] = IF IsCompleted(t, n) THEN "value" ELSE "repeat"]
    /\ running' = IF IsCompleted(t, n) THEN Null ELSE t

\* read_some fails if it gets no bytes for buffers that have room.
IsEof(t, n) == t \in reads /\ n = 0 /\ Remaining(t) # <<>>

Ends(t, outcome) ==
    /\ at' = [at EXCEPT ![t] = outcome]
    /\ running' = Null
    /\ UNCHANGED dataVars

----------------------------------------------------------------------------
(* SelectOnceInN_Scheduler *)

\* An entry of t is queued; it is the port's last.
Queue(t, n) ==
    /\ Port!Post(Entry(t, n))
    /\ waited' = [waited EXCEPT ![t] = [u \in Transfers |-> 0]]

\* Somebody starts the transfer: it is the first or only task of IOCP_sync_wait,
\* or is started by a task that then returns.
StartTransfer(t) ==
    /\ running = Null
    /\ at[t] = "repeat"
    /\ running' = t
    /\ UNCHANGED <<reads, dataVars, calls, at, port, failures, moved, waited>>

\* Bug: the counter is only tested.
Select_NotCounted(t) ==
    /\ running = t
    /\ at[t] = "repeat"
    /\ at' = [at EXCEPT ![t] = "some"]
    /\ UNCHANGED <<reads, dataVars, calls, running, port, failures, moved, waited>>

\* Operation_SelectOnceInN::start: once in N times, schedule on the port.  The
\* transfer ends with an error if the entry cannot be posted
\* (Operation_IOCP_Schedule::start).
Select(t) ==
    /\ running = t
    /\ at[t] = "repeat"
    /\ calls' = [calls EXCEPT ![t] = (@ + 1) % N]
    /\ \/ /\ calls'[t] # 0
          /\ at' = [at EXCEPT ![t] = "some"]
          /\ UNCHANGED <<running, port, failures, waited>>
       \/ /\ calls'[t] = 0
          /\ at' = [at EXCEPT ![t] = "scheduled"]
          /\ running' = Null
          /\ Queue(t, 0)
          /\ UNCHANGED failures
       \/ /\ calls'[t] = 0
          /\ failures < MaxFailures
          /\ failures' = failures + 1
          /\ at' = [at EXCEPT ![t] = "error"]
          /\ running' = Null
          /\ UNCHANGED <<port, waited>>
    /\ UNCHANGED <<reads, dataVars, moved>>

----------------------------------------------------------------------------
(* One call of read_some or write_some *)

\* The calls of t while entries of others wait.
Count(t) ==
    waited' = [u \in Transfers |->
        IF \E k \in 1..Len(port) : port[k].transfer = u
        THEN [waited[u] EXCEPT ![t] = @ + 1] ELSE waited[u]]

\* The kernel moves the first n of the remaining bytes.
Move(t, n) == moved' = [moved EXCEPT ![t] = @ \o SubSeq(Remaining(t), 1, n)]

Counts(t) == IF Remaining(t) = <<>> THEN {0} ELSE 1..Len(Remaining(t))

\* It completes synchronously.  A call whose stop was requested meanwhile is done,
\* whatever it moved.
SomeFinished(t) ==
    /\ running = t
    /\ at[t] = "some"
    /\ Count(t)
    /\ \E n \in Counts(t) : Move(t, n) /\ (Transferred(t, n) \/ Ends(t, "done"))
    /\ UNCHANGED <<reads, calls, port, failures>>

\* It fails, or the peer of a read has gone.
SomeRefused(t) ==
    /\ running = t
    /\ at[t] = "some"
    /\ Count(t)
    /\ Ends(t, "error") \/ Ends(t, "done")
    /\ UNCHANGED <<reads, calls, port, failures, moved>>

\* ERROR_IO_PENDING
SomePending(t) ==
    /\ running = t
    /\ at[t] = "some"
    /\ Count(t)
    /\ at' = [at EXCEPT ![t] = "pending"]
    /\ running' = Null
    /\ UNCHANGED <<reads, dataVars, calls, port, failures, moved>>

\* The kernel ends a pending call, and moves n bytes.
IoFinishes(t) ==
    /\ at[t] = "pending"
    /\ ~\E k \in 1..Len(port) : port[k].transfer = t
    /\ \E n \in Counts(t) : Queue(t, n) /\ Move(t, n)
    /\ UNCHANGED <<reads, dataVars, calls, at, running, failures>>

\* A pending call fails, or is cancelled: its entry has 0 bytes.
IoFails(t) ==
    /\ failures < MaxFailures
    /\ at[t] = "pending"
    /\ ~\E k \in 1..Len(port) : port[k].transfer = t
    /\ failures' = failures + 1
    /\ Queue(t, 0)
    /\ UNCHANGED <<reads, dataVars, calls, at, running, moved>>

----------------------------------------------------------------------------
(* IOCP_sync_wait handles the oldest entry. *)

Handle ==
    /\ running = Null
    /\ Port!Get
    /\ LET t == Port!Oldest.transfer  n == Port!Oldest.bytes IN
       \/ /\ at[t] = "scheduled"
          /\ at' = [at EXCEPT ![t] = "some"]
          /\ running' = t
          /\ UNCHANGED dataVars
       \/ at[t] = "pending" /\ IsEof(t, n) /\ Ends(t, "error")
       \/ at[t] = "pending" /\ ~IsEof(t, n) /\ Transferred(t, n)
       \/ at[t] = "pending" /\ Ends(t, "done")
    /\ UNCHANGED <<reads, calls, failures, moved, waited>>

----------------------------------------------------------------------------
Run(t) ==
    Select(t) \/ SomeFinished(t) \/ SomeRefused(t) \/ SomePending(t)

Next ==
    \/ \E t \in Transfers : StartTransfer(t) \/ Run(t) \/ IoFinishes(t) \/ IoFails(t)
    \/ Handle

Spec == Init /\ [][Next]_vars

\* The thread runs and the peers do not fall silent.
Fairness ==
    /\ WF_vars(Handle \/ \E t \in Transfers : Run(t))
    /\ \A t \in Transfers : WF_vars(IoFinishes(t) \/ IoFails(t))

FairSpec == Spec /\ Fairness

----------------------------------------------------------------------------
(* Properties *)

\* The buffers stay inside the data and the index inside or just after them.
TypeOK ==
    /\ reads \subseteq Transfers
    /\ buffers \in [Transfers -> Seq(Buffer)]
    /\ current \in [Transfers -> Nat \ {0}]
    /\ \A t \in Transfers : current[t] <= Len(buffers[t]) + 1
    /\ totalSize \in [Transfers -> Nat \cup {Null}]
    /\ processed \in [Transfers -> Nat]
    /\ calls \in [Transfers -> 0..N - 1]
    /\ at \in [Transfers -> Labels]
    /\ running \in Transfers \cup {Null}
    /\ port \in Seq([transfer : Transfers, bytes : Nat])
    /\ failures \in 0..MaxFailures
    /\ moved \in [Transfers -> Seq(Nat)]
    /\ waited \in [Transfers -> [Transfers -> Nat]]

\* The size of the data; consume never moves the end of the last buffer.
DataSize(t) == LET b == Last(buffers[t]) IN b.at + b.len - 1

\* The bytes go in order, none twice and none left out, however the calls cut
\* the buffers, and a transfer that ends with a value reports all of them
\* (State_AsyncReadWrite::consume; total_size() is calculated late, from buffers
\* that consume changes).  Between two calls the remaining buffers are the bytes
\* that are not moved yet, and there is a buffer (the assertion at the end of
\* consume).
BytesInOrder ==
    \A t \in Transfers :
        /\ moved[t] = [i \in 1..Len(moved[t]) |-> i]
        /\ at[t] = "value" => processed[t] = DataSize(t) /\ Len(moved[t]) = DataSize(t)
        /\ at[t] \in {"repeat", "scheduled", "some"} =>
              /\ current[t] <= Len(buffers[t])
              /\ Remaining(t) = [i \in 1..DataSize(t) - Len(moved[t]) |-> Len(moved[t]) + i]

\* No transfer keeps the thread: an entry is handled before another transfer has
\* made more than N calls (SelectOnceInN_Scheduler).
OthersGetTheirTurn ==
    \A t, u \in Transfers : waited[t][u] <= N

\* Every transfer that was started ends; transfers are finite, so there comes a
\* time when none is on its way.
Idle(t) == at[t] = "repeat" /\ running # t
Ended(t) == at[t] \in {"value", "error", "done"}
TransferEnds == []<>(\A t \in Transfers : Idle(t) \/ Ended(t))

----------------------------------------------------------------------------
(* The inductive invariant of the turns *)

Queued(t) == \E k \in 1..Len(port) : port[k].transfer = t

\* u has the thread before the entry of t is handled.
RunsBefore(u, t) ==
    \/ running = u
    \/ Idle(u)
    \/ \E j, k \in 1..Len(port) : j < k /\ port[j].transfer = u /\ port[k].transfer = t

\* The calls u makes until it goes through the port, if none of them is pending.
CallsLeft(u) == IF at[u] \in {"some", "scheduled"} THEN N - calls[u] ELSE N - 1 - calls[u]

TurnTypeOK ==
    /\ calls \in [Transfers -> 0..N - 1]
    /\ at \in [Transfers -> Labels]
    /\ running \in Transfers \cup {Null}
    /\ port \in Seq([transfer : Transfers, bytes : Nat])
    /\ waited \in [Transfers -> [Transfers -> Nat]]

\* A transfer has one entry, while it has not the thread.
OneEntry ==
    /\ \A j, k \in 1..Len(port) : port[j].transfer = port[k].transfer => j = k
    /\ \A t \in Transfers : Queued(t) => at[t] \in {"scheduled", "pending"}
    /\ running # Null => at[running] \in {"repeat", "some"}

\* What u has made and is still going to make before the entry of t is handled.
TurnsLeft ==
    \A t, u \in Transfers :
        Queued(t) /\ RunsBefore(u, t) => waited[t][u] + CallsLeft(u) <= N

TurnInv == TurnTypeOK /\ OneEntry /\ TurnsLeft /\ OthersGetTheirTurn

----------------------------------------------------------------------------
(* The inductive invariant of the data *)

\* From the first of them on, the buffers follow each other in the data.
Follow(bs, first) == \A i \in first..Len(bs) - 1 : bs[i + 1].at = bs[i].at + bs[i].len

Active(t) == at[t] \in {"repeat", "scheduled", "some", "pending"}

\* The current buffer begins with the byte after the processed ones.
BuffersLeft(t) ==
    /\ buffers[t] # <<>>
    /\ Follow(buffers[t], current[t])
    /\ Active(t) =>
          /\ current[t] <= Len(buffers[t])
          /\ buffers[t][current[t]].at = processed[t] + 1

\* total_size() is calculated before consume() cuts a buffer, if not earlier.
SizeOfData(t) ==
    /\ totalSize[t] \in {Null, DataSize(t)}
    /\ totalSize[t] = Null => processed[t] = 0 /\ current[t] = 1

\* The bytes that were moved are processed, or are those of the entry of a pending
\* call.
MovedOnce(t) ==
    /\ moved[t] = [i \in 1..Len(moved[t]) |-> i] /\ Len(moved[t]) <= DataSize(t)
    /\ Active(t) /\ (Queued(t) => at[t] = "scheduled") => processed[t] = Len(moved[t])
    /\ \A k \in 1..Len(port) : port[k].transfer = t =>
          processed[t] + port[k].bytes = Len(moved[t])
    /\ at[t] = "value" => processed[t] = DataSize(t) /\ Len(moved[t]) = DataSize(t)

DataInv ==
    /\ TypeOK
    /\ \A t \in Transfers : BuffersLeft(t) /\ SizeOfData(t) /\ MovedOnce(t)
=============================================================================

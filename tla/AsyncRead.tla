------------------------------ MODULE AsyncRead ------------------------------
(***************************************************************************)
(* coro::AsyncFile, AsyncReadTask and ReadBuffer (coro_async_file.h): a    *)
(* coroutine that co_awaits file.read(offset, size) issues an unbuffered   *)
(* overlapped ReadFile from await_suspend; HandleIOCP_Once, called by the  *)
(* pumps, resumes it.                                                      *)
(*                                                                         *)
(* One allocation, the pages, holds the OVERLAPPED and the bytes; it goes  *)
(* from the request to the ReadBuffer that the coroutine gets, or is freed *)
(* when the read fails.  on_end is called by a pump, or inside             *)
(* await_suspend when ReadFile does not return ERROR_IO_PENDING.  Each     *)
(* read has a coroutine of its own here.                                   *)
(*                                                                         *)
(* After on_end has resumed the coroutine its AsyncReadTask, a temporary   *)
(* of the co_await, is gone.  The write of a thread that still is in       *)
(* await_suspend then has no effect on the state of this module: what it   *)
(* hits is not part of it.  TaskOutlivesAwaitSuspend says when it happens. *)
(* And await_suspend reads the field that it has written again: if it then *)
(* finds an error the coroutine goes on in both threads.  Undefined as the *)
(* rest of such a coroutine is, this module follows it no further than to  *)
(* the end of on_end.                                                      *)
(***************************************************************************)
EXTENDS Integers, Sequences, FiniteSets

CONSTANTS
    Reads,          \* the AsyncReadTask objects
    Pumps,          \* threads that call HandleIOCP_Once
    Sector,         \* kSectorSize
    DwordLimit,     \* 2^32, the number of DWORDs
    FileSize,       \* bytes in the file
    Offsets, Sizes  \* what the coroutines ask for

ASSUME AsyncReadAssumption ==
    /\ Sector \in Nat \ {0}
    /\ DwordLimit \in Nat \ {0} /\ DwordLimit % Sector = 0
    /\ FileSize \in Nat
    /\ Offsets \subseteq Nat
    /\ Sizes \subseteq 1..DwordLimit - 1        \* a std::uint32_t, not 0

VARIABLES
    oneThread,  \* the coroutines run on the thread of the pump, the only one
    syncReads,  \* ReadFile may return TRUE, that is, finish at once
    request,    \* _offset and _size of each task
    pc,         \* where the awaiting thread stands in await_suspend
    pages,      \* whose pages those of each read are
    status,     \* the _error field is set
    data,       \* what the _data field holds
    ending,     \* on_end has set the two fields and not yet called resume()
    alive,      \* the task exists
    result,     \* the ReadResult of each coroutine, none at first
    twice,      \* history: reads for which await_suspend has returned false
    pending,    \* reads the kernel works on
    port,       \* the entries of the completion port, oldest first
    batch       \* the entries each pump has fetched and not yet handled

settings == <<oneThread, syncReads, request>>
taskVars == <<status, data, ending, alive, result, twice>>
kernelVars == <<pending, port>>

Port == INSTANCE CompletionPort WITH entries <- port
vars == <<settings, pc, pages, taskVars, kernelVars, batch>>

Labels == {"idle", "issue", "inside", "return", "test", "out"}
Owners == {"nobody", "request", "task", "client", "freed"}
Contents == {"nothing", "short", "all"}
None == [failed |-> FALSE, data |-> "none"]
Results == [failed : BOOLEAN, data : Contents]
Entry(r, f, n) == [read |-> r, failed |-> f, bytes |-> n]
Entries == [read : Reads, failed : BOOLEAN, bytes : Nat]

----------------------------------------------------------------------------
(* Sizes and offsets.  An unbuffered read starts and ends at a sector. *)

Rounddown(value, multiple) == (value \div multiple) * multiple

Roundup(value, multiple) ==
    Rounddown(value, multiple) + (IF value % multiple > 0 THEN multiple ELSE 0)

Offset(r) == Rounddown(request[r].offset, Sector)
Size(r) == Roundup(request[r].offset + request[r].size, Sector) - Offset(r)
Delta(r) == request[r].offset - Offset(r)

\* DWORD(io_size._size), what ReadFile is asked for
Asked(r) == Size(r) % DwordLimit

\* The bytes that a successful ReadFile stores: those before the end of file.
Stored(r) ==
    IF FileSize < Offset(r) THEN 0
    ELSE IF FileSize - Offset(r) < Asked(r) THEN FileSize - Offset(r) ELSE Asked(r)

\* The file has nothing at that offset: ERROR_HANDLE_EOF.
AtEnd(r) == Stored(r) = 0 /\ Asked(r) > 0

\* What the user's part of the buffer then holds.
Content(r) == IF Delta(r) + request[r].size <= Stored(r) THEN "all" ELSE "short"

\* Bug: a read that is too short is a success.
Enough_Short(r, bytes) == bytes >= Delta(r)

\* InvokeReadEnd: the read is a success.  size is min(bytes - delta, user size).
Enough(r, bytes) == bytes >= Delta(r) /\ bytes - Delta(r) >= request[r].size

----------------------------------------------------------------------------
\* Bug: the members of ReadBuffer have no initializers.
Init_BufferUninitialised ==
    /\ oneThread \in (IF Cardinality(Pumps) = 1 THEN BOOLEAN ELSE {FALSE})
    /\ syncReads \in BOOLEAN
    /\ request \in [Reads -> {q \in [offset : Offsets, size : Sizes] :
                                q.offset <= Rounddown(DwordLimit - 1, Sector)}]
    /\ pc = [r \in Reads |-> "idle"]
    /\ pages = [r \in Reads |-> "nobody"]
    /\ status = [r \in Reads |-> FALSE]
    /\ data = [r \in Reads |-> "uninitialised"]
    /\ ending = [r \in Reads |-> FALSE]
    /\ alive = [r \in Reads |-> TRUE]
    /\ result = [r \in Reads |-> None]
    /\ twice = {}
    /\ pending = {}
    /\ Port!PortInit
    /\ batch = [p \in Pumps |-> <<>>]

Init ==
    /\ oneThread \in (IF Cardinality(Pumps) = 1 THEN BOOLEAN ELSE {FALSE})
    /\ syncReads \in BOOLEAN
    /\ request \in [Reads -> {q \in [offset : Offsets, size : Sizes] :
                                q.offset <= Rounddown(DwordLimit - 1, Sector)}]
    /\ pc = [r \in Reads |-> "idle"]
    /\ pages = [r \in Reads |-> "nobody"]
    /\ status = [r \in Reads |-> FALSE]
    /\ data = [r \in Reads |-> "nothing"]
    /\ ending = [r \in Reads |-> FALSE]
    /\ alive = [r \in Reads |-> TRUE]
    /\ result = [r \in Reads |-> None]
    /\ twice = {}
    /\ pending = {}
    /\ Port!PortInit
    /\ batch = [p \in Pumps |-> <<>>]

Goto(r, l) == pc' = [pc EXCEPT ![r] = l]

\* With one thread nothing runs while another read is in the middle of
\* await_suspend or on_end.  A coroutine that on_end has resumed may start the
\* next read before on_end returns to the pump.
Alone(r) ==
    oneThread => \A q \in Reads \ {r} : pc[q] \in {"idle", "out"} /\ ~ending[q]

\* InvokeReadFail: frees the pages; on_end with the error, up to resume()
ReadFails(r) ==
    /\ pages' = [pages EXCEPT ![r] = "freed"]
    /\ status' = [status EXCEPT ![r] = TRUE]
    /\ data' = [data EXCEPT ![r] = "nothing"]
    /\ ending' = [ending EXCEPT ![r] = TRUE]

\* InvokeReadEnd: the pages become the task's buffer; on_end, up to resume()
ReadEnds(r, failed, bytes) ==
    IF ~failed /\ Enough(r, bytes)
    THEN /\ pages' = [pages EXCEPT ![r] = "task"]
         /\ status' = [status EXCEPT ![r] = FALSE]
         /\ data' = [data EXCEPT ![r] = Content(r)]
         /\ ending' = [ending EXCEPT ![r] = TRUE]
    ELSE ReadFails(r)

\* The coroutine goes on: await_resume takes the two fields, and the task is
\* destroyed.
GoOn(r) ==
    /\ result' = [result EXCEPT ![r] = [failed |-> status[r], data |-> data[r]]]
    /\ pages' = [pages EXCEPT ![r] = IF data[r] = "nothing" THEN @ ELSE "client"]
    /\ data' = [data EXCEPT ![r] = "nothing"]
    /\ alive' = [alive EXCEPT ![r] = FALSE]

\* _awaiter.resume().  If the task and its _awaiter are gone already, whatever
\* this resumes is no part of the read.
Resume(r) ==
    /\ ending' = [ending EXCEPT ![r] = FALSE]
    /\ IF alive[r] THEN GoOn(r) ELSE UNCHANGED <<result, pages, data, alive>>

----------------------------------------------------------------------------
(* The awaiting coroutine *)

\* await_suspend and ScheduleReadImpl_ up to the call of ReadFile
AwaitSuspend(r) ==
    /\ pc[r] = "idle" /\ Alone(r)
    /\ Goto(r, "issue")
    /\ pages' = [pages EXCEPT ![r] = "request"]
    /\ UNCHANGED <<settings, taskVars, kernelVars, batch>>

\* Bug: the file has no FILE_SKIP_COMPLETION_PORT_ON_SUCCESS.
ReadFinished_NoSkip(r) ==
    /\ syncReads
    /\ pc[r] = "issue" /\ ~AtEnd(r)
    /\ ReadEnds(r, FALSE, Asked(r))
    /\ Port!Post(Entry(r, FALSE, Stored(r)))
    /\ Goto(r, "inside")
    /\ UNCHANGED <<settings, alive, result, twice, pending, batch>>

\* ReadFile returns TRUE; no entry is going to be in the port.
ReadFinished(r) ==
    /\ syncReads
    /\ pc[r] = "issue" /\ ~AtEnd(r)
    /\ ReadEnds(r, FALSE, Asked(r))
    /\ Goto(r, "inside")
    /\ UNCHANGED <<settings, alive, result, twice, kernelVars, batch>>

\* Bug: a ReadFile that fails is treated as one that is pending.
ReadRefused_Ignored(r) ==
    /\ pc[r] = "issue"
    /\ Goto(r, "return")
    /\ UNCHANGED <<settings, pages, taskVars, kernelVars, batch>>

\* ReadFile returns FALSE and GetLastError is not ERROR_IO_PENDING.
ReadRefused(r) ==
    /\ pc[r] = "issue"
    /\ ReadFails(r)
    /\ Goto(r, "inside")
    /\ UNCHANGED <<settings, alive, result, twice, kernelVars, batch>>

\* ERROR_IO_PENDING
ReadPending(r) ==
    /\ pc[r] = "issue"
    /\ pending' = pending \cup {r}
    /\ Goto(r, "return")
    /\ UNCHANGED <<settings, pages, taskVars, port, batch>>

\* on_end, called inside await_suspend, resumes the coroutine.
ResumeInside(r) ==
    /\ pc[r] = "inside"
    /\ Resume(r)
    /\ Goto(r, "return")
    /\ UNCHANGED <<settings, status, twice, kernelVars, batch>>

\* _error = ScheduleReadImpl_(), which always returns no error
ClearError(r) ==
    /\ pc[r] = "return"
    /\ Goto(r, "test")
    /\ status' = [status EXCEPT ![r] = IF alive[r] THEN FALSE ELSE @]
    /\ UNCHANGED <<settings, pages, data, ending, alive, result, twice, kernelVars, batch>>

\* Bug: ScheduleReadImpl_ returns the error that InvokeReadFail has reported.
FindsError_Reported(r) == IF alive[r] THEN status[r] ELSE result[r].failed

\* What the test of _error may find: the error that a pump has stored since.  If
\* the task is gone its memory may be in use again, unless this is the only thread.
FindsError(r) == IF alive[r] THEN status[r] ELSE ~oneThread

\* return (not _error).  _error is not atomic: the compiler may also return what
\* was written, not what is there, and true is always possible.  After false the
\* coroutine goes on here, and its task is destroyed if it still exists.
AwaitSuspendEnd(r) ==
    /\ pc[r] = "test"
    /\ Goto(r, "out")
    /\ \/ UNCHANGED <<pages, data, alive, result, twice>>
       \/ /\ FindsError(r)
          /\ twice' = twice \cup {r}
          /\ IF alive[r] THEN GoOn(r) ELSE UNCHANGED <<pages, data, alive, result>>
    /\ UNCHANGED <<settings, status, ending, kernelVars, batch>>

\* Bug: the pages are freed when there is no error, instead of when there are
\* pages.
DropResult_NoFree(r) ==
    /\ pages[r] = "client"
    /\ pages' = [pages EXCEPT ![r] = "nobody"]
    /\ UNCHANGED <<settings, pc, taskVars, kernelVars, batch>>

\* The coroutine destroys its ReadBuffer.
DropResult(r) ==
    /\ pages[r] = "client"
    /\ pages' = [pages EXCEPT ![r] = "freed"]
    /\ UNCHANGED <<settings, pc, taskVars, kernelVars, batch>>

----------------------------------------------------------------------------
(* The kernel *)

Complete(r, failed, bytes) ==
    /\ r \in pending
    /\ pending' = pending \ {r}
    /\ Port!Post(Entry(r, failed, bytes))
    /\ UNCHANGED <<settings, pc, pages, taskVars, batch>>

\* OVERLAPPED::Internal is 0, InternalHigh the number of bytes.
KernelReads(r) == ~AtEnd(r) /\ Complete(r, FALSE, Stored(r))

KernelFails(r) == Complete(r, TRUE, 0)

----------------------------------------------------------------------------
(* HandleIOCP_Once.  get_many returns entries or an error, never both, so  *)
(* its loop over the entries of an error runs zero times.                  *)

\* iocp.get_many: any number of the entries there are, 64 at most
GetMany(p) ==
    /\ batch[p] = <<>>
    /\ \E n \in 1..Len(port) :
          /\ Port!GetMany(n)
          /\ batch' = [batch EXCEPT ![p] = Port!OldestMany(n)]
    /\ UNCHANGED <<settings, pc, pages, taskVars, pending>>

\* ov->InvokeReadEnd, up to resume()
HandleEntry(p) ==
    /\ batch[p] # <<>>
    /\ LET e == Head(batch[p]) IN
          /\ Alone(e.read)
          /\ oneThread => pc[e.read] = "out"
          /\ ~ending[e.read]
          /\ ReadEnds(e.read, e.failed, e.bytes)
    /\ UNCHANGED <<settings, pc, alive, result, twice, kernelVars, batch>>

\* on_end resumes the coroutine, and the pump goes on with the next entry.
ResumeFromPump(p) ==
    /\ batch[p] # <<>>
    /\ ending[Head(batch[p]).read]
    /\ Resume(Head(batch[p]).read)
    /\ batch' = [batch EXCEPT ![p] = Tail(@)]
    /\ UNCHANGED <<settings, pc, status, twice, kernelVars>>

----------------------------------------------------------------------------
Await(r) ==
    \/ AwaitSuspend(r) \/ ReadFinished(r) \/ ReadRefused(r) \/ ReadPending(r)
    \/ ResumeInside(r) \/ ClearError(r) \/ AwaitSuspendEnd(r)

Pump(p) == GetMany(p) \/ HandleEntry(p) \/ ResumeFromPump(p)

Next ==
    \/ \E r \in Reads : Await(r) \/ DropResult(r) \/ KernelReads(r) \/ KernelFails(r)
    \/ \E p \in Pumps : Pump(p)

Spec == Init /\ [][Next]_vars

\* Threads run, HandleIOCP_Once is called again and again, and the kernel ends
\* what it has begun.
Fairness ==
    /\ \A r \in Reads :
          WF_vars(Await(r)) /\ WF_vars(KernelReads(r) \/ KernelFails(r))
    /\ \A p \in Pumps : WF_vars(Pump(p))

FairSpec == Spec /\ Fairness

----------------------------------------------------------------------------
(* Properties *)

\* A request is a range of the file; a task, its pages and its coroutine's
\* result are in the states the code gives them, an entry names its read.
TypeOK ==
    /\ oneThread \in BOOLEAN /\ syncReads \in BOOLEAN
    /\ request \in [Reads -> [offset : Offsets, size : Sizes]]
    /\ pc \in [Reads -> Labels]
    /\ pages \in [Reads -> Owners]
    /\ status \in [Reads -> BOOLEAN]
    /\ data \in [Reads -> Contents]
    /\ ending \in [Reads -> BOOLEAN]
    /\ alive \in [Reads -> BOOLEAN]
    /\ result \in [Reads -> Results \cup {None}]
    /\ twice \subseteq Reads
    /\ pending \subseteq Reads
    /\ port \in Seq(Entries)
    /\ batch \in [Pumps -> Seq(Entries)]

InFlight(r) ==
    \/ r \in pending
    \/ \E k \in 1..Len(port) : port[k].read = r
    \/ \E p \in Pumps : \E k \in 1..Len(batch[p]) :
          batch[p][k].read = r /\ ~(k = 1 /\ ending[r])

\* The pages stay the request's as long as the kernel, the port or a pump can
\* reach the OVERLAPPED that is in them, and the AsyncReadTask it points to
\* lives as long ("Can't be destroyed while read is in progress",
\* coro_async_file.h:41); then they are the result's, or freed.  The task lives
\* until on_end has resumed the coroutine, too, unless await_suspend returns false
\* while a pump is in on_end.
PagesOutliveTheRead ==
    \A r \in Reads :
        /\ InFlight(r) => pages[r] = "request" /\ alive[r] /\ ~ending[r]
        /\ ending[r] => alive[r] \/ r \in twice
        /\ pages[r] = "task" <=> ending[r] /\ data[r] # "nothing"
        /\ result[r] # None => pages[r] \in {"client", "freed"}
        /\ pages[r] = "client" => result[r].data # "nothing"

\* await_suspend returns true, and the coroutine is resumed by on_end alone, if the
\* coroutines have their pump's thread: between the write of _error and the test of
\* it (coro_async_file.h:499) there is no other thread to store an error, also
\* where the read has ended, and the task with it, inside ScheduleReadImpl_.
ResumedOnce == oneThread => twice = {}

\* A coroutine that is told of no error has all the bytes it asked for, also
\* when the request is not aligned, or is cut off to a DWORD (InvokeReadEnd's
\* tests of the number of bytes).  So it is on one thread if no read finishes at
\* once; BytesAreTheKernels and TaskOutlivesAwaitSuspend show why not otherwise.
SuccessGivesAllBytes ==
    oneThread /\ ~syncReads =>
        \A r \in Reads : result[r] # None => (~result[r].failed <=> result[r].data = "all")

\* Every co_await of a read goes on, whichever way ReadFile returns.
EveryReadResumes == \A r \in Reads : pc[r] = "issue" ~> result[r] # None

\* The assertion of InvokeReadEnd (coro_async_file.h:375): the number of bytes
\* it is called with is the one that the kernel has stored in the OVERLAPPED.
BytesAreTheKernels ==
    [][\A r \in Reads : ReadFinished(r) => Asked(r) = Stored(r)]_vars

\* "Can't be destroyed while read is in progress" (coro_async_file.h:41):
\* await_suspend, which writes and reads _error last, finds its task alive.
TaskOutlivesAwaitSuspend ==
    \A r \in Reads : pc[r] \in {"issue", "return", "test"} => alive[r]

----------------------------------------------------------------------------
(* The inductive invariant: who has a read *)

Mentions(s, r) == \E k \in 1..Len(s) : s[k].read = r

OnItsWay(r) == r \in pending \/ Mentions(port, r) \/ \E p \in Pumps : Mentions(batch[p], r)

\* A read is with the kernel, or has one entry, in the port or with one pump.
EntriesOnce ==
    /\ \A j, k \in 1..Len(port) : port[j].read = port[k].read => j = k
    /\ \A p, q \in Pumps : \A j \in 1..Len(batch[p]), k \in 1..Len(batch[q]) :
          batch[p][j].read = batch[q][k].read => p = q /\ j = k
    /\ \A j \in 1..Len(port), p \in Pumps : \A k \in 1..Len(batch[p]) :
          port[j].read # batch[p][k].read
    /\ \A r \in pending : ~Mentions(port, r) /\ \A p \in Pumps : ~Mentions(batch[p], r)

\* A pump is at the entry of this read.
AtHead(r) == \E p \in Pumps : batch[p] # <<>> /\ Head(batch[p]).read = r

\* await_suspend, the kernel and its entry have a read one after the other, and
\* each leaves the pages as the next one needs them.
OneOwner ==
    \A r \in Reads :
        /\ pc[r] \in {"idle", "issue", "inside"} => ~OnItsWay(r) /\ alive[r]
        /\ pc[r] \in {"idle", "issue"} => ~ending[r]
        /\ pc[r] = "inside" => ending[r]
        /\ ending[r] => (alive[r] \/ r \in twice) /\ (pc[r] = "inside" \/ AtHead(r))
        /\ OnItsWay(r) => alive[r] \/ ending[r]
        /\ alive[r] <=> result[r] = None
        /\ alive[r] /\ ~ending[r] =>
              data[r] = "nothing" /\ pages[r] = IF pc[r] = "idle" THEN "nobody" ELSE "request"
        /\ alive[r] /\ status[r] => ending[r] /\ data[r] = "nothing"
        /\ ending[r] => pages[r] = IF data[r] = "nothing" THEN "freed" ELSE "task"
        /\ ~alive[r] =>
              /\ data[r] = "nothing" /\ pages[r] \in {"client", "freed"}
              /\ pages[r] = "client" => result[r].data # "nothing"

\* On one thread no pump stores an error between the write of _error and its test.
NothingInBetween ==
    oneThread => twice = {} /\ \A r \in Reads : pc[r] = "test" /\ alive[r] => ~status[r]

\* An entry without an error has the bytes that were read.
TrueEntry(e) == ~e.failed => e.bytes = Stored(e.read)
TrueEntries ==
    /\ \A k \in 1..Len(port) : TrueEntry(port[k])
    /\ \A p \in Pumps : \A k \in 1..Len(batch[p]) : TrueEntry(batch[p][k])

\* On one thread the status is that of the data until the coroutine has both.
StatusOfData ==
    oneThread /\ ~syncReads =>
        \A r \in Reads : ending[r] =>
            /\ pc[r] \in {"inside", "out"}
            /\ data[r] \in {"nothing", "all"}
            /\ status[r] <=> data[r] = "nothing"

ReadInv ==
    /\ TypeOK /\ EntriesOnce /\ OneOwner /\ NothingInBetween
    /\ TrueEntries /\ StatusOfData /\ SuccessGivesAllBytes
=============================================================================

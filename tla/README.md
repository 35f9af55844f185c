# Verification of win_io

TLA+ models, TLC runs and TLAPS proofs for the three libraries of this
repository:

* **win_io** (`src/win_io`): wrappers of the I/O completion port (IOCP) and of
  `ReadDirectoryChangesW`;
* **win_io_coro** (`src/win_io_coro`): coroutines on top of an IOCP: a
  scheduler with a lock-free queue of waiting tasks, and unbuffered files;
* **win_socks** (`src/win_socks/include/unifex_IOCP_sockets.hpp`): senders and
  receivers of *unifex* for sockets and name resolution on an IOCP.

Everything in them is about objects that a kernel, a pump thread and a user
share for the time of one request. What can go wrong is always one of these: an
object ends while someone still points to it, a result is delivered twice or
never, a cancellation is lost, an item falls out of a list. The models are
about these, not about formats or parameters.

Paths below are relative to the repository; line numbers are in
`PROJECT.json`, which maps every definition to the lines it stands for.

## 1. Inventory

| Component | State | Operations | Hard part | Correct means |
|---|---|---|---|---|
| **Intrusive queue** `win_io_coro/detail/intrusive_queue.h` | `head_`, `Item::next` | `push`, `pop`, `is_empty`, any thread | two compare-and-swap loops; `pop` takes the *whole* list, walks to its last item and puts the rest back while others push and pop | lists stay lists; one owner per item; nothing is lost; some call always completes; in push order as long as no push overtakes a pop |
| **I/O scheduler, task** `io_coro_scheduler.cpp`, `io_task.cpp` | `tasks_` (the queue), the port; `coro_`, `data_` of each task | `get`, `add`, `poll`, `poll_one`; `await_suspend`, `set`, `await_resume` | a task is published from inside `await_suspend`; `set` runs the coroutine inline, which may end or wait again; entries that find no task are posted again | entries and coroutines are neither lost nor used twice, and meet |
| **I/O completion port** `win_io/io_completion_port.h` | a HANDLE; the kernel's queue of entries | `make`, `post`, `get`, `query`, `wait_for`, `get_many`, `associate_*`, move, `close` | `wait_impl` reports a failed request as an error, `wait_many_impl` does not; durations become DWORDs | an entry reaches one waiter |
| **Asynchronous file** `coro_async_file.h` | pages (OVERLAPPED and bytes), `_error`, `_data`, `_awaiter` of `AsyncReadTask` | `open`, `read`, `HandleIOCP_Once` | `await_suspend` works on after the read is issued; reads that end at once; sector and DWORD arithmetic | pages are freed once; each coroutine goes on; success gives all bytes |
| **Directory changes** `win_io/read_directory_changes.h` | `buffer_`, `ov_`, `dir_key_`, the port | `make`, `start_watch`, `get`/`wait_for`/`query`, move, `close` | the kernel writes to the one buffer as soon as a read is pending; several waiting threads; foreign entries in the same port; overflow | no one reads what the kernel writes; each change is read once or was dropped |
| **Iterator over notify records** (same file) | offset in the buffer, `consumed_size_` | `begin`, `end`, `++`, `*` | offsets, padding | the records the kernel wrote, each once |
| **Socket operations** `unifex_IOCP_sockets.hpp`: `Operation_Connect`, `_WriteSome`, `_SendTo`, `_ReadSome`, `_ReceiveFrom`, `_Accept`, `_IOCP_Schedule` | `_ov`, `_stop_callback`, the socket | `start`, completion handler, `try_stop` | the stop callback, the kernel and the pump race; a request may end inside `start`; the signal destroys the operation | one signal, after everybody else is done with the object; no success for a failed request; a stop of a pending request ends it |
| **Read and write of whole buffers** `async_read`, `async_write` | `State_AsyncReadWrite` (buffers, index, two counters), `_calls_count` | `consume`, `remaining`, `is_completed`; once in N through the port | short transfers cut the buffers anywhere; one thread for all | every byte once, in order; it ends; nobody starves |
| **Name resolution** `Operation_Resolve` | `_atomic_stop`, `_stop_callback`, the query, `_results` | `start`, worker callback, handler, `try_stop` | four threads inside one object; the cancel handle is published after the query has started | one signal, nobody left inside; a stop that finds the handle ends the query |
| **Connect to a range** `Operation_RangeConnect` | an iterator and one `Operation_Connect` | a loop over endpoints | the operation is re-created from its own completion | first success or last error |
| **Socket objects** `Async_TCPSocket`, `Async_UDPSocket` | a SOCKET each | `make`, `bind`, `listen`, move, `disconnect`/`close` | pending operations have a copy of the handle, whose value the next socket may get; an accept owns the socket of its client | every open handle has one owner; closing ends what is pending |
| **IOCP_sync_wait, start_detached** | the stack entry, a heap operation | run the loop until the sender is done; `stop_with` | the loop's batch may hold entries of others when it ends | no entry is dropped, no operation leaks |

How they interact: the kernel puts *entries* into a completion port; a *pump*
(`poll`, `HandleIOCP_Once`, `IOCP_sync_wait`, or a thread in
`DirectoryChanges::get`) takes entries out and finds, by key or by OVERLAPPED,
the object to run; that object resumes a coroutine or signals a receiver, which
issues the next request on the same thread. Stop requests come from any thread.
The examples join these parts; two of them, `unifex_TCP_connect` and
`unifex_TCP_simple_echo`, do it in ways that can go wrong on their own and are
modelled as compositions.

`PROJECT.json` also lists the parts left out, the examples, the tests, the
build files, and the hazards: what here is hard to test, each at its line, with
the properties that cover it or the reason why none does.

## 2. Modules

| Module | Models | Uses |
|---|---|---|
| `IntrusiveQueue` | `push` and `pop`, one action per access to `head_` or to a shared `next` | `TaskPool` as refinement target |
| `TaskPool` | abstract: what the queue promises to the scheduler | |
| `IntrusiveQueueFifo` | order of the items (history variables) | `IntrusiveQueue` |
| `MCIntrusiveQueue` | instance of it with fairness for TLC | `IntrusiveQueueFifo` |
| `QueueTestClients` | producers and consumers of `test_queue.cpp` | `IntrusiveQueue` |
| `CompletionPort` | `IoCompletionPort` on the kernel's queue of entries | |
| `IoScheduler` | `IoScheduler`, `IoTask`, coroutines | the *actions* of `TaskPool` and `CompletionPort` |
| `AsyncRead` | `AsyncReadTask`, `SingleReadOverlapped`, `HandleIOCP_Once` | `CompletionPort` |
| `Offsets` | where records, or buffers, begin that follow each other without a gap | |
| `NotifyRecords` | `DirectoryChangesIterator` on the offsets of records | `Offsets` |
| `DirectoryWatch` | `DirectoryChanges`, the kernel's side of it, five kinds of clients with their threads | `CompletionPort`, `NotifyRecords` |
| `SenderContract` | abstract: what every sender promises to its receiver | |
| `SocketOperation` | one state machine for seven kinds of operations | `CompletionPort`; `SenderContract` as refinement target |
| `AsyncSocket` | socket objects, their handles, and the operations on them | `SocketOperation` |
| `MCAsyncSocket` | instance of it for TLC | `AsyncSocket` |
| `StreamTransfer` | `async_read`, `async_write` on one thread | `CompletionPort`, `Offsets` |
| `SimpleEcho` | `unifex_TCP_simple_echo`: four transfers, two streams, `when_all` | `StreamTransfer` |
| `MCStreamTransfer` | instances of both for TLC | `SimpleEcho` |
| `ResolveOperation` | `Operation_Resolve` | `SenderContract` as refinement target |
| `RangeConnect` | `Operation_RangeConnect` and its attempts | `CompletionPort` |
| `ConnectByName` | the lookup, then the connects (`unifex_TCP_connect`), and the list of endpoints | `ResolveOperation`, `RangeConnect` |
| `IntrusiveQueueProofs` | theorems about the queue, its order and its test | `IntrusiveQueueFifo`, `QueueTestClients` |
| `OffsetsProofs` | lemmas about offsets; induction on the numbers | `Offsets` |
| `IoSchedulerProofs` | theorems about the scheduler | `IoScheduler` |
| `ConnectByNameProofs` | theorems about lookups and connects | `ConnectByName` |
| `AsyncSocketProofs` | theorems about operations and sockets | `AsyncSocket` |
| `DirectoryWatchProofs` | theorems about the watch and its iterators | `DirectoryWatch`, `OffsetsProofs` |
| `AsyncReadProofs` | theorems about file reads | `AsyncRead` |
| `StreamTransferProofs` | theorems about turns and bytes | `SimpleEcho`, `OffsetsProofs` |

There are two abstract specifications. `TaskPool` matters for the size of the
models: `IoScheduler` composed with the pointers of
`IntrusiveQueue` would be far too large for TLC. So the queue is proved to
implement `TaskPool` (section 5), and the scheduler is built from the actions
of `TaskPool`. The pool is what the queue really promises, not what one would
like: a `pop` takes *some* item, and may fail while another `pop` has the list.

`SenderContract` is what a receiver may rely on, in three variables: after
`start()` it gets a value, an error or done, once, and done only if it has asked
for a stop. The mapping from `SocketOperation` is short (an operation has begun
once `started` is not "no"; the first component of each signal is what was
received), and the property relates all threads that touch an operation.
`ResolveOperation` is one sender, and implements the same contract.

### How state and actions correspond to the code

**IntrusiveQueue.** `head` and `next` are the memory; `pc`, `value`,
`localHead`, `tail`, `seen` the locals of each call. `PushLoad`, `PushLink`,
`PushCas` (success), `PushRetry` (failure, also a spurious one of
`compare_exchange_weak`) are `push`; `PopExchange`, `PopEmpty`, `PopAdvance`,
`PopDetach`, `PopSingle`, `PopMerge`, `PopMergeRetry`, `PopRelink`, `PopReturn`
are `pop`. `shared` and `private` are history: the list at `head_` and the list
each `pop` has taken, as sequences; nothing depends on them.
Memory orders: the model is sequentially consistent. The code publishes items by
a release operation on `head_` and takes lists by an acquire one; `next` fields
are only read by the thread that has the list. A failed `compare_exchange_weak`
with `memory_order_relaxed` gives `pop` a pointer that it stores and never
follows; the release sequence on `head_` goes on through the read-modify-writes.
So nothing the model leaves out is visible.

**CompletionPort.** `Post` is `post`; `Get` and `TimeOut` are the two ends of
`wait_impl`, under `get`, `query` and `wait_for`; `GetMany` is `wait_many_impl`.
`Oldest` and `OldestMany` are what they return. The other modules have a port
each and use these operators on it.

**IoScheduler.** `Complete` is the kernel, or any caller of `post`.
`AwaitSuspend` and `Add` are the two halves of `IoTask::await_suspend`, before
and with the publication; `Set` gives data and control to the coroutine, which
runs on the poller until `Add` or `Finish`. `Query`, `Pop` (the pool's steps),
`PopFailed`, `PutBack`, `Again`, `Return` are `poll_one` and `poll`. The post of
`PutBack` may fail, which in a build without assertions goes unnoticed: the entry is
then in `lost`, history that only this step adds to. It is the comment's "data lost
happened", and the one exception of `EntryInOnePlace`.

**SocketOperation.** What differs between the kinds is a table: whether a
stop callback exists, whether `start` issues a request or posts an entry, and
which signals the handler may give for each result. `TryConstruct`, then one of
`Finished`, `Refused`, `IoPending`, `Post`, are `start()`; `RequestStop` and
`TryStop` the stop callback; `GetMany` and `Handle` are `IOCP_sync_wait` with
the handler of the operation. The four results tell apart what the handlers
can: `GetQueuedCompletionStatusEx` does not report the error of a request, so a
request that failed while pending looks like one that moved 0 bytes. `read_some`
takes 0 bytes for the end of its peer, unless its buffers have no room
(`has_data()`): then they are its value, and a read that failed while pending
succeeds. So a read has two rows, "read_some" and "read_nothing", and `NoFalseSuccess`
is about the first. The handler
of an accept asserts that nothing has failed: a failed accept ends the program
(`Aborted`), and nothing is said of what comes after. The header keeps its
assertions also where NDEBUG is defined.

**AsyncSocket.** `handles` is what is open; `socket`, `uses` and `client` are the
three places where the code keeps a handle: `_socket` of a socket object, the copy
in an operation, and the socket that an accept makes for its client. The value of
a closed handle may be given out again. `Make`, `Disconnect` (`disconnect`,
`close`, the destructor) and `Move` (move construction and assignment) are the
objects' methods; `Close` ends the pending requests of every operation that uses
the handle, in any order of their entries. `Async` and `StartIo` are `start()`
on the copied handle, `HandleEntry` the handler and the receiver of an accept, who
keeps the new socket or drops it. `StopIo` is `try_stop` while the handle is open.
Once it is closed `CancelIoEx` fails with another error than the one
`Helper_CancelIoEx` allows, and its assertion ends the program (`StopAborts`); that a
socket is closed and its operation then stopped, before its signal, is the second
case of `Aborted`. The library leaves to its clients that a socket
is not closed between the construction of an operation and the end of its
`start()`; the examples keep the socket in the scope around its operations, and
the model has this as a guard of `Close`.

**ResolveOperation.** `start` stands between `TryConstruct`, the call of
`GetAddrInfoExW` (`QueryDone` or `QueryPending`) and `Publish`, the store to
`_atomic_stop`. The worker is `QueryEnds` and `OnComplete` (a failed `post`
makes it call the handler itself). `TryStop` is the exchange, `Cancel` the call
of `GetAddrInfoExCancel`. The pump may fetch the entry at any time (`Fetch`), as it
does if `start()` is called on another thread. So `Publish` may come after the
signal: then `start()` writes to an operation that its receiver has destroyed. That
it does not happen where `start()` is called on the only pump and the worker can
post is the order of the calls on that thread, not something to check; that it
happens otherwise is a hazard without a property.

**RangeConnect, ConnectByName.** `RangeStart`, `OnConnectSuccess`,
`OnConnectError` with `StartNextConnect` are the methods of
`Operation_RangeConnect`. An attempt is what `SocketOperation` says of a connect
without a stop token, in three states: `ConnectPending`, `ConnectFinished`,
`ConnectEnds` (the kernel) and `OnConnected` (the pump). The entry carries the
number of its attempt as history; the code finds the operation by the address of
the OVERLAPPED, which all attempts share. `ConnectByName` starts the connects from
the signal of the lookup, on whatever thread gave it, and counts the calls of
`FreeAddrInfoExW`. Lookups find one endpoint or more; an empty range can only
come from another caller, and ends at once with the error of no attempt.

In `SocketOperation` and `ResolveOperation` the completion handler is one step. That loses nothing: its first
act, the destruction of the stop callback, waits for a running one and ends all
further ones; a stop requested later in the handler is indistinguishable
from one requested just before it.

**StreamTransfer.** A byte is its number in the data, a buffer an interval. One
thread (`running`) handles the port's entries in order and runs a transfer until
a call is pending or its turn ends. `Consume` is `State_AsyncReadWrite::consume`
with the buffers it cuts, `Select` is `SelectOnceInN_Scheduler` with the `start()` of
`Operation_IOCP_Schedule`: if its post fails the transfer ends with an error.
`MaxFailures` bounds these failures and those of pending calls together. `moved` and
`waited` are history.

**SimpleEcho.** The actions are those of `StreamTransfer`, each in conjunction with
`Composed`, which says what the rest of the program adds to a step: `InStreams`
(a stream holds `Window` bytes and gives out what was put in), `WhenAll` (the first
error requests a stop, which cancels a pending call of the other side if there
is one) and `StopMeansDone` (`try_finalize`). `Connected`, `ConnectFails` and
`Continue` are the sequences of the two sides, `Broken` the end of a call by
`CancelIoEx` or by the loss of the peer. `Unheard` names the states in which a
stop was lost: the server is in its accept, which has no stop callback, or between
`try_construct` and its I/O, as in finding 1.

**DirectoryWatch, NotifyRecords.** `Change` and `Fail` are the kernel: it reports to
a pending read, keeps up to `Capacity` changes when none is pending, and drops all
beyond. `Wait`, `Read` (one record, through the iterator or what `++it` returns),
`StartWatch` and `StartWatchFails` are the loop of a thread. Names have 2, 4 or 6
bytes, so that records come with padding and without; offsets, `consumed_size_`
and the assertions are computed as in the code. `Move` gives the object an `ov_`
of its own while the kernel has the old one's address; `Replace` is the assignment
from another directory, which closes the old one: its request ends with 0 bytes
and its entry is still to come. What the kernel wrote for an entry travels with it
as history; the code has the number of bytes and the one buffer.

Much depends on the loop around the object, so `Clients` chooses: "header"
is the loop in the header's example, which calls `start_watch()` after every
`get()`; "careful" calls it after the watch's own entries, retries, and is the
one that moves and replaces its object; "fs_changes_print" is `WatchForever`, which
has the port for itself, and "verbose" the same with the option that aborts at
unexpected entries; "rxcpp_fs_changes" waits on after anything but valid changes.
`lost` and `deaf` are history: changes the kernel dropped or whose entry was passed
over, and that no read is pending and nothing will make the client start one.

**AsyncRead.** `pages` says who has the allocation, `status` and `data` are the
two fields the task shares with the pump. `AwaitSuspend`, one of
`ReadFinished`, `ReadRefused`, `ReadPending`, perhaps `ResumeInside`, then
`ClearError` and `AwaitSuspendEnd` are `await_suspend`; `GetMany`, `HandleEntry`,
`ResumeFromPump` are `HandleIOCP_Once`. `ClearError` writes `_error`, and
`AwaitSuspendEnd` tests the field again. Between the two a pump on another thread may
store an error, or destroy the task, whose memory then holds anything: `FindsError`.
As `_error` is not atomic, the test may also see what was written. If it finds an
error, `await_suspend` returns false and the coroutine goes on at once (`GoOn`),
while the pump is in `on_end` or still to resume it: a second time. `twice` is the
history of this. The second resumption of a coroutine whose task is gone has no
effect in the model. Sizes and offsets are numbers and
computed as in the code, with a sector of 4 bytes and DWORDs below 16.

## 3. Runs

All instances are finite; the bound of each is in its cfg.

| Run | Instance | Shows |
|---|---|---|
| `queue` | 3 threads that push and pop, 3 items, no limit on calls | invariants of the lists; one owner per item; first in, first out unless disturbed; refinement of `TaskPool`; lock-freedom |
| `queue_clients` (violation) | 1 producer, 2 consumers, 2 items | the test's final assertions can fail |
| `scheduler` | 2 pollers, 2 coroutines that wait as often as they like, 3 entries | no entry used twice, and none lost but by a failed post; a waiting coroutine is in one place; pollers run one coroutine each; entries meet tasks |
| `socket` | 2 operations of 8 pairs of kinds, 2 socket objects, 2 handles, 2 calls of `make`, 1 pump, batches of 4 | lifetime, no false success, the contract of senders, a stop and a close end a pending request, every open handle has one owner |
| `socket_comment` (violation) | 1 operation | a stop may find nothing to cancel though the operation is not finished |
| `transfer` | echoes of 1 or 3 bytes, and two transfers of buffers 1 or 0+1+2 bytes with peers that may do anything; streams of 1 byte, a turn every 2 calls, 1 failed call or post | bytes in order, and the remaining buffers are the rest; turns; every transfer ends; the echo ends unless its stop is lost |
| `connect_by_name` | 1 lookup, started on any thread, with or without a stop token, then connects to 1 to 3 endpoints | lifetime, the contract of senders, a stop that finds the handle ends the query; the first endpoint that accepts, no entry for an attempt that is over, the list is freed, the connects end |
| `watch` | 4 clients (all but "header"), 2 threads, 5 changes, 2 of them kept, 1 foreign entry, 1 failed read, 1 failed `start_watch`, 2 moves or replacements | stable buffer, one read at a time, the iterator stays in the bytes, no change read twice, none forgotten |
| `watch_comment` (violation) | 1 thread with the header's loop, 3 changes, 1 foreign entry | the buffer changes under the reader |
| `file_read` | 2 reads, 1 pump, on its thread or not, reads that end at once or not, 10 bytes of file, aligned and unaligned requests, one beyond a DWORD | pages are freed once, coroutines go on, and once each on the pump's thread, success means all bytes |
| `file_read_bytes` (violation) | 1 read | the byte count of a synchronous read is not the kernel's |
| `file_read_comment` (violation) | 1 read | `await_suspend` writes to a task that is gone |

Why the bounds are enough. Queue: two threads can race on one
compare-and-swap; the third is needed to push between a `pop`'s exchange and its
merge while another `pop` misses; three items give a list that has a first, a
middle and a last one. The invariants are proved for any number of both
(section 5). Scheduler: two pollers to find the queue taken; an entry more than
coroutines, so that one always finds no task. Socket: operations share the port,
the pump's batch and the handles, so two are enough for the orders in it; the
pairs take one kind of each row of the table and each pair that meets in the
examples; two handles and two calls of `make` with an accept's own socket let a
value be closed and given out again. All the invariants are proved without these
bounds. Connects: three endpoints give a first, a middle and a last
attempt; the theorems hold for any number.
Transfers: three buffers, an empty one, and calls that end inside and at the end
of a buffer; turns of 2 calls in place of 128, so that counters wrap; a stream of
one byte makes every transfer of the echo wait for every other. Watch: five
changes overflow the two that are kept and leave some to detect again; with two
moves a replaced directory can be replaced again while entries of both are in the
port. File: the
offsets and sizes reach both sides of a sector, of the end of the file and of the
width of a DWORD.

A type invariant is a property of a run where nothing else includes it; those of
the queue, the scheduler and the connects are parts of inductive invariants, and
proved.

`CHECK_DEADLOCK FALSE` stands where a system may really stop: all coroutines have
ended, all operations have had their signal, no file changes any more. Only the
queue has no such state, and there deadlock is checked.

### Fairness

* Queue: a thread inside `push` or `pop` keeps running (weak), and
  `compare_exchange_weak` does not fail spuriously for ever (strong on its
  non-spurious outcome). Nothing is assumed of idle threads.
* Scheduler: threads run, pollers keep calling `poll`, a coroutine that runs
  suspends or ends. A poller may miss for ever only if others hold the queue.
* Socket, lookup: the threads run, a stop callback among them, to its end or to its
  assertion (`StopIo` or `StopAborts`). The kernel and the name service are *not*
  fair; a stop request must work without them, and so must a close. Nobody has
  to make, use, stop or close anything.
* Connects: the threads run, and TCP gives up an attempt after a time.
* Transfer: weak fairness of progress as a whole: the one thread runs, and pending
  calls end. Each step uses up a part of a finite program, so none has to be told
  apart. Failures are not fair.
* Watch: waiting threads run. Files need not change, reads need not fail.
* File: threads run, `HandleIOCP_Once` is called again and again, the kernel ends
  what it has begun.

## 4. Findings

Where a comment, assertion or test says something the code does not do, a run
shows the counterexample (details in `PROJECT.json`):

1. *Stops are lost* (`socket_comment`). A stop that comes between
   `try_construct` and the call that issues the I/O, or before both, calls
   `CancelIoEx` on nothing; the I/O is then issued and never cancelled. The
   comment takes `ERROR_NOT_FOUND` for "Finished?". `try_stop` of
   `Operation_Resolve` has the same gap before `_atomic_stop` is set; there a
   comment knows it. In the echo example this can leave the server waiting for
   ever after the client has failed; `EchoEnds` excepts it by name (`Unheard`).
2. *A synchronous read writes to its dead task* (`file_read_comment`), and so
   does a read that a pump on another thread ends early. If the task is still
   alive, the same write of `_error` hides the error the pump stored, and the test
   of `_error` after it may find the error and resume the coroutine a second time;
   `ResumedOnce` says that one thread is safe from this, and `PagesOutliveTheRead`
   excepts the rest by name (`twice`).
3. *A synchronous read at the end of a file reports too many bytes*
   (`file_read_bytes`).
4. *The header's example starts a second read on a shared port*
   (`watch_comment`).
5. *The multi-threaded queue test may fail* (`queue_clients`): its consumers look
   at the flag after their `pop`, when its answer may be old.

Not first in, first out: a `push` that falls into a `pop` is overtaken. No comment
promises more than "queue", so this is stated as what does hold:
`FifoUnlessDisturbed`.

## 5. Proofs

`IntrusiveQueueProofs`, for all sets of threads and items, under
`NullAssumption` (the null pointer is not an item) only:

* `QueueCorrect == Spec => []IInv`, where `IInv` is the conjunction of
  `TypeOK`, `SharedListInMemory`, `PrivateListInMemory`, `Exclusive` and
  `PopGivesItem`. No single one of them is inductive: that the list at `head_`
  stays a list when a `pop` merges needs that the private list is linked up to
  `tail` and that `tail` already points to the `head_` just compared
  (`PrivateListInMemory`); that linking one list leaves the others alone needs
  that they share no item (`Exclusive`); that a detached item ends no list needs
  `PopGivesItem`. There is one lemma per action, and frame lemmas for the lists an
  action leaves alone. The history variables make the lists sequences, so no
  induction along pointers is needed.
* `QueueListInMemory`, `QueuePrivateLists`, `QueueExclusive`: the parts as
  properties of their own.

`QueueImplementsPool == Spec => ImplementsPool` (same module). Under
the mapping a `pop` decides its item when it takes the list (`PopExchange` is
`Take` or `Miss`), is "holding" until it has merged, and pushes take effect at
their compare-and-swap; all other steps stutter. It uses `QueueCorrect`.

`QueueInOrder == FifoSpec => []FifoUnlessDisturbed` (same module). That the list is
in push order while nobody holds it is not inductive, because a `pop` takes it away
and puts it back. `FifoInv` says where it is meanwhile: while no push has gone ahead
of a pop, at most one pop holds a list, `head_` is empty then, and the list of that
pop is what is left of the order, newest first, with the item to be returned still
at its end while it walks (`OneListInOrder`). The lemmas are about `Reverse`,
`Front` and `RemoveFirst` of sequences of any length.

`TestMissesOnlyTheQueued == TestThreads => (ClientSpec => []MissingAreInQueue)`
(same module), for any producers and consumers that are not the same threads. The
run `queue_clients` shows that the final assertions of the test can fail; this
theorem shows how little goes wrong: no element is popped twice, none disappears,
and what is missing is in the list, so the permutation is only wrong when
`is_empty()` is. `ClientInv` adds to `IInv` that an element is with its producer, in
the queue or a call of it, or in the output once (`PoppedOnce`), and that producers
end before the flag is set and consumers after (`ProducersFirst`). Which items are
in use changes at the beginning of a push and the end of a pop only; that
comes from the mapping to the pool (`OutsideKept`).

`IoSchedulerProofs`, for all sets of pollers, coroutines and entries, under
`IoSchedulerAssumption` (`Null` and `Outside` are none of them):
`SchedulerCorrect == Spec => []Inv`. `Inv` is the conjunction of the properties
that the run checks and of `PollerState`, which ties where a poller stands in
`poll_one` to what it holds: without it a fetched entry could be anywhere. Each
part speaks of a few variables, so there is one frame lemma per part and one
lemma per action. An entry is lost by the failed post of a put-back and in no other
way, since `EntryInOnePlace` counts `lost` as a place that excludes all others.
`SchedulerKeepsEntries`, `SchedulerKeepsCoroutines` and
`SchedulerRunsInline` are its parts. With `QueueImplementsPool` this says that
the scheduler is right on the lock-free queue, whose steps are the pool's.

`ConnectByNameProofs`, for lists of any length, under `ConnectAssumption` (lists
are not empty): `ConnectCorrect == ConnectSpec => []ConnectInv`, and from it
`LookupImplementsContract`, `ConnectsHaveOwnEntries`, `ConnectsToFirst` and
`ListIsFreed`. That a lookup signals once is not inductive. What is: the operation passes from
the query over the port and a handler to the receiver and is with one of them at
a time (`OneOwner`); its stop callback lives from `try_construct` to the signal
(`CallbackLifetime`); the worker runs a handler only if its post has failed
(`WorkerHandles`); the connects begin with a value and a list
(`ListFollowsConnects`).

`LookupOutlivesQuery` follows from the same invariant. In the
refinement (`ConnectSpec => ImplementsContract`) `TryConstruct` is the contract's
`Start`, `RequestStop` its `Ask`, the handler its `Signal`; the worker, the port,
the cancellation and all the connects stutter.

`AsyncSocketProofs`, for all sets of pumps, sockets and handles and finite sets of
operations (`closesocket` queues an entry for each of them), under
`SocketAssumption`, `KindsAssumption` and `AsyncSocketAssumption`: `SocketCorrect == SocketSpec =>
[]SocketInv`, and from it `SocketOutlivesRequests`, `SocketHonest`,
`SocketHandlesOwned`, and the refinement `SocketImplementsContract == SocketSpec =>
ImplementsContract`; `SocketTypeCorrect` is the type invariant of the operations
within it. What carries the induction is `OneHolder`: `start()`, the kernel, the
entry and the receiver have an operation one after the other; it needs that no
operation has two entries in the port and the batches of all threads
(`EntriesOnce`), which taking a batch, and closing a socket with several requests,
could break. `HandlesOwned` is inductive with the types and
`ClientAfterStart`.

`DirectoryWatchProofs`, for any number of threads and any bounds, for every set of
clients without "header": `WatchCorrect == "header" \notin Clients => (Spec =>
[]WatchInv)`, hence `WatchBufferStable` and `WatchOneRead`. The kernel, one entry or
one thread uses the OVERLAPPED at a time (`OneUser`); the entries and requests of
objects that were moved away or replaced never look like the present one's
(`OldObjects`, by address and key together); the buffer is that of the entry not
yet taken, or of its reader (`BufferOfEntry`). `watch_comment` shows that the
hypothesis is needed.

On top of it, and under the same hypothesis, `WatchReadsCorrect == ... => (Spec =>
[]ReadInv)`, hence `WatchTypeCorrect`, `WatchIterators` and `WatchDetectsOnce`. That no
change is read twice is about what was read; the invariant is about what was not
(`UnreadInOnePlace`): an unread change is in the kernel, in the entry of one
read, or ahead of one iterator, once, and untouched. That needs that an iterator
always stands at a record of its buffer (`IteratorFits`), which is not inductive
without a bound on what it believes is left: `available_size()` counts the bytes
of the records without their padding as consumed, so it is never less than the
rest of the buffer. From that bound follow the assertions of the constructor and of
`move_to_next`, for records of any lengths and in any number.

`AsyncReadProofs`, for any number of reads and pumps and any sizes, under
`AsyncReadAssumption`: `ReadCorrect == Spec => []ReadInv`, hence `ReadPagesOutlive`, `ReadResumedOnce`, `ReadSuccessIsAll` and `ReadTypeCorrect`.
`OneOwner` ties the owner of the pages to
where the read is, also when `await_suspend` has returned false and the coroutine is
ahead of the pump; `NothingInBetween` says that on one thread no error is stored
between the write of `_error` and its test; `EntriesOnce` and `TrueEntries` say that a read has one
entry with the kernel's byte count; `StatusOfData` that the two fields of
the result agree where `await_suspend` does not overwrite one of them.

`StreamTransferProofs`, for any number of transfers, any buffers and any N:
`TransfersTakeTurns` and `EchoTakesTurns`, both `=> []OthersGetTheirTurn`. How long an
entry has waited is bounded because for every transfer that may run before it,
the calls made since plus the calls left in its turn are at most N
(`TurnsLeft`). The echo inherits it: its steps are steps of `StreamTransfer`, and
`Broken` only adds entries.

`TransfersTyped`, `TransfersInOrder` and `EchoInOrder` (`=> []BytesInOrder`): the bytes
go in order, and the buffers that remain are those not yet moved, wherever short
calls cut them. The inductive invariant is `DataInv`: the buffers from `current`
on follow each other without a gap, and the first of them begins at the byte after
those processed (`BuffersLeft`); the cached size is that of the data, calculated
before a buffer is cut (`SizeOfData`); what was moved is processed, or is in
the one entry of a pending call (`MovedOnce`). The lemmas say what `consume` does to
a list of buffers of any length, some of them empty.

`OffsetsProofs` has what both of these need: the offsets of things that follow each
other without a gap exist, rise, keep the things apart, and a position between two of
them belongs to one thing (`OffsetsExist`, `OffsetsFollow`, `OffsetsApart`,
`BetweenBounds`, `FlattenIntervals`). `Offsets` is a recursive function, so this is
induction over data. The library's induction theorems take an operator as a
parameter, which no installed prover instantiates; `InductionOnNat` states
induction for *sets* of numbers instead, from the well-foundedness of strict
inclusion of finite sets, and each use names the set of the numbers for which its
claim holds.

### Proved and checked

Every safety invariant, every action property and all three refinements that the
passing runs check are stated by a theorem, those of `watch` for all the clients of
that run. Checked by TLC only:

* all liveness properties, since fairness and ENABLED are beyond the prover:
  `LockFree`, `EntriesMeetTasks`, `StopEndsPending`, `CloseEndsPending`, `StopEndsQuery`,
  `ConnectsOrFails`, `ChangesDetected`, `EveryReadResumes`, `MCTransferEnds`,
  `MCEchoEnds`;
* the violations, each a behaviour of a small instance; a watch with the client
  "header" is one of them and nothing is proved about it.

## 6. Not modelled, and why

* Destroying an `IoTask` that waits, or a coroutine from outside; the code
  calls it a bad idea and handles it nowhere.
* Move, `close` and `associate` of ports, `open`, move and `close` of files. (Those
  of directories and sockets are modelled; what they show, that an object with a
  pending request must stay where it is, holds here too.) `close()` of a directory
  that was made from a HANDLE of its client leaves the HANDLE open; `Replace`
  assumes one opened by name.
* The conversion of durations to DWORDs in `wait_for`: a hazard names its
  edges, but no client in the repository waits as long.
* The storage of operations in `start_detached`, and `stop_with`: an allocation and
  its release around an operation that `SocketOperation` already describes.
* A client that closes a socket in the middle of `start()`, which no example does.
* The conversion of a name that fails in `Operation_Resolve::start`: it returns
  without a signal (a hazard that no property covers); the model starts after it.
* `assert(ec)` in `rxcpp_fs_changes`, which a successful `start_watch()` would fail:
  the model is of a build with NDEBUG.
* Error codes, names, addresses, logging, command lines; build files; examples
  that are straight sequences of calls.

## 7. Plan

Order of work, most important first. Done but for 8, and where it says so.

1. `TaskPool`, `IntrusiveQueue` and its proofs (the only lock-free code).
2. `IoScheduler` on the pool.
3. `SocketOperation`, `ResolveOperation` (object lifetimes).
4. `DirectoryWatch`.
5. `AsyncRead`.
6. `StreamTransfer`.
7. `CompletionPort`, which these are built from; `RangeConnect` and
   `ConnectByName`; proofs about the scheduler and about `ConnectByName`.
8. `CompletionPort`: move, `close`, `associate`, durations to DWORDs; `AsyncFile`:
   `open`, move, `close`. Not done.
9. `NotifyRecords`: the iterator and `consumed_size_`.
10. `SenderContract`, implemented by `SocketOperation` and `ResolveOperation`.
11. `AsyncSocket`; `SimpleEcho`; `DirectoryWatch` with move, close and failing
    `start_watch`. `start_detached` is not done.
12. Proofs: `AsyncSocket`, `DirectoryWatch`, `AsyncRead`, turns of
    `StreamTransfer`; then `BytesInOrder`, the order of the queue, the iterators and
    changes of `DirectoryWatch`, the contract of lookups, the clients of the queue's
    test.
13. Left to prove: that `IoScheduler` on the steps of `IntrusiveQueue`, in place of those
    of `TaskPool`, implements `IoScheduler` (today this is the composition of two
    theorems, argued in section 5).

----------------------------- MODULE IoScheduler -----------------------------
(***************************************************************************)
(* coro::IoScheduler and coro::IoTask (io_coro_scheduler.cpp, io_task.cpp):*)
(* coroutines that co_await scheduler.get() wait in the task queue; threads*)
(* that call poll() fetch entries from the I/O completion port and resume  *)
(* one waiting coroutine with each.                                        *)
(*                                                                         *)
(* The task queue is TaskPool, which IntrusiveQueue implements; waiting,   *)
(* stage and hand are its variables.  The port is a CompletionPort.        *)
(* A coroutine runs on the thread that called it until its first co_await, *)
(* and then, inline in IoTask::set, on the poller that resumed it.  It has *)
(* one IoTask at a time, the temporary of the co_await it is in, named     *)
(* after it.                                                               *)
(***************************************************************************)
EXTENDS Integers, Sequences, Functions

CONSTANTS
    Pollers,    \* threads that call IoScheduler::poll
    Coros,      \* coroutines
    Entries,    \* the PortEntry values that are posted, each once
    Outside,    \* any thread that calls a coroutine and is not a poller
    Null

ASSUME IoSchedulerAssumption ==
    Outside \notin Pollers /\ Null \notin Coros \cup Entries \cup Pollers \cup {Outside}

VARIABLES
    waiting, stage, hand,   \* IoScheduler::tasks_, as a TaskPool
    port,       \* entries queued in the completion port, oldest first
    posted,     \* entries posted so far
    pc,         \* where each poller stands in poll and poll_one
    data,       \* the entry poll_one has fetched
    coro,       \* each IoTask's coro_ is set
    cs,         \* what each coroutine is doing
    runner,     \* the thread a coroutine runs on
    received,   \* the coroutine that was given an entry
    lost        \* history: entries that poll_one could not put back

queueVars == <<waiting, stage, hand>>
coroVars == <<coro, cs, runner>>
vars == <<queueVars, port, posted, pc, data, coroVars, received, lost>>

Tasks == INSTANCE TaskPool WITH Threads <- Pollers, Items <- Coros
Port == INSTANCE CompletionPort WITH entries <- port

PollerLabels == {"out", "query", "pop", "set", "post", "resumed", "true", "false"}
CoroStates == {"new", "running", "awaiting", "suspended", "ended"}

Init ==
    /\ Tasks!PoolInit
    /\ Port!PortInit
    /\ posted = {}
    /\ pc = [p \in Pollers |-> "out"]
    /\ data = [p \in Pollers |-> Null]
    /\ coro = [c \in Coros |-> FALSE]
    /\ cs = [c \in Coros |-> "new"]
    /\ runner = [c \in Coros |-> Null]
    /\ received = [e \in Entries |-> Null]
    /\ lost = {}

Goto(p, l) == pc' = [pc EXCEPT ![p] = l]

----------------------------------------------------------------------------
(* The completion port *)

\* An I/O operation completes, or somebody calls IoCompletionPort::post.
Complete(e) ==
    /\ e \notin posted
    /\ posted' = posted \cup {e}
    /\ Port!Post(e)
    /\ UNCHANGED <<queueVars, pc, data, coroVars, received, lost>>

----------------------------------------------------------------------------
(* Coroutines *)

\* Somebody calls the coroutine.
Start(c) ==
    /\ cs[c] = "new"
    /\ cs' = [cs EXCEPT ![c] = "running"]
    /\ runner' = [runner EXCEPT ![c] = Outside]
    /\ UNCHANGED <<queueVars, port, posted, pc, data, coro, received, lost>>

\* co_await scheduler.get(): a new IoTask, await_ready, and await_suspend up to
\* its call of add: assert(!coro_); coro_ = awaiter
AwaitSuspend(c) ==
    /\ cs[c] = "running"
    /\ cs' = [cs EXCEPT ![c] = "awaiting"]
    /\ coro' = [coro EXCEPT ![c] = TRUE]
    /\ UNCHANGED <<queueVars, port, posted, pc, data, runner, received, lost>>

\* What the thread does next once its coroutine has suspended or ended: the
\* call of resume() in IoTask::set returns.
Back(t) ==
    pc' = [p \in Pollers |-> IF p = t THEN "true" ELSE pc[p]]

\* scheduler_->add(*this), that is tasks_.push.  From here on another thread
\* may resume the coroutine; this one touches neither it nor its IoTask again.
Add(c) ==
    /\ cs[c] = "awaiting"
    /\ Tasks!Push(c)
    /\ cs' = [cs EXCEPT ![c] = "suspended"]
    /\ Back(runner[c])
    /\ runner' = [runner EXCEPT ![c] = Null]
    /\ UNCHANGED <<port, posted, data, coro, received, lost>>

\* co_return; the IoTask of the last co_await is gone.
Finish(c) ==
    /\ cs[c] = "running"
    /\ cs' = [cs EXCEPT ![c] = "ended"]
    /\ Back(runner[c])
    /\ runner' = [runner EXCEPT ![c] = Null]
    /\ UNCHANGED <<queueVars, port, posted, data, coro, received, lost>>

----------------------------------------------------------------------------
(* poll and poll_one *)

\* poll() is called.
Poll(p) ==
    /\ pc[p] = "out"
    /\ Goto(p, "query")
    /\ UNCHANGED <<queueVars, port, posted, data, coroVars, received, lost>>

\* poll_one: data = io_port_.query(ec)
Query(p) ==
    /\ pc[p] = "query"
    /\ \/ Port!Get /\ data' = [data EXCEPT ![p] = Port!Oldest] /\ Goto(p, "pop")
       \/ Port!TimeOut /\ Goto(p, "false") /\ UNCHANGED data
    /\ UNCHANGED <<queueVars, posted, coroVars, received, lost>>

\* tasks_.pop(task), whose steps are the pool's
Pop(p) ==
    /\ pc[p] = "pop"
    /\ \/ \E c \in Coros : Tasks!Take(p, c)
       \/ Tasks!Release(p)
       \/ Tasks!Miss(p)
    /\ UNCHANGED <<port, posted, pc, data, coroVars, received, lost>>

\* !tasks_.pop(task)
PopFailed(p) ==
    /\ pc[p] = "pop"
    /\ Tasks!ReturnMissed(p)
    /\ Goto(p, "post")
    /\ UNCHANGED <<port, posted, data, coroVars, received, lost>>

\* Bug: the entry is not posted again.
PutBack_Dropped(p) ==
    /\ pc[p] = "post"
    /\ data' = [data EXCEPT ![p] = Null]
    /\ Goto(p, "false")
    /\ UNCHANGED <<queueVars, port, posted, coroVars, received, lost>>

\* io_port_.post(*data, ec); return 0.  If post fails nobody has the entry any
\* more: the assertion on ec ("data lost happened") ends a debug build, and a
\* build with NDEBUG, which this is, goes on.
PutBack(p) ==
    /\ pc[p] = "post"
    /\ \/ Port!Post(data[p]) /\ UNCHANGED lost
       \/ lost' = lost \cup {data[p]} /\ UNCHANGED port
    /\ data' = [data EXCEPT ![p] = Null]
    /\ Goto(p, "false")
    /\ UNCHANGED <<queueVars, posted, coroVars, received>>

\* Bug: set does not wait for resume() to return.
Set_NotInline(p) ==
    /\ pc[p] = "pop"
    /\ Tasks!ReturnItem(p)
    /\ LET c == hand[p] IN
          /\ received' = [received EXCEPT ![data[p]] = c]
          /\ cs' = [cs EXCEPT ![c] = "running"]
          /\ runner' = [runner EXCEPT ![c] = p]
          /\ coro' = [coro EXCEPT ![c] = FALSE]
    /\ data' = [data EXCEPT ![p] = Null]
    /\ Goto(p, "true")
    /\ UNCHANGED <<port, posted, lost>>

\* task->set(std::move(*data)): data_ = data; coro_.resume() runs the coroutine
\* inline; await_resume gives it the entry and ends the co_await's IoTask
Set(p) ==
    /\ pc[p] = "pop"
    /\ Tasks!ReturnItem(p)
    /\ LET c == hand[p] IN
          /\ received' = [received EXCEPT ![data[p]] = c]
          /\ cs' = [cs EXCEPT ![c] = "running"]
          /\ runner' = [runner EXCEPT ![c] = p]
          /\ coro' = [coro EXCEPT ![c] = FALSE]
    /\ data' = [data EXCEPT ![p] = Null]
    /\ Goto(p, "resumed")
    /\ UNCHANGED <<port, posted, lost>>

\* poll: while (poll_one() == 1)
Again(p) ==
    /\ pc[p] = "true"
    /\ Goto(p, "query")
    /\ UNCHANGED <<queueVars, port, posted, data, coroVars, received, lost>>

\* poll returns
Return(p) ==
    /\ pc[p] = "false"
    /\ Goto(p, "out")
    /\ UNCHANGED <<queueVars, port, posted, data, coroVars, received, lost>>

----------------------------------------------------------------------------
PollStep(p) ==
    Query(p) \/ Pop(p) \/ PopFailed(p) \/ PutBack(p) \/ Set(p) \/ Again(p) \/ Return(p)

CoroStep(c) == AwaitSuspend(c) \/ Add(c) \/ Finish(c)

Next ==
    \/ \E e \in Entries : Complete(e)
    \/ \E c \in Coros : Start(c) \/ CoroStep(c)
    \/ \E p \in Pollers : Poll(p) \/ PollStep(p)

Spec == Init /\ [][Next]_vars

\* Threads run, and pollers keep calling poll.  A coroutine that runs suspends
\* or ends, it does not block its poller.
Fairness ==
    /\ \A p \in Pollers : WF_vars(Poll(p) \/ PollStep(p))
    /\ \A c \in Coros : WF_vars(CoroStep(c))

FairSpec == Spec /\ Fairness

----------------------------------------------------------------------------
(* Properties *)

\* The task queue holds coroutines, the port entries, and each poller at most
\* one of either.
TypeOK ==
    /\ waiting \subseteq Coros
    /\ stage \in [Pollers -> Tasks!Stages]
    /\ hand \in [Pollers -> Coros \cup {Null}]
    /\ port \in Seq(Entries)
    /\ posted \subseteq Entries
    /\ pc \in [Pollers -> PollerLabels]
    /\ data \in [Pollers -> Entries \cup {Null}]
    /\ coro \in [Coros -> BOOLEAN]
    /\ cs \in [Coros -> CoroStates]
    /\ runner \in [Coros -> Pollers \cup {Outside, Null}]
    /\ received \in [Entries -> Coros \cup {Null}]
    /\ lost \subseteq Entries

InData(e) == \E p \in Pollers : data[p] = e

\* An entry that was posted is in one place: the port, the hands of one
\* poller, the coroutine that received it, or nowhere because the post that
\* should put it back has failed ("data lost happened",
\* io_coro_scheduler.cpp:38).  Nothing else loses an entry, nothing repeats one,
\* and a lost entry does not come back.
EntryInOnePlace ==
    /\ \A j, k \in 1..Len(port) : port[j] = port[k] => j = k
    /\ \A p, q \in Pollers : data[p] = data[q] /\ data[p] # Null => p = q
    /\ \A e \in Entries :
          /\ e \in posted <=> e \in Range(port) \/ InData(e) \/ received[e] # Null \/ e \in lost
          /\ ~(e \in Range(port) /\ InData(e))
          /\ received[e] # Null => e \notin Range(port) /\ ~InData(e)
          /\ e \in lost => e \notin Range(port) /\ ~InData(e) /\ received[e] = Null

\* A task that waits in the queue, or that a pop has taken, belongs to a
\* suspended coroutine that no thread runs, and is in one pop's hands only: set
\* finds coro_ (the assertion of io_task.cpp:43) and no coroutine is resumed
\* twice.  No coroutine stays suspended without being in the queue.
SuspendedIsQueued ==
    /\ \A c \in Coros :
          /\ cs[c] = "suspended" <=> c \in waiting \/ \E p \in Pollers : hand[p] = c
          /\ coro[c] <=> cs[c] \in {"awaiting", "suspended"}
          /\ runner[c] # Null <=> cs[c] \in {"running", "awaiting"}
    /\ \A p \in Pollers :
          /\ hand[p] \notin waiting
          /\ \A q \in Pollers \ {p} : hand[p] # Null => hand[p] # hand[q]

\* A poller is inside resume() of one coroutine at most, and of one exactly
\* until that coroutine suspends or ends; coroutines never share a poller.
OneCoroutinePerPoller ==
    /\ \A p \in Pollers : pc[p] = "resumed" <=> \E c \in Coros : runner[c] = p
    /\ \A c, d \in Coros : runner[c] = runner[d] /\ runner[c] \in Pollers => c = d

\* Where a poller stands in pop, and what it holds, follows where it stands in
\* poll_one.
PollerState ==
    \A p \in Pollers :
        /\ data[p] # Null <=> pc[p] \in {"pop", "post"}
        /\ stage[p] # "out" => pc[p] = "pop"
        /\ hand[p] # Null <=> stage[p] \in {"holding", "done"}

Inv ==
    TypeOK /\ EntryInOnePlace /\ SuspendedIsQueued /\ OneCoroutinePerPoller /\ PollerState

Pending == port # <<>> \/ \E p \in Pollers : data[p] # Null

\* Pollers that miss because another pop has the queue put their entries back
\* and try again, but not for ever: entries meet waiting coroutines, or a post
\* fails and they are lost.
EntriesMeetTasks == (Pending /\ waiting # {}) ~> ~(Pending /\ waiting # {})
=============================================================================

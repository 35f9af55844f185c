-------------------------- MODULE ResolveOperation --------------------------
(***************************************************************************)
(* Operation_Resolve (unifex_IOCP_sockets.hpp): one asynchronous name      *)
(* lookup.  GetAddrInfoExW runs the query on a thread of its own, the      *)
(* worker, which posts an entry to the completion port when the query      *)
(* ends; a thread in IOCP_sync_wait, the pump, handles it.  A stop request *)
(* comes from a fourth thread and may cancel the query, once start() has   *)
(* published the cancel handle in _atomic_stop.                            *)
(*                                                                         *)
(* The completion handler is one step: no stop callback can run after its  *)
(* _stop_callback.destruct().                                              *)
(***************************************************************************)
EXTENDS Integers, Sequences

VARIABLES
    cancellable,\* stop_possible(): the receiver has a stop token
    start,      \* where the thread in start() stands
    query,      \* the query of GetAddrInfoExW
    port,       \* the entry of the operation is in the completion port
    handler,    \* the thread that is about to call on_addrinfo_finish
    error,      \* the query failed
    postFailed, \* history: _iocp->post failed
    stopped,    \* stop_requested()
    callback,   \* _stop_callback
    atomicStop, \* _atomic_stop, which points to the cancel handle or to nothing
    signals     \* history: signals to the receiver; the first one destroys the operation

queryVars == <<query, error>>
vars == <<cancellable, start, queryVars, port, handler, postFailed, stopped, callback, atomicStop, signals>>

Init ==
    /\ cancellable \in BOOLEAN
    /\ start = "no"
    /\ query = "none"
    /\ port = FALSE
    /\ handler = "none"
    /\ error = FALSE
    /\ postFailed = FALSE
    /\ stopped = FALSE
    /\ callback = "none"
    /\ atomicStop = "null"
    /\ signals = <<>>

----------------------------------------------------------------------------
(* start *)

\* _cancel_impl.try_construct.  A stop that was requested already runs the
\* callback at once, which finds no handle.
TryConstruct ==
    /\ start = "no"
    /\ start' = "constructed"
    /\ callback' = IF stopped THEN "ran" ELSE "registered"
    /\ UNCHANGED <<cancellable, queryVars, port, handler, postFailed, stopped, atomicStop, signals>>

\* GetAddrInfoExW is done at once; start() calls the handler.
QueryDone ==
    /\ start = "constructed"
    /\ start' = "returned"
    /\ handler' = "start"
    /\ error' \in BOOLEAN
    /\ query' = "done"
    /\ UNCHANGED <<cancellable, port, postFailed, stopped, callback, atomicStop, signals>>

\* WSA_IO_PENDING; cancel_ptr is null if no stop is possible.
QueryPending ==
    /\ start = "constructed"
    /\ start' = IF cancellable THEN "publish" ELSE "returned"
    /\ query' = "running"
    /\ UNCHANGED <<cancellable, error, port, handler, postFailed, stopped, callback, atomicStop, signals>>

\* _atomic_stop = cancel_ptr.  The query may be over, and the operation destroyed
\* by its signal, unless start() runs on the only pump and the post does not fail.
Publish ==
    /\ start = "publish"
    /\ start' = "returned"
    /\ atomicStop' = "handle"
    /\ UNCHANGED <<cancellable, queryVars, port, handler, postFailed, stopped, callback, signals>>

----------------------------------------------------------------------------
(* The worker *)

QueryEnds ==
    /\ query = "running"
    /\ query' = "ended"
    /\ error' \in BOOLEAN
    /\ UNCHANGED <<cancellable, start, port, handler, postFailed, stopped, callback, atomicStop, signals>>

\* Bug: the handler is called whether or not the entry was posted.
OnComplete_Twice ==
    /\ query = "ended"
    /\ query' = "done"
    /\ port' = TRUE
    /\ handler' = "worker"
    /\ UNCHANGED <<cancellable, start, error, postFailed, stopped, callback, atomicStop, signals>>

\* on_complete_WindowsThread: the entry is posted; if post fails the worker
\* itself calls the handler.
OnComplete ==
    /\ query = "ended"
    /\ query' = "done"
    /\ \/ port' = TRUE /\ UNCHANGED <<handler, postFailed>>
       \/ handler' = "worker" /\ postFailed' = TRUE /\ UNCHANGED port
    /\ UNCHANGED <<cancellable, start, error, stopped, callback, atomicStop, signals>>

----------------------------------------------------------------------------
(* Stopping *)

RequestStop ==
    /\ cancellable
    /\ ~stopped
    /\ stopped' = TRUE
    /\ callback' = IF callback = "registered" THEN "running" ELSE callback
    /\ UNCHANGED <<cancellable, start, queryVars, port, handler, postFailed, atomicStop, signals>>

\* Bug: the handle is taken and GetAddrInfoExCancel not called.
TryStop_NoCancel ==
    /\ callback = "running"
    /\ atomicStop' = "null"
    /\ callback' = "ran"
    /\ UNCHANGED <<cancellable, start, queryVars, port, handler, postFailed, stopped, signals>>

\* try_stop: _atomic_stop.exchange(nullptr)
TryStop ==
    /\ callback = "running"
    /\ atomicStop' = "null"
    /\ callback' = IF atomicStop # "null" THEN "cancelling" ELSE "ran"
    /\ UNCHANGED <<cancellable, start, queryVars, port, handler, postFailed, stopped, signals>>

\* GetAddrInfoExCancel ends the query, if it still runs, with an error.
Cancel ==
    /\ callback = "cancelling"
    /\ callback' = "ran"
    /\ IF query = "running"
       THEN query' = "ended" /\ error' = TRUE
       ELSE UNCHANGED queryVars
    /\ UNCHANGED <<cancellable, start, port, handler, postFailed, stopped, atomicStop, signals>>

----------------------------------------------------------------------------
(* IOCP_sync_wait and the handler *)

Fetch ==
    /\ port
    /\ handler = "none"
    /\ port' = FALSE
    /\ handler' = "pump"
    /\ UNCHANGED <<cancellable, start, queryVars, postFailed, stopped, callback, atomicStop, signals>>

Outcome ==
    IF stopped THEN "done" ELSE IF error \/ handler = "worker" THEN "error" ELSE "value"

\* Bug: try_finalize does not wait for the stop callback.
OnAddrInfoFinish_NoWait ==
    /\ handler # "none"
    /\ handler' = "none"
    /\ atomicStop' = IF stopped THEN "null" ELSE atomicStop
    /\ signals' = Append(signals, Outcome)
    /\ UNCHANGED <<cancellable, start, query, error, port, postFailed, stopped, callback>>

\* on_addrinfo_finish
OnAddrInfoFinish ==
    /\ handler # "none"
    /\ callback \notin {"running", "cancelling"}
    /\ handler' = "none"
    /\ callback' = "none"
    /\ atomicStop' = IF stopped THEN "null" ELSE atomicStop
    /\ signals' = Append(signals, Outcome)
    /\ UNCHANGED <<cancellable, start, query, error, port, postFailed, stopped>>

----------------------------------------------------------------------------
Start == TryConstruct \/ QueryDone \/ QueryPending \/ Publish

Next ==
    \/ Start
    \/ QueryEnds \/ OnComplete
    \/ RequestStop \/ TryStop \/ Cancel
    \/ Fetch \/ OnAddrInfoFinish

Spec == Init /\ [][Next]_vars

\* All threads run; the query itself may take for ever.
Fairness ==
    /\ WF_vars(Start) /\ WF_vars(OnComplete) /\ WF_vars(TryStop) /\ WF_vars(Cancel)
    /\ WF_vars(Fetch) /\ WF_vars(OnAddrInfoFinish)

FairSpec == Spec /\ Fairness

----------------------------------------------------------------------------
(* Properties *)

\* The threads follow start(), on_complete_WindowsThread and try_stop().
TypeOK ==
    /\ start \in {"no", "constructed", "publish", "returned"}
    /\ query \in {"none", "running", "ended", "done"}
    /\ handler \in {"none", "start", "worker", "pump"}
    /\ callback \in {"none", "registered", "running", "cancelling", "ran"}
    /\ {cancellable, port, error, postFailed, stopped} \subseteq BOOLEAN
    /\ atomicStop \in {"null", "handle"}
    /\ signals \in Seq({"value", "error", "done"})

\* The operation is not destroyed, by the signal to its receiver, while its
\* query runs, its entry waits, a thread is about to call its handler or a stop
\* callback is inside try_stop().
OutlivesItsQuery ==
    signals # <<>> =>
        ~port /\ handler = "none" /\ callback = "none" /\ query \in {"none", "done"}

Contract == INSTANCE SenderContract WITH
    Senders <- {"lookup"},
    begun <- IF start = "no" THEN {} ELSE {"lookup"},
    asked <- IF stopped THEN {"lookup"} ELSE {},
    received <- [o \in {"lookup"} |-> signals]

\* However a synchronous end, the worker, a failed post and a cancellation race,
\* the receiver gets what every sender promises: one signal after start(), and
\* done only after a stop request.
ImplementsContract == Contract!Spec

\* A stop request that finds the handle while the query runs ends the operation,
\* even if the query would never end.
StopEndsQuery ==
    (callback = "running" /\ atomicStop = "handle" /\ query = "running") ~> (signals # <<>>)

\* What makes them inductive: the operation is with one party at a time, from
\* the query over the port and the handler's thread to the receiver; the stop
\* callback exists from try_construct to the signal; and the worker calls the
\* handler if its post fails.
OneOwner ==
    /\ query = "none" <=> start \in {"no", "constructed"}
    /\ query # "done" => ~port /\ handler = "none" /\ signals = <<>>
    /\ query = "done" =>
          \/ port /\ handler = "none" /\ signals = <<>>
          \/ ~port /\ handler # "none" /\ signals = <<>>
          \/ ~port /\ handler = "none" /\ Len(signals) = 1

CallbackLifetime == callback = "none" <=> start = "no" \/ signals # <<>>

WorkerHandles == handler = "worker" => postFailed

LookupInv == TypeOK /\ OneOwner /\ CallbackLifetime /\ WorkerHandles
=============================================================================

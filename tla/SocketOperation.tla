-------------------------- MODULE SocketOperation --------------------------
(***************************************************************************)
(* The operations of unifex_IOCP_sockets.hpp: connect, write, send, read,  *)
(* receive, accept and schedule.  Each is an object that owns the          *)
(* OVERLAPPED of one I/O request and the stop callback of its receiver,    *)
(* and that is destroyed by the receiver it signals.  start() runs on one  *)
(* thread, the completion handler on a thread in IOCP_sync_wait (or in     *)
(* start), and try_stop() on the thread that requests the stop.            *)
(*                                                                         *)
(* A completion handler is one step: a stop requested inside it, after     *)
(* _stop_callback.destruct(), is one requested just before it.             *)
(***************************************************************************)
EXTENDS Integers, Sequences

CONSTANTS
    Ops,        \* operations, each started once
    Kinds,      \* what the operations may do
    Pumps,      \* threads in IOCP_sync_wait
    Batch       \* the length of `entries' in IOCP_sync_wait, 4 in the code

ASSUME SocketAssumption == Batch \in Nat \ {0} /\ Ops \cap Pumps = {}

VARIABLES
    kind,       \* what each operation does
    started,    \* how far start() is
    irp,        \* the kernel's I/O request on _ov
    port,       \* entries in the completion port
    todo,       \* entries a pump, or the thread in start(), has yet to handle
    stopped,    \* operations whose stop token is stop_requested()
    callback,   \* _stop_callback, and where a call of it stands
    signals     \* history: signals to the receiver, with what the I/O did

vars == <<kind, started, irp, port, todo, stopped, callback, signals>>

Port == INSTANCE CompletionPort WITH entries <- port

\* What a request does: it succeeds, with data or with none, it fails once it
\* is pending, or it is refused, which is the only failure a handler gets an
\* error code for (GetQueuedCompletionStatusEx does not report the others).
Pending == {"ok", "empty", "failed"}
Results == Pending \cup {"refused"}

Entry(o, r) == [op |-> o, result |-> r]
Entries == [op : Ops, result : Results]

----------------------------------------------------------------------------
(* The operations: whether stopping the receiver calls try_stop(), whether *)
(* start() issues an I/O request or posts an entry of its own, and what    *)
(* the handler may signal for each result if no stop was requested.        *)

\* A failure is seen by ec, or by SO_UPDATE_CONNECT_CONTEXT.
Operation_Connect ==
    [stops |-> TRUE, request |-> "io", signals |-> [r \in Results |->
        IF r \in {"refused", "failed"} THEN {"error"} ELSE {"value", "error"}]]

\* A failure is seen by ec only: a request that failed while it was pending
\* counts as one that moved 0 bytes.
ByErrorCode == [r \in Results |-> IF r = "refused" THEN {"error"} ELSE {"value"}]

Operation_WriteSome ==
    [stops |-> TRUE, request |-> "io", signals |-> ByErrorCode]

Operation_SendTo ==
    [stops |-> TRUE, request |-> "io", signals |-> ByErrorCode]

\* Bug: no test of bytes_transferred.
Operation_ReadSome_NoEof(hasData) ==
    [stops |-> TRUE, request |-> "io", signals |-> ByErrorCode]

\* 0 bytes in buffers that has_data() are an error: the peer is gone, or the
\* request failed.  A read of nothing takes them for its value.
Operation_ReadSome(hasData) ==
    [stops |-> TRUE, request |-> "io", signals |-> [r \in Results |->
        IF r = "refused" \/ (hasData /\ r # "ok") THEN {"error"} ELSE {"value"}]]

Operation_ReceiveFrom ==
    [stops |-> TRUE, request |-> "io", signals |-> ByErrorCode]

\* SO_UPDATE_ACCEPT_CONTEXT is asserted to succeed, also where NDEBUG is defined:
\* a pending accept that fails has no signal, it is the end of the program.
Operation_Accept ==
    [stops |-> FALSE, request |-> "io", signals |-> [ByErrorCode EXCEPT !["failed"] = {}]]

Operation_IOCP_Schedule ==
    [stops |-> FALSE, request |-> "post", signals |-> ByErrorCode]

Operation ==
    [connect |-> Operation_Connect, write_some |-> Operation_WriteSome,
     send_to |-> Operation_SendTo,
     read_some |-> Operation_ReadSome(TRUE), read_nothing |-> Operation_ReadSome(FALSE),
     receive_from |-> Operation_ReceiveFrom, accept |-> Operation_Accept,
     schedule |-> Operation_IOCP_Schedule]

ASSUME KindsAssumption == Kinds \subseteq DOMAIN Operation

Init ==
    /\ kind \in [Ops -> Kinds]
    /\ started = [o \in Ops |-> "no"]
    /\ irp = [o \in Ops |-> "none"]
    /\ Port!PortInit
    /\ todo = [t \in Pumps \cup Ops |-> <<>>]
    /\ stopped = {}
    /\ callback = [o \in Ops |-> "none"]
    /\ signals = [o \in Ops |-> <<>>]

Stoppable(o) == Operation[kind[o]].stops

----------------------------------------------------------------------------
(* start *)

\* Constructing the callback of a stop that was requested already runs it, and
\* CancelIoEx finds nothing.
TryConstruct(o) ==
    /\ started[o] = "no"
    /\ started' = [started EXCEPT ![o] = "constructed"]
    /\ callback' = [callback EXCEPT ![o] =
           IF ~Stoppable(o) THEN "none" ELSE IF o \in stopped THEN "ran" ELSE "registered"]
    /\ UNCHANGED <<kind, irp, port, todo, stopped, signals>>

\* Bug: Async_TCPSocket::make leaves FILE_SKIP_COMPLETION_PORT_ON_SUCCESS out.
Finished_NoSkip(o) ==
    /\ started[o] = "constructed"
    /\ Operation[kind[o]].request = "io"
    /\ started' = [started EXCEPT ![o] = "yes"]
    /\ \E r \in {"ok", "empty"} :
          /\ todo' = [todo EXCEPT ![o] = <<Entry(o, r)>>]
          /\ Port!Post(Entry(o, r))
    /\ UNCHANGED <<kind, irp, stopped, callback, signals>>

\* WSASend, WSARecv, ConnectEx, ... complete synchronously.  The sockets skip
\* the completion port on success: start() calls the handler itself.
Finished(o) ==
    /\ started[o] = "constructed"
    /\ Operation[kind[o]].request = "io"
    /\ started' = [started EXCEPT ![o] = "yes"]
    /\ \E r \in {"ok", "empty"} : todo' = [todo EXCEPT ![o] = <<Entry(o, r)>>]
    /\ UNCHANGED <<kind, irp, port, stopped, callback, signals>>

\* Bug: every error is taken for ERROR_IO_PENDING.
Refused_Ignored(o) ==
    /\ started[o] = "constructed"
    /\ started' = [started EXCEPT ![o] = "yes"]
    /\ UNCHANGED <<kind, irp, port, todo, stopped, callback, signals>>

\* They fail with anything but ERROR_IO_PENDING; or Async_TCPSocket::make fails
\* in Operation_Accept::start, or post in Operation_IOCP_Schedule::start.
Refused(o) ==
    /\ started[o] = "constructed"
    /\ started' = [started EXCEPT ![o] = "yes"]
    /\ todo' = [todo EXCEPT ![o] = <<Entry(o, "refused")>>]
    /\ UNCHANGED <<kind, irp, port, stopped, callback, signals>>

\* ERROR_IO_PENDING: start() returns without another look at the operation.
IoPending(o) ==
    /\ started[o] = "constructed"
    /\ Operation[kind[o]].request = "io"
    /\ started' = [started EXCEPT ![o] = "yes"]
    /\ irp' = [irp EXCEPT ![o] = "pending"]
    /\ UNCHANGED <<kind, port, todo, stopped, callback, signals>>

\* Bug: entry.overlapped is not set.
Post_NoOverlapped(o) ==
    /\ started[o] = "constructed"
    /\ Operation[kind[o]].request = "post"
    /\ started' = [started EXCEPT ![o] = "yes"]
    /\ Port!Post(Entry("nullptr", "ok"))
    /\ UNCHANGED <<kind, irp, todo, stopped, callback, signals>>

\* Operation_IOCP_Schedule::start: _iocp->post(entry, ec)
Post(o) ==
    /\ started[o] = "constructed"
    /\ Operation[kind[o]].request = "post"
    /\ started' = [started EXCEPT ![o] = "yes"]
    /\ Port!Post(Entry(o, "ok"))
    /\ UNCHANGED <<kind, irp, todo, stopped, callback, signals>>

----------------------------------------------------------------------------
(* The kernel *)

Dequeue(o, r) ==
    /\ irp[o] = "pending"
    /\ irp' = [irp EXCEPT ![o] = "finished"]
    /\ Port!Post(Entry(o, r))

\* A pending request ends; its entry goes to the completion port.
IoFinishes(o) ==
    /\ \E r \in Pending : Dequeue(o, r)
    /\ UNCHANGED <<kind, started, todo, stopped, callback, signals>>

----------------------------------------------------------------------------
(* Stopping *)

\* request_stop() on the stop source runs the callbacks that are registered.
RequestStop(o) ==
    /\ o \notin stopped
    /\ stopped' = stopped \cup {o}
    /\ callback' = [callback EXCEPT ![o] = IF @ = "registered" THEN "running" ELSE @]
    /\ UNCHANGED <<kind, started, irp, port, todo, signals>>

\* Bug: try_stop only leaves a mark.
TryStop_NoCancel(o) ==
    /\ callback[o] = "running"
    /\ callback' = [callback EXCEPT ![o] = "ran"]
    /\ UNCHANGED <<kind, started, irp, port, todo, stopped, signals>>

\* try_stop: CancelIoEx(_socket, &_ov) aborts a pending request and finds no
\* other (ERROR_NOT_FOUND, and no other error: the socket is open).
TryStop(o) ==
    /\ callback[o] = "running"
    /\ callback' = [callback EXCEPT ![o] = "ran"]
    /\ IF irp[o] = "pending" THEN Dequeue(o, "failed") ELSE UNCHANGED <<irp, port>>
    /\ UNCHANGED <<kind, started, todo, stopped, signals>>

----------------------------------------------------------------------------
(* IOCP_sync_wait and the completion handlers *)

\* iocp.get_many(entries, ec)
GetMany(p) ==
    /\ todo[p] = <<>>
    /\ Port!GetMany(Batch)
    /\ todo' = [todo EXCEPT ![p] = Port!OldestMany(Batch)]
    /\ UNCHANGED <<kind, started, irp, stopped, callback, signals>>

\* Bug: try_finalize does not destroy the stop callback.
Handle_NoDestruct(t) ==
    /\ todo[t] # <<>>
    /\ LET o == Head(todo[t]).op  r == Head(todo[t]).result IN
          \E s \in IF Stoppable(o) /\ o \in stopped THEN {"done"} ELSE Operation[kind[o]].signals[r] :
              signals' = [signals EXCEPT ![o] = Append(@, <<s, r>>)]
    /\ todo' = [todo EXCEPT ![t] = Tail(@)]
    /\ UNCHANGED <<kind, started, irp, port, stopped, callback>>

\* ov->_callback(ov->_user_data, entry, ec): try_finalize waits for a stop
\* callback that runs on another thread and destroys it; then the receiver gets
\* its signal and destroys the operation.
Handle(t) ==
    /\ todo[t] # <<>>
    /\ LET o == Head(todo[t]).op  r == Head(todo[t]).result IN
          /\ callback[o] \notin {"running", "aborted"}
          /\ callback' = [callback EXCEPT ![o] = "none"]
          /\ \E s \in IF Stoppable(o) /\ o \in stopped THEN {"done"} ELSE Operation[kind[o]].signals[r] :
                signals' = [signals EXCEPT ![o] = Append(@, <<s, r>>)]
    /\ todo' = [todo EXCEPT ![t] = Tail(@)]
    /\ UNCHANGED <<kind, started, irp, port, stopped>>

----------------------------------------------------------------------------
Start(o) == TryConstruct(o) \/ Finished(o) \/ Refused(o) \/ IoPending(o) \/ Post(o)

Next ==
    \/ \E o \in Ops : Start(o) \/ IoFinishes(o) \/ RequestStop(o) \/ TryStop(o)
    \/ \E p \in Pumps : GetMany(p)
    \/ \E t \in Pumps \cup Ops : Handle(t)

Spec == Init /\ [][Next]_vars

\* The threads in start, request_stop and IOCP_sync_wait run.  The kernel need
\* not finish a request: a peer may stay silent for ever.
Fairness ==
    /\ \A o \in Ops : WF_vars(Start(o)) /\ WF_vars(TryStop(o))
    /\ \A p \in Pumps : WF_vars(GetMany(p))
    /\ \A t \in Pumps \cup Ops : WF_vars(Handle(t))

FairSpec == Spec /\ Fairness

----------------------------------------------------------------------------
(* Properties *)

\* The kernel, the port and the pumps hold requests of known operations only.
TypeOK ==
    /\ kind \in [Ops -> Kinds]
    /\ started \in [Ops -> {"no", "constructed", "yes"}]
    /\ irp \in [Ops -> {"none", "pending", "finished"}]
    /\ port \in Seq(Entries)
    /\ todo \in [Pumps \cup Ops -> Seq(Entries)]
    /\ stopped \subseteq Ops
    /\ callback \in [Ops -> {"none", "registered", "running", "ran", "aborted"}]
    /\ signals \in [Ops -> Seq({"value", "error", "done"} \X Results)]

Mentions(s, o) == \E k \in 1..Len(s) : s[k].op = o

\* An operation is not destroyed, by the signal to its receiver, while the
\* kernel or the port has its OVERLAPPED, while a thread is about to call its
\* handler, or while a stop callback that points to it may run.
OutlivesItsRequest ==
    \A o \in Ops : signals[o] # <<>> =>
        /\ irp[o] # "pending"
        /\ ~Mentions(port, o)
        /\ \A t \in Pumps \cup Ops : ~Mentions(todo[t], o)
        /\ callback[o] = "none"

Begun == {o \in Ops : started[o] # "no"}
Received == [o \in Ops |-> [k \in DOMAIN signals[o] |-> signals[o][k][1]]]

Contract == INSTANCE SenderContract WITH
    Senders <- Ops, begun <- Begun, asked <- stopped, received <- Received

\* However a synchronous completion, a late entry and a cancellation race, the
\* receiver gets what every sender promises: one signal after start(), and done
\* only after a stop request.
ImplementsContract == Contract!Spec

\* A connect, an accept or a read whose request failed while it was pending, and a
\* read from a peer that is gone, never report success, although IOCP_sync_wait
\* hands the handler no error code.  That is not so for write_some, send_to and
\* receive_from, nor for a read_some whose buffers have no room.
NoFalseSuccess ==
    \A o \in Ops : \A k \in 1..Len(signals[o]) :
        LET s == signals[o][k] IN
        /\ kind[o] \in {"connect", "accept"} /\ s[1] = "value" => s[2] \notin {"failed", "refused"}
        /\ kind[o] = "read_some" /\ s[1] = "value" => s[2] = "ok"

\* An assertion ends the program: a thread has no way past its next entry, or
\* past CancelIoEx.
Aborted ==
    \/ \E t \in Pumps \cup Ops :
          /\ todo[t] # <<>>
          /\ Operation[kind[Head(todo[t]).op]].signals[Head(todo[t]).result] = {}
    \/ \E o \in Ops : callback[o] = "aborted"

\* A stop requested while the request is pending ends the operation even if the
\* kernel never would.
StopEndsPending ==
    \A o \in Ops :
        (callback[o] = "running" /\ irp[o] = "pending") ~> (signals[o] # <<>> \/ Aborted)

\* unifex_IOCP_sockets.hpp:237, "No request to cancel. Finished?": a stop
\* callback finds nothing to cancel only when the request has finished.
NothingToCancelMeansFinished ==
    [][\A o \in Ops :
          callback'[o] = "ran" /\ callback[o] # "ran" /\ irp[o] # "pending"
              => todo[o] # <<>> \/ irp[o] = "finished"]_vars
=============================================================================

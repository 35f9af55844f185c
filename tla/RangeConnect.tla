---------------------------- MODULE RangeConnect ----------------------------
(***************************************************************************)
(* Operation_RangeConnect (unifex_IOCP_sockets.hpp): connects one socket   *)
(* to the first endpoint of a range that accepts.  It tries one endpoint   *)
(* after another; each attempt is an Operation_Connect, as in              *)
(* SocketOperation, and all of them are constructed in the same storage,   *)
(* _op: their OVERLAPPEDs have the same address, and an entry in the port  *)
(* does not say which attempt it is for.                                   *)
(*                                                                         *)
(* The attempts cannot be stopped: Receiver_Connect hands no stop token on.*)
(***************************************************************************)
EXTENDS Integers, Sequences

VARIABLES
    count,      \* the number of endpoints in _endpoints
    current,    \* _current_endpoint, by its position
    op,         \* the Operation_Connect in _op
    irp,        \* history: the attempt the kernel's ConnectEx is for, or 0
    connects,   \* entries in the port, with the attempt they are for (history)
    lastError,  \* the attempt that gave _last_error, or 0
    results,    \* history: how the attempts ended, in order
    outcome     \* history: the signal, with the endpoint or the error it carries

rangeVars == <<count, current, op, irp, connects, lastError, results, outcome>>

Port == INSTANCE CompletionPort WITH entries <- connects

None == <<"none", 0>>

RangeInit ==
    /\ count = 0
    /\ current = 0
    /\ op = "none"
    /\ irp = 0
    /\ Port!PortInit
    /\ lastError = 0
    /\ results = <<>>
    /\ outcome = None

\* EndpointsList_IPv4::iterator, by position
Begin == 1
End(n) == n + 1

\* start_next_connect, with what the call left in count, current and lastError
StartNextConnect ==
    IF current' = End(count')
    THEN op' = "none" /\ outcome' = <<"error", lastError'>>
    ELSE op' = "starting" /\ UNCHANGED outcome

\* start(), with a range of n endpoints
RangeStart(n) ==
    /\ count' = n
    /\ current' = Begin
    /\ lastError' = 0
    /\ StartNextConnect
    /\ UNCHANGED <<irp, connects, results>>

\* on_connect_success: _op is destroyed, *_current_endpoint is the value.
OnConnectSuccess ==
    /\ op' = "none"
    /\ results' = Append(results, "connected")
    /\ outcome' = <<"value", current>>
    /\ UNCHANGED <<count, current, lastError>>

\* Bug: _last_error is the first one.
OnConnectError_KeepsFirst ==
    /\ results' = Append(results, "failed")
    /\ lastError' = IF lastError = 0 THEN current ELSE lastError
    /\ current' = current + 1
    /\ UNCHANGED count
    /\ StartNextConnect

\* Bug: start_next_connect is not called.
OnConnectError_NoStart ==
    /\ results' = Append(results, "failed")
    /\ lastError' = current
    /\ current' = current + 1
    /\ op' = "none"
    /\ UNCHANGED <<count, outcome>>

\* on_connect_error: _op is destroyed; ++_current_endpoint; start_next_connect()
OnConnectError ==
    /\ results' = Append(results, "failed")
    /\ lastError' = current
    /\ current' = current + 1
    /\ UNCHANGED count
    /\ StartNextConnect

----------------------------------------------------------------------------
(* One attempt: Operation_Connect *)

\* ConnectEx: ERROR_IO_PENDING
ConnectPending ==
    /\ op = "starting"
    /\ op' = "pending"
    /\ irp' = current
    /\ UNCHANGED <<count, current, connects, lastError, results, outcome>>

\* Bug: the socket does not skip the port on success.
ConnectFinished_NoSkip ==
    /\ op = "starting"
    /\ OnConnectSuccess \/ OnConnectError
    /\ IF outcome' = <<"value", current>> THEN Port!Post(current) ELSE UNCHANGED connects
    /\ UNCHANGED irp

\* ConnectEx is done at once and start() calls on_connected, where
\* SO_UPDATE_CONNECT_CONTEXT may fail; or ConnectEx fails.
ConnectFinished ==
    /\ op = "starting"
    /\ OnConnectSuccess \/ OnConnectError
    /\ UNCHANGED <<irp, connects>>

\* The kernel connects, or gives up.
ConnectEnds ==
    /\ irp # 0
    /\ irp' = 0
    /\ Port!Post(irp)
    /\ UNCHANGED <<count, current, op, lastError, results, outcome>>

\* IOCP_sync_wait: on_connected for whatever attempt is in _op.  It learns
\* from SO_UPDATE_CONNECT_CONTEXT whether the socket is connected.
OnConnected ==
    /\ Port!Get
    /\ OnConnectSuccess \/ OnConnectError
    /\ UNCHANGED irp

RangeNext == ConnectPending \/ ConnectFinished \/ ConnectEnds \/ OnConnected

\* The threads run, and a connection attempt times out.
RangeFairness ==
    /\ WF_rangeVars(ConnectPending \/ ConnectFinished)
    /\ WF_rangeVars(ConnectEnds)
    /\ WF_rangeVars(OnConnected)

----------------------------------------------------------------------------
(* Properties *)

\* The storage, the kernel and the port, before the lookup is over and after.
RangeTypeOK ==
    /\ {count, current, irp, lastError} \subseteq Nat
    /\ op \in {"none", "starting", "pending"}
    /\ connects \in Seq(Nat \ {0})
    /\ results \in Seq({"connected", "failed"})
    /\ outcome \in {"none", "value", "error"} \X Nat

\* The next attempt is constructed in the place of the last one, and the
\* operation destroyed, only when the kernel and the port have done with the
\* OVERLAPPED: while an attempt is pending there is one request or entry and it
\* is for this attempt, and otherwise there is none.
NoStaleEntry ==
    IF op = "pending"
    THEN <<irp, connects>> \in {<<current, <<>>>>, <<0, <<current>>>>}
    ELSE <<irp, connects>> = <<0, <<>>>>

\* The endpoints are tried in their order and up to the first that accepts: the
\* value names the one that has connected, and an error means that every one
\* has failed and is the error of the last.
FirstThatConnects ==
    /\ \A k \in 1..Len(results) : results[k] = "connected" => outcome = <<"value", k>>
    /\ outcome[1] = "value" => results[outcome[2]] = "connected" /\ Len(results) = outcome[2]
    /\ outcome[1] = "error" => Len(results) = count /\ outcome[2] = count
    /\ op # "none" => Len(results) = current - 1 /\ outcome = None
=============================================================================

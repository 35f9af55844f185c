----------------------------- MODULE AsyncSocket -----------------------------
(***************************************************************************)
(* Async_TCPSocket and Async_UDPSocket of unifex_IOCP_sockets.hpp, with    *)
(* the operations of SocketOperation that use them.  A socket object owns  *)
(* a handle; it may be moved, and closes the handle when it is destroyed,  *)
(* disconnected or assigned to.  Operations have a copy of the handle, not *)
(* a reference to the object, and Windows gives the value of a closed      *)
(* handle to the next socket.  Operation_Accept has a socket object of its *)
(* own, which it gives to its receiver.                                    *)
(*                                                                         *)
(* What the library leaves to its clients: a socket is not closed between  *)
(* the call that makes an operation and the end of its start(), which      *)
(* would use whatever the handle then is.                                  *)
(***************************************************************************)
EXTENDS SocketOperation, SequencesExt

CONSTANTS
    Sockets,        \* socket objects
    Handles,        \* values of a SOCKET
    INVALID_SOCKET,
    MaxMakes        \* bound: calls of make() by clients

ASSUME AsyncSocketAssumption ==
    INVALID_SOCKET \notin Handles /\ MaxMakes \in Nat /\ IsFiniteSet(Ops)

VARIABLES
    handles,    \* handles that are open
    socket,     \* _socket of each object
    uses,       \* _socket of each operation
    client,     \* _client._socket of each Operation_Accept
    makes       \* calls of make() so far

handleVars == <<handles, socket, uses, client, makes>>
socketVars == <<vars, handleVars>>

SocketInit ==
    /\ Init
    /\ handles = {}
    /\ socket = [s \in Sockets |-> INVALID_SOCKET]
    /\ uses = [o \in Ops |-> INVALID_SOCKET]
    /\ client = [o \in Ops |-> INVALID_SOCKET]
    /\ makes = 0

----------------------------------------------------------------------------
(* Operations on handles *)

\* WSASocketW.  If a later step of make() fails, the destructor of `socket' closes
\* the handle again, and nothing has happened.
NewHandle(h) == h \notin handles /\ handles' = handles \cup {h}

\* closesocket ends the requests that are pending on the handle.
Close(h) ==
    IF h = INVALID_SOCKET
    THEN UNCHANGED <<handles, irp, port>>
    ELSE LET aborted == {o \in Ops : uses[o] = h /\ irp[o] = "pending"} IN
         /\ ~\E o \in Ops : uses[o] = h /\ started[o] = "constructed"
         /\ handles' = handles \ {h}
         /\ irp' = [o \in Ops |-> IF o \in aborted THEN "finished" ELSE irp[o]]
         /\ \E q \in SetToSeqs(aborted) :
               port' = port \o [k \in 1..Len(q) |-> Entry(q[k], "failed")]

----------------------------------------------------------------------------
(* Socket objects *)

Make(s) ==
    /\ makes < MaxMakes
    /\ socket[s] = INVALID_SOCKET
    /\ makes' = makes + 1
    /\ \E h \in Handles : NewHandle(h) /\ socket' = [socket EXCEPT ![s] = h]
    /\ UNCHANGED <<vars, uses, client>>

\* disconnect() and close(), called by a client or by the destructor
Disconnect(s) ==
    /\ socket[s] # INVALID_SOCKET
    /\ Close(socket[s])
    /\ socket' = [socket EXCEPT ![s] = INVALID_SOCKET]
    /\ UNCHANGED <<kind, started, todo, stopped, callback, signals, uses, client, makes>>

\* Bug: the assigned-to object does not close its handle.
Move_NoDisconnect(s, d) ==
    /\ s # d
    /\ socket[s] # INVALID_SOCKET
    /\ socket' = [socket EXCEPT ![d] = socket[s], ![s] = INVALID_SOCKET]
    /\ UNCHANGED <<vars, handles, uses, client, makes>>

\* d = std::move(s), or the construction of d from s
Move(s, d) ==
    /\ s # d
    /\ socket[s] # INVALID_SOCKET
    /\ Close(socket[d])
    /\ socket' = [socket EXCEPT ![d] = socket[s], ![s] = INVALID_SOCKET]
    /\ UNCHANGED <<kind, started, todo, stopped, callback, signals, uses, client, makes>>

----------------------------------------------------------------------------
(* Operations *)

\* async_connect(), async_read_some(), ... and the beginning of start().  Accept
\* makes the socket of its client there.
Async(o) ==
    /\ TryConstruct(o)
    /\ IF kind[o] = "schedule"
       THEN UNCHANGED uses
       ELSE \E s \in Sockets :
               socket[s] # INVALID_SOCKET /\ uses' = [uses EXCEPT ![o] = socket[s]]
    /\ \/ /\ kind[o] = "accept"
          /\ \E h \in Handles : NewHandle(h) /\ client' = [client EXCEPT ![o] = h]
       \/ UNCHANGED <<handles, client>>
    /\ UNCHANGED <<socket, makes>>

\* The rest of start().  Accept ends if it could not make its client's socket.
StartIo(o) ==
    /\ \/ Refused(o)
       \/ /\ kind[o] = "accept" => client[o] # INVALID_SOCKET
          /\ Finished(o) \/ IoPending(o) \/ Post(o)
    /\ UNCHANGED handleVars

\* try_stop while the handle is open, be it that of another socket by now.
StopIo(o) ==
    /\ TryStop(o)
    /\ uses[o] \in handles
    /\ UNCHANGED handleVars

\* CancelIoEx finds the handle closed (ERROR_INVALID_HANDLE, which the assertion
\* in Helper_CancelIoEx is against, also where NDEBUG is defined): the program
\* ends in the stop callback.  Here other threads may go on, which only adds
\* behaviours.
StopAborts(o) ==
    /\ callback[o] = "running"
    /\ uses[o] \notin handles
    /\ callback' = [callback EXCEPT ![o] = "aborted"]
    /\ UNCHANGED <<kind, started, irp, port, todo, stopped, signals, handleVars>>

\* run_client(): the socket that was accepted becomes the one of a connection.
Accepted(o, s) ==
    /\ client[o] # INVALID_SOCKET
    /\ socket[s] = INVALID_SOCKET
    /\ socket' = [socket EXCEPT ![s] = client[o]]

\* The handler, and the end of the operation.  The receiver of an accept moves
\* _client into an object, or drops it, as the operation does after an error.
HandleEntry(t) ==
    /\ Handle(t)
    /\ LET o == Head(todo[t]).op IN
       /\ uses' = [uses EXCEPT ![o] = INVALID_SOCKET]
       /\ client' = [client EXCEPT ![o] = INVALID_SOCKET]
       /\ \/ /\ Last(signals'[o])[1] = "value"
             /\ \E s \in Sockets : Accepted(o, s)
             /\ UNCHANGED handles
          \/ handles' = handles \ {client[o]} /\ UNCHANGED socket
    /\ UNCHANGED makes

----------------------------------------------------------------------------
SocketNext ==
    \/ \E s \in Sockets : Make(s) \/ Disconnect(s) \/ \E d \in Sockets : Move(s, d)
    \/ \E o \in Ops : Async(o) \/ StartIo(o)
    \/ \E t \in Pumps \cup Ops : HandleEntry(t)
    \/ \E o \in Ops : StopIo(o) \/ StopAborts(o)
    \/ /\ \/ \E o \in Ops : IoFinishes(o) \/ RequestStop(o)
          \/ \E p \in Pumps : GetMany(p)
       /\ UNCHANGED handleVars

SocketSpec == SocketInit /\ [][SocketNext]_socketVars

\* As in SocketOperation; nobody has to make, close or use a socket.
SocketFairness ==
    /\ \A o \in Ops : WF_socketVars(StartIo(o)) /\ WF_socketVars(StopIo(o) \/ StopAborts(o))
    /\ \A p \in Pumps : WF_socketVars(GetMany(p) /\ UNCHANGED handleVars)
    /\ \A t \in Pumps \cup Ops : WF_socketVars(HandleEntry(t))

FairSocketSpec == SocketSpec /\ SocketFairness

----------------------------------------------------------------------------
(* Properties *)

Owned == {s \in Sockets : socket[s] # INVALID_SOCKET}
Accepting == {o \in Ops : client[o] # INVALID_SOCKET}

\* However sockets are moved, assigned, accepted and closed, every open handle has
\* one owner, a socket object or an accept, and nobody owns a handle that is not
\* open: none leaks, and none is closed twice, which would close the socket that
\* has got the same value since (the destructor, disconnect(), the move
\* operations, and Operation_Accept).
HandlesOwned ==
    /\ {socket[s] : s \in Owned} \cup {client[o] : o \in Accepting} = handles
    /\ \A s, d \in Owned : s # d => socket[s] # socket[d]
    /\ \A o, p \in Accepting : o # p => client[o] # client[p]
    /\ \A s \in Owned, o \in Accepting : socket[s] # client[o]

\* An operation whose socket is closed ends, although its peer stays silent:
\* disconnect() is how the echo server gets rid of a client.  (A listening socket
\* must not be closed: its accept fails, and with it an assertion.  Nor may a
\* stop be requested between the closing and the signal: another one fails.)
CloseEndsPending ==
    \A o \in Ops :
        (started[o] = "yes" /\ uses[o] # INVALID_SOCKET /\ uses[o] \notin handles)
            ~> (signals[o] # <<>> \/ Aborted)

----------------------------------------------------------------------------
(* The inductive invariant: who has an operation, and who has a handle *)

OnItsWay(o) == Mentions(port, o) \/ \E t \in Pumps \cup Ops : Mentions(todo[t], o)

\* An operation has one entry, in the port or with one thread.
EntriesOnce ==
    /\ \A j, k \in 1..Len(port) : port[j].op = port[k].op => j = k
    /\ \A t, u \in Pumps \cup Ops : \A j \in 1..Len(todo[t]), k \in 1..Len(todo[u]) :
          todo[t][j].op = todo[u][k].op => t = u /\ j = k
    /\ \A j \in 1..Len(port), t \in Pumps \cup Ops : \A k \in 1..Len(todo[t]) :
          port[j].op # todo[t][k].op

\* start(), the kernel, its entry and its receiver have an operation one after the
\* other; its stop callback lives from start() to the signal.
OneHolder ==
    \A o \in Ops :
        /\ started[o] # "yes" => irp[o] = "none"
        /\ started[o] # "yes" \/ irp[o] = "pending" => signals[o] = <<>> /\ ~OnItsWay(o)
        /\ OnItsWay(o) => signals[o] = <<>>
        /\ signals[o] # <<>> => Len(signals[o]) = 1
        /\ started[o] = "no" \/ signals[o] # <<>> => callback[o] = "none"

OperationInv == TypeOK /\ EntriesOnce /\ OneHolder /\ NoFalseSuccess

HandlesTypeOK ==
    /\ handles \subseteq Handles
    /\ socket \in [Sockets -> Handles \cup {INVALID_SOCKET}]
    /\ uses \in [Ops -> Handles \cup {INVALID_SOCKET}]
    /\ client \in [Ops -> Handles \cup {INVALID_SOCKET}]
    /\ makes \in 0..MaxMakes

\* Operation_Accept makes its client's socket in start().
ClientAfterStart == \A o \in Ops : started[o] = "no" => client[o] = INVALID_SOCKET

SocketInv == OperationInv /\ HandlesTypeOK /\ ClientAfterStart /\ HandlesOwned
=============================================================================

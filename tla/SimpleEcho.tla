----------------------------- MODULE SimpleEcho ------------------------------
(***************************************************************************)
(* unifex_TCP_simple_echo: a client that writes data and reads it back,    *)
(* and a server that reads it all and writes it back: two sequences under  *)
(* when_all, on one thread.  Their transfers are those of StreamTransfer,  *)
(* joined by the two streams of a connection and by the stop source of     *)
(* when_all, which stops one side when the other fails.                    *)
(***************************************************************************)
EXTENDS StreamTransfer

CONSTANTS
    ClientWrite, ServerRead, ServerWrite, ClientRead,
    Window      \* bytes that a stream holds between its two ends

ASSUME EchoAssumption ==
    /\ Transfers = {ClientWrite, ServerRead, ServerWrite, ClientRead}
    /\ Cardinality(Transfers) = 4
    /\ Window \in Nat \ {0}

VARIABLES
    link,       \* what became of the client's connect
    stop,       \* the stop source of when_all is stop_requested()
    cancels     \* transfers for whose pending call CancelIoEx was called

echoVars == <<vars, link, stop, cancels>>

Client == <<ClientWrite, ClientRead>>
Server == <<ServerRead, ServerWrite>>
Streams == {<<ClientWrite, ServerRead>>, <<ServerWrite, ClientRead>>}

\* to_write is in pieces, the other three are one buffer of the same size.
EchoInit ==
    /\ Init
    /\ reads = {ServerRead, ClientRead}
    /\ LET size == Len(AllBytes(buffers[ClientWrite])) IN
       \A t \in Transfers :
          /\ totalSize[t] = size
          /\ t # ClientWrite => buffers[t] = Layout(<<size>>)
    /\ link = "none"
    /\ stop = FALSE
    /\ cancels = {}

----------------------------------------------------------------------------
(* What joins the transfers *)

\* The first transfer of a side has succeeded, the second is not started yet.
Due(t) ==
    \E side \in {Client, Server} :
        t = side[2] /\ at[t] = "repeat" /\ at[side[1]] = "value"

\* A call that ends with a stop requested is done, whatever it moved, and no
\* other call is (try_finalize).
StopMeansDone ==
    \A t \in Transfers :
        at[t] \in {"some", "pending"} /\ at'[t] \notin {"some", "pending"}
            => (at'[t] = "done" <=> stop)

Pending(t) == at[t] = "pending" /\ ~\E k \in 1..Len(port) : port[k].transfer = t

Fails == \E t \in Transfers : at[t] # "error" /\ at'[t] = "error"

\* When one side fails, when_all requests a stop.  The pending call of the other
\* is cancelled; there may be none.
WhenAll ==
    /\ stop' = (stop \/ Fails)
    /\ cancels' = cancels \cup {t \in Transfers : Fails /\ Pending(t)}

\* A stream gives out what was put into it, and holds Window bytes.
InStreams ==
    \A s \in Streams :
        /\ Len(moved'[s[2]]) <= Len(moved[s[1]])
        /\ Len(moved'[s[1]]) <= Len(moved[s[2]]) + Window

Composed == StopMeansDone /\ WhenAll /\ InStreams

----------------------------------------------------------------------------
(* Steps *)

\* connect and accept succeed, in any order, and the first transfer of their
\* side starts.  An accept is not stoppable.
Connected(t) ==
    /\ t \in {ClientWrite, ServerRead}
    /\ link # "refused"
    /\ t = ClientWrite => ~stop
    /\ StartTransfer(t)
    /\ link' = "up"
    /\ Composed

\* The client's connect fails, or is stopped.
ConnectFails ==
    /\ running = Null
    /\ at[ClientWrite] = "repeat"
    /\ ~\E t \in Transfers : Due(t)
    /\ stop \/ link = "none"
    /\ link' = IF link = "none" THEN "refused" ELSE link
    /\ at' = [at EXCEPT ![ClientWrite] = IF stop THEN "done" ELSE "error"]
    /\ UNCHANGED <<reads, dataVars, calls, running, port, failures, moved, waited>>
    /\ Composed

\* One transfer of a side is over and the next one starts in its place.
Continue(t) == Due(t) /\ StartTransfer(t) /\ Composed /\ UNCHANGED link

\* The thread, in a transfer or in IOCP_sync_wait
Thread ==
    /\ (\E t \in Transfers : Run(t)) \/ (Handle /\ ~\E t \in Transfers : Due(t))
    /\ Composed
    /\ UNCHANGED link

KernelEnds(t) == IoFinishes(t) /\ Composed /\ UNCHANGED link
KernelFails(t) == IoFails(t) /\ Composed /\ UNCHANGED link

\* The end of the server's sequence, by an error, destroys its socket.
ServerGone == \E t \in {ServerRead, ServerWrite} : at[t] \in {"error", "done"}

\* Bug: the stop token is not passed on to the calls.
Broken_NoToken(t) ==
    /\ Pending(t)
    /\ t \in {ClientWrite, ClientRead} /\ ServerGone
    /\ Queue(t, 0)
    /\ UNCHANGED <<reads, dataVars, calls, at, running, failures, moved, link, stop, cancels>>

\* CancelIoEx, or the loss of the peer, ends a pending call with 0 bytes.
Broken(t) ==
    /\ Pending(t)
    /\ t \in cancels \/ (t \in {ClientWrite, ClientRead} /\ ServerGone)
    /\ Queue(t, 0)
    /\ UNCHANGED <<reads, dataVars, calls, at, running, failures, moved, link, stop, cancels>>

Progress ==
    \/ \E t \in Transfers : Connected(t) \/ Continue(t) \/ KernelEnds(t) \/ Broken(t)
    \/ ConnectFails
    \/ Thread

EchoNext == Progress \/ \E t \in Transfers : KernelFails(t)

\* The thread runs, connects end, streams deliver, cancellations take effect, until
\* nothing is left to do: every step uses up a part of a finite program, so that
\* no fairness between them is needed.
EchoSpec == EchoInit /\ [][EchoNext]_echoVars /\ WF_echoVars(Progress)

----------------------------------------------------------------------------
(* Properties *)

Over(side) == Ended(side[2]) \/ at[side[1]] \in {"error", "done"}

\* when_all has asked for a stop that the server never hears of: it is in
\* async_accept, which has no stop callback, or its stop callback ran before the
\* read or write was issued.
Unheard ==
    /\ stop
    /\ \/ at[ServerRead] = "repeat" /\ running # ServerRead
       \/ \E t \in {ServerRead, ServerWrite} : Pending(t) /\ t \notin cancels

\* The program ends, also after a failure, or a stop of the server is lost: the
\* client's socket stays open, and the server waits for it.
Settled == Over(Client) /\ (Over(Server) \/ Unheard)
EchoEnds == []<>Settled
=============================================================================

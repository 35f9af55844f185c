-------------------------- MODULE MCStreamTransfer --------------------------
(***************************************************************************)
(* Small instances: echoes, and two transfers whose peers are not modelled *)
(* and may do anything at any time.                                        *)
(***************************************************************************)
EXTENDS SimpleEcho

VARIABLE echo   \* which of the two it is

mcVars == <<echoVars, echo>>

\* One buffer, and several, one of them empty; <<3>> is the echo of these.
MCShapes == {<<1>>, <<3>>, <<0, 1, 2>>}

Free == {ClientWrite, ServerRead}

MCInit ==
    \/ echo = TRUE /\ EchoInit
    \/ /\ echo = FALSE
       /\ Init
       /\ reads \subseteq Free
       /\ buffers[ClientWrite] = Layout(<<0, 1, 2>>)
       /\ buffers[ServerRead] # Layout(<<3>>)
       /\ \A t \in Transfers \ Free : buffers[t] = Layout(<<1>>) /\ totalSize[t] = 1
       /\ link = "none" /\ stop = FALSE /\ cancels = {}

FreeProgress ==
    /\ Handle \/ \E t \in Free : Run(t) \/ IoFinishes(t)
    /\ UNCHANGED <<link, stop, cancels>>

FreeNext ==
    \/ FreeProgress
    \/ (\E t \in Free : StartTransfer(t) \/ IoFails(t)) /\ UNCHANGED <<link, stop, cancels>>

MCNext == ((echo /\ EchoNext) \/ (~echo /\ FreeNext)) /\ UNCHANGED echo

MCSpec ==
    /\ MCInit
    /\ [][MCNext]_mcVars
    /\ WF_mcVars(((echo /\ Progress) \/ (~echo /\ FreeProgress)) /\ UNCHANGED echo)

\* TransferEnds and EchoEnds, each for its instances.
MCTransferEnds == []<>(~echo => \A t \in Free : Idle(t) \/ Ended(t))
MCEchoEnds == []<>(echo => Settled)
=============================================================================

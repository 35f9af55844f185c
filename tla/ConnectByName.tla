--------------------------- MODULE ConnectByName ---------------------------
(***************************************************************************)
(* async_resolve, and then async_connect to the endpoints it has found, as *)
(* unifex_TCP_connect does: Operation_Resolve and Operation_RangeConnect   *)
(* together, and the list of endpoints that GetAddrInfoExW allocates,      *)
(* which goes from the one to the other as an EndpointsList_IPv4.  Only    *)
(* the lookup can be stopped (stop_with wraps async_resolve alone).        *)
(***************************************************************************)
EXTENDS ResolveOperation, RangeConnect

CONSTANT MaxEndpoints   \* endpoints in the list

ASSUME ConnectAssumption == MaxEndpoints \in Nat \ {0}

VARIABLE frees      \* history: calls of FreeAddrInfoExW

allVars == <<vars, rangeVars, frees>>

ConnectInit ==
    /\ Init
    /\ RangeInit
    /\ frees = 0

\* Bug: the move constructor of EndpointsList_IPv4 leaves the list in both.
LookedUp_Copied ==
    /\ OnAddrInfoFinish
    /\ IF Outcome = "value"
       THEN \E n \in 1..MaxEndpoints : RangeStart(n) /\ frees' = frees + 1
       ELSE UNCHANGED <<rangeVars, frees>>

\* The signal of the lookup.  A value is moved into the sender, and from there
\* into the operation, of async_connect, which is started at once.
LookedUp ==
    /\ OnAddrInfoFinish
    /\ IF Outcome = "value"
       THEN \E n \in 1..MaxEndpoints : RangeStart(n)
       ELSE UNCHANGED rangeVars
    /\ UNCHANGED frees

\* The other steps of the lookup
Lookup ==
    /\ Start \/ QueryEnds \/ OnComplete \/ RequestStop \/ TryStop \/ Cancel \/ Fetch
    /\ UNCHANGED <<rangeVars, frees>>

\* Its signal destroys the operation, and with it the list.
Connect ==
    /\ RangeNext
    /\ frees' = IF outcome' # outcome THEN frees + 1 ELSE frees
    /\ UNCHANGED vars

ConnectNext == LookedUp \/ Lookup \/ Connect

ConnectSpec == ConnectInit /\ [][ConnectNext]_allVars

ConnectFairSpec == ConnectSpec /\ Fairness /\ RangeFairness

----------------------------------------------------------------------------
(* Properties *)

\* The lookup, the connects, and the list.
ConnectTypeOK == TypeOK /\ RangeTypeOK /\ frees \in Nat

Listed == query \in {"ended", "done"} /\ ~error

\* The list of a successful query is freed once, and not while the attempts go
\* through it.  It stays allocated if the lookup is stopped too late for its
\* query, or if the worker cannot post the entry: on_addrinfo_finish reads
\* _results for a value only.
ListFreed ==
    /\ frees <= 1
    /\ frees = 1 => Listed /\ op = "none" /\ outcome # None
    /\ Listed /\ signals # <<>> /\ op = "none" =>
          frees = 1 \/ signals = <<"done">> \/ postFailed

\* A stop does not reach the attempts, but they end by themselves, one after
\* another: whoever has the endpoints gets a signal.
ConnectsOrFails == (signals = <<"value">>) ~> (outcome # None)

\* The connects begin with the value of the lookup, whose query has a list, and
\* the list goes when they end.
ListFollowsConnects ==
    /\ signals = <<"value">> => Listed /\ count > 0 /\ (op = "none" <=> outcome # None)
    /\ signals # <<"value">> => op = "none" /\ outcome = None /\ results = <<>>
    /\ signals = <<"error">> => error \/ postFailed
    /\ frees = IF outcome = None THEN 0 ELSE 1
    /\ op # "none" => current \in 1..count

ConnectInv ==
    LookupInv /\ RangeTypeOK /\ NoStaleEntry /\ FirstThatConnects /\ ListFollowsConnects
=============================================================================

------------------------------- MODULE Locks -------------------------------
(***************************************************************************)
(* The handlers of the daemon running at the same time: MAX_BLOCKING_-     *)
(* REQUESTS slots, each taken by one handler until it returns, and the     *)
(* thread of the tokio runtime, which also serves the websocket upgrade.   *)
(* A handler locks, releases and waits for the relay as its path in module *)
(* Handlers says; a mutex has one owner; the relay client gives up after   *)
(* its request timeout, so a Relay step always ends.                       *)
(***************************************************************************)
EXTENDS Handlers

CONSTANTS
    Slots,      \* the permits of blocking_slots
    Loop,       \* the thread of the runtime
    Nobody,     \* owner of a free mutex
    Paths,      \* the paths of the handlers in this instance
    MaxUpgrades \* bound: websocket upgrades in a behaviour

ASSUME LocksAssumption ==
    /\ Loop \notin Slots /\ Nobody \notin Slots \cup {Loop}
    /\ Paths \subseteq Seq(Step)
    /\ MaxUpgrades \in Nat

Workers == Slots \cup {Loop}

VARIABLES
    path,       \* per worker: the path of its handler, <<>> when idle
    pc,         \* per worker: the next step of the path
    owner,      \* per mutex: the worker whose guard is live
    upgrades    \* websocket upgrades begun

locksVars == <<path, pc, owner, upgrades>>

LocksTypeOK ==
    /\ path \in [Workers -> Seq(Step)]
    /\ pc \in [Workers -> Nat \ {0}]
    /\ owner \in [Mutexes -> Workers \cup {Nobody}]
    /\ upgrades \in 0..MaxUpgrades

LocksInit ==
    /\ path = [w \in Workers |-> <<>>]
    /\ pc = [w \in Workers |-> 1]
    /\ owner = [m \in Mutexes |-> Nobody]
    /\ upgrades = 0

Busy(w) == path[w] # <<>>

AtStep(w, s) == pc[w] \in 1..Len(path[w]) /\ path[w][pc[w]] = s

Advance(w) == pc' = [pc EXCEPT ![w] = pc[w] + 1] /\ UNCHANGED path

Return(w) ==
    /\ path' = [path EXCEPT ![w] = <<>>]
    /\ pc' = [pc EXCEPT ![w] = 1]

\* A request gets a free slot or is answered daemon_busy; the tick waits for
\* one.
Begin(w, p) ==
    /\ ~Busy(w)
    /\ path' = [path EXCEPT ![w] = p]
    /\ UNCHANGED <<pc, owner>>

\* The thread of the runtime takes a websocket upgrade.
Upgrade ==
    /\ upgrades < MaxUpgrades /\ upgrades' = upgrades + 1
    /\ \E p \in WebsocketPaths : Begin(Loop, p)

Lock(w, m) ==
    /\ AtStep(w, m) /\ owner[m] = Nobody
    /\ owner' = [owner EXCEPT ![m] = w]
    /\ Advance(w)

\* The guards of the section are dropped; the handler goes on or returns.
Unlock(w) ==
    /\ AtStep(w, Release)
    /\ owner' = [m \in Mutexes |-> IF owner[m] = w THEN Nobody ELSE owner[m]]
    /\ Advance(w) \/ Return(w)

\* Slip: the relay client has no timeout.
RelayMayHang(w) == AtStep(w, Relay) /\ UNCHANGED <<path, pc, owner>>

\* The relay answers, or the client's timeout passes.
RelayEnds(w) == AtStep(w, Relay) /\ Advance(w) /\ UNCHANGED owner

End(w) == Busy(w) /\ pc[w] > Len(path[w]) /\ Return(w) /\ UNCHANGED owner

Work(w) ==
    /\ (\E m \in Mutexes : Lock(w, m)) \/ Unlock(w) \/ RelayEnds(w) \/ End(w)
    /\ UNCHANGED upgrades

LocksNext ==
    \/ \E w \in Slots, p \in Paths : Begin(w, p) /\ UNCHANGED upgrades
    \/ Upgrade
    \/ \E w \in Workers : Work(w)

LocksSpec == LocksInit /\ [][LocksNext]_locksVars

\* Threads that are not blocked run on.
Fairness == \A w \in Workers : WF_locksVars(Work(w))

FairSpec == LocksSpec /\ Fairness

-----------------------------------------------------------------------------
\* Properties

Waits(w, m) == AtStep(w, m) /\ owner[m] # Nobody

\* No handlers wait for each other in a circle.
NoCircularWait ==
    \A S \in (SUBSET Workers) \ {{}} :
        \E w \in S : \A m \in Mutexes : Waits(w, m) => owner[m] \notin S

\* The request loop is never frozen for good: whenever every slot is taken,
\* one becomes free again.
BusyEnds == (\A w \in Slots : Busy(w)) ~> (\E w \in Slots : ~Busy(w))

\* "a slow or unavailable relay must not freeze the browser bridge's request
\* loop" (http_server.rs:2648): the thread of the runtime waits for a mutex
\* whose owner is waiting for the relay only during a device change.
OnlyDeviceChangeFreezesLoop ==
    \A m \in Mutexes, w \in Slots :
        Waits(Loop, m) /\ owner[m] = w /\ AtStep(w, Relay)
            => path[w] \in DeviceChangePaths
=============================================================================

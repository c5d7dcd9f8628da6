--------------------------- MODULE ConnectionLane ---------------------------
(***************************************************************************)
(* The daemon's connection lane (apps/daemon/src/connect.rs): session       *)
(* threads calling connect, disconnect and drain, one pump thread for each  *)
(* connection, and engine connections that may die at any moment.           *)
(*                                                                         *)
(* Every hold of the lane mutex or of a slot mutex is one action; so is     *)
(* each publish and each blocking call (disconnect_and_wait, join) made     *)
(* between holds. What a pump publishes, and when the bounded queue drops   *)
(* it, is the subject of EventPump; here a pump may dequeue any state.      *)
(***************************************************************************)
EXTENDS Naturals, VpnState

CONSTANTS
    Callers,     \* threads that call the lane (IPC sessions, shutdown paths)
    Uids,        \* authenticated peer UIDs
    MaxConns     \* bound: connections the engine ever starts

ASSUME LaneAssumption == MaxConns \in Nat /\ 0 \notin Uids

Conns == 1..MaxConns

\* No connection, no owner (Option::None).
None == 0

VARIABLES
    active,             \* LaneState::active: the connection installed, or None
    owner,              \* LaneState::owner
    reconnecting,       \* LaneState::reconnecting
    disconnecting,      \* LaneState::disconnecting
    drain_in_progress,  \* LaneState::drain_in_progress
    draining,           \* ConnectionLane::draining
    dropped,            \* the lane itself has been dropped
    core,               \* the state the core machine publishes
    started,            \* connections the engine has started
    engine,             \* per connection: "none", "live" or "stopped"
    slot,               \* per connection: its slot still holds the handle
    pump,               \* per connection: where its pump thread is
    event,              \* per connection: the state its pump has dequeued
    pc,                 \* per caller: where it is
    op,                 \* per caller: the call it is in
    uid,                \* per caller: the peer the call is for
    job,                \* per caller: the connection it took, or started
    retired             \* per caller: it got the handle out of the slot

lane == <<active, owner, reconnecting, disconnecting, drain_in_progress>>
conns == <<started, engine, slot>>
pumps == <<pump, event>>
callers == <<pc, op, uid, job, retired>>

vars == <<lane, draining, dropped, core, conns, pumps, callers>>

Init ==
    /\ active = None /\ owner = None
    /\ reconnecting = FALSE /\ disconnecting = FALSE
    /\ drain_in_progress = FALSE /\ draining = FALSE /\ dropped = FALSE
    /\ core = "Disconnected"
    /\ started = 0
    /\ engine = [k \in Conns |-> "none"]
    /\ slot = [k \in Conns |-> FALSE]
    /\ pump = [k \in Conns |-> "none"]
    /\ event = [k \in Conns |-> "Disconnected"]
    /\ pc = [t \in Callers |-> "idle"]
    /\ op = [t \in Callers |-> "none"]
    /\ uid = [t \in Callers |-> None]
    /\ job = [t \in Callers |-> None]
    /\ retired = [t \in Callers |-> FALSE]

At(t, label) == pc[t] = label
Goto(t, label) == pc' = [pc EXCEPT ![t] = label]

\* A call returns: the caller's locals go out of scope.
Return(t, label) ==
    /\ Goto(t, label)
    /\ op' = [op EXCEPT ![t] = "none"]
    /\ uid' = [uid EXCEPT ![t] = None]
    /\ job' = [job EXCEPT ![t] = None]
    /\ retired' = [retired EXCEPT ![t] = FALSE]

\* A call is admitted with the connection it took out of the lane.
Enter(t, call, u, taken, label) ==
    /\ Goto(t, label)
    /\ op' = [op EXCEPT ![t] = call]
    /\ uid' = [uid EXCEPT ![t] = u]
    /\ job' = [job EXCEPT ![t] = taken]
    /\ UNCHANGED retired

\* One connection, one owner.
gate_owner(u) == owner \in {None, u}

-----------------------------------------------------------------------------
\* connect refuses while draining or inside another call's window.
connect_refusal_IgnoresDisconnect == draining \/ reconnecting

connect_refusal == draining \/ reconnecting \/ disconnecting

\* connect's first hold of the lane: arm the window, take the old session,
\* clear the owner. (A refused call changes nothing.)
Connect(t, u) ==
    /\ ~dropped /\ At(t, "idle")
    /\ gate_owner(u) /\ ~connect_refusal
    /\ reconnecting' = TRUE
    /\ active' = None /\ owner' = None
    /\ Enter(t, "connect", u, active,
             IF active = None THEN "recheck" ELSE "retire")
    /\ UNCHANGED <<disconnecting, drain_in_progress, draining, dropped, core,
                   conns, pumps>>

\* Which window refuses a disconnect before its owner gate.
disconnect_refusal == draining \/ reconnecting \/ disconnecting

\* disconnect's first hold. An empty lane is an idempotent success and arms
\* no window.
Disconnect(t, u) ==
    /\ ~dropped /\ At(t, "idle")
    /\ ~disconnect_refusal /\ gate_owner(u)
    /\ disconnecting' = (disconnecting \/ active # None)
    /\ active' = None /\ owner' = None
    /\ Enter(t, "disconnect", u, active,
             IF active = None THEN "ok" ELSE "retire")
    /\ UNCHANGED <<reconnecting, drain_in_progress, draining, dropped, core,
                   conns, pumps>>

\* drain arms the terminal flag before it touches the lane.
Drain(t) ==
    /\ ~dropped /\ At(t, "idle")
    /\ draining' = TRUE
    /\ Enter(t, "drain", None, None, "drain")
    /\ UNCHANGED <<lane, dropped, core, conns, pumps>>

drain_waits_IgnoresReconnect == drain_in_progress \/ disconnecting

\* A user window or another drain's teardown holds drain's loop.
drain_waits == drain_in_progress \/ reconnecting \/ disconnecting

\* The pass of drain's loop that finds no window: check and take in one hold.
DrainTakes(t) ==
    /\ At(t, "drain") /\ ~drain_waits
    /\ drain_in_progress' = (active # None)
    /\ active' = None /\ owner' = None
    /\ job' = [job EXCEPT ![t] = active]
    /\ Goto(t, IF active = None THEN "drained" ELSE "retire")
    /\ UNCHANGED <<reconnecting, disconnecting, draining, dropped, core, conns,
                   pumps, op, uid, retired>>

-----------------------------------------------------------------------------
\* The teardown the three calls share. Empty the slot first ...
Retire(t) ==
    /\ At(t, "retire")
    /\ retired' = [retired EXCEPT ![t] = slot[job[t]]]
    /\ slot' = [slot EXCEPT ![job[t]] = FALSE]
    /\ Goto(t, IF op[t] = "drain" THEN "stop" ELSE "transition")
    /\ UNCHANGED <<lane, draining, dropped, core, started, engine, pumps, op,
                   uid, job>>

\* ... publish the transition (connect and disconnect only) ...
PublishTransition(t) ==
    /\ At(t, "transition")
    /\ core' = "Disconnecting"
    /\ Goto(t, "stop")
    /\ UNCHANGED <<lane, draining, dropped, conns, pumps, op, uid, job, retired>>

\* ... disconnect_and_wait, if the slot still held the handle ...
StopEngine(t) ==
    /\ At(t, "stop")
    /\ engine' = [engine EXCEPT ![job[t]] = IF retired[t] THEN "stopped" ELSE @]
    /\ Goto(t, "join")
    /\ UNCHANGED <<lane, draining, dropped, core, started, slot, pumps, op, uid,
                   job, retired>>

\* ... and join the pump, holding no lock.
JoinPump(t) ==
    /\ At(t, "join")
    /\ pump[job[t]] = "exited"
    /\ Goto(t, CASE op[t] = "connect"    -> "recheck"
                 [] op[t] = "disconnect" -> "terminal"
                 [] op[t] = "drain"      -> "release")
    /\ UNCHANGED <<lane, draining, dropped, core, conns, pumps, op, uid, job,
                   retired>>

\* disconnect publishes the terminal state after the join.
PublishTerminal(t) ==
    /\ At(t, "terminal")
    /\ core' = "Disconnected"
    /\ Goto(t, "clear")
    /\ UNCHANGED <<lane, draining, dropped, conns, pumps, op, uid, job, retired>>

\* disconnect closes the window it armed.
ClearWindow(t) ==
    /\ At(t, "clear")
    /\ disconnecting' = FALSE
    /\ Goto(t, "ok")
    /\ UNCHANGED <<active, owner, reconnecting, drain_in_progress, draining,
                   dropped, core, conns, pumps, op, uid, job, retired>>

\* disconnect returns Ok.
DisconnectReturns(t) ==
    /\ At(t, "ok")
    /\ Return(t, "idle")
    /\ UNCHANGED <<lane, draining, dropped, core, conns, pumps>>

\* drain releases the later drains; the drained caller is done.
DrainReleases(t) ==
    /\ At(t, "release")
    /\ drain_in_progress' = FALSE
    /\ Goto(t, "drained")
    /\ UNCHANGED <<active, owner, reconnecting, disconnecting, draining,
                   dropped, core, conns, pumps, op, uid, job, retired>>

-----------------------------------------------------------------------------
\* connect's second hold finds the daemon draining: close the window, refuse.
RecheckRefuses_KeepsWindow(t) ==
    /\ At(t, "recheck") /\ draining
    /\ Return(t, "idle")
    /\ UNCHANGED <<lane, draining, dropped, core, conns, pumps>>

RecheckRefuses(t) ==
    /\ At(t, "recheck") /\ draining
    /\ reconnecting' = FALSE
    /\ Return(t, "idle")
    /\ UNCHANGED <<active, owner, disconnecting, drain_in_progress, draining,
                   dropped, core, conns, pumps>>

\* It does not: go on to the engine with the window still armed.
RecheckPasses(t) ==
    /\ At(t, "recheck") /\ ~draining
    /\ owner' = None
    /\ Goto(t, "setup")
    /\ UNCHANGED <<active, reconnecting, disconnecting, drain_in_progress,
                   draining, dropped, core, conns, pumps, op, uid, job, retired>>

\* engine.connect starts a tunnel ...
EngineConnects(t) ==
    /\ At(t, "setup") /\ started < MaxConns
    /\ started' = started + 1
    /\ engine' = [engine EXCEPT ![started + 1] = "live"]
    /\ job' = [job EXCEPT ![t] = started + 1]
    /\ Goto(t, "install")
    /\ UNCHANGED <<lane, draining, dropped, core, slot, pumps, op, uid, retired>>

\* What the core shows once engine.connect has failed.
state_after_failure == "Disconnected"

\* ... or fails: the terminal state is published before the window closes.
EngineRefuses(t) ==
    /\ At(t, "setup")
    /\ core' = state_after_failure
    /\ Goto(t, "failed")
    /\ UNCHANGED <<lane, draining, dropped, conns, pumps, op, uid, job, retired>>

ConnectFails(t) ==
    /\ At(t, "failed")
    /\ reconnecting' = FALSE
    /\ Return(t, "idle")
    /\ UNCHANGED <<active, owner, disconnecting, drain_in_progress, draining,
                   dropped, core, conns, pumps>>

\* The last hold: slot, pump, active entry, owner and the window together.
Install(t) ==
    /\ At(t, "install")
    /\ slot' = [slot EXCEPT ![job[t]] = TRUE]
    /\ pump' = [pump EXCEPT ![job[t]] = "loop"]
    /\ active' = job[t] /\ owner' = uid[t]
    /\ reconnecting' = FALSE
    /\ Return(t, "idle")
    /\ UNCHANGED <<disconnecting, drain_in_progress, draining, dropped, core,
                   started, engine, event>>

-----------------------------------------------------------------------------
PumpGoto(k, label) == pump' = [pump EXCEPT ![k] = label]

\* The engine's thread exits by itself and its event channel closes.
EngineDies(k) ==
    /\ engine[k] = "live"
    /\ engine' = [engine EXCEPT ![k] = "stopped"]
    /\ UNCHANGED <<lane, draining, dropped, core, started, slot, pumps, callers>>

\* A teardown took the connection: exit and publish nothing.
PumpExits(k) ==
    /\ pump[k] = "loop" /\ ~slot[k]
    /\ PumpGoto(k, "exited")
    /\ UNCHANGED <<lane, draining, dropped, core, conns, event, callers>>

\* A state is dequeued under the slot guard, which is then let go.
PumpDequeues(k) ==
    /\ pump[k] = "loop" /\ slot[k] /\ engine[k] = "live"
    /\ \E s \in EngineConnectionStates : event' = [event EXCEPT ![k] = s]
    /\ PumpGoto(k, "publish")
    /\ UNCHANGED <<lane, draining, dropped, core, conns, callers>>

\* The dequeued state reaches the core unless the slot has been retired
\* since; check and publish are one hold of the slot guard.
published(k) == IF slot[k] THEN map_vpn_state(event[k]) ELSE core

PumpPublishes(k) ==
    /\ pump[k] = "publish"
    /\ core' = published(k)
    /\ event' = [event EXCEPT ![k] = "Disconnected"]
    /\ PumpGoto(k, "loop")
    /\ UNCHANGED <<lane, draining, dropped, conns, callers>>

\* A certificate-fatal (delivered or retained), or the closed channel.
PumpSeesEnd(k) ==
    /\ pump[k] = "loop" /\ slot[k]
    /\ PumpGoto(k, "claim")
    /\ UNCHANGED <<lane, draining, dropped, core, conns, event, callers>>

\* Claim or yield: only the pump that takes the handle cleans up.
PumpClaims(k) ==
    /\ pump[k] = "claim"
    /\ PumpGoto(k, IF slot[k] THEN "closing" ELSE "exited")
    /\ slot' = [slot EXCEPT ![k] = FALSE]
    /\ UNCHANGED <<lane, draining, dropped, core, started, engine, event, callers>>

PumpStops(k) ==
    /\ pump[k] = "closing"
    /\ engine' = [engine EXCEPT ![k] = "stopped"]
    /\ PumpGoto(k, "terminal")
    /\ UNCHANGED <<lane, draining, dropped, core, started, slot, event, callers>>

PumpTerminal(k) ==
    /\ pump[k] = "terminal"
    /\ core' = "Disconnected"
    /\ PumpGoto(k, "retire")
    /\ UNCHANGED <<lane, draining, dropped, conns, event, callers>>

\* retire_lane: clear the lane entry if it is still this pump's.
retire_lane(k) ==
    /\ active' = IF active = k THEN None ELSE active
    /\ owner' = IF active = k THEN None ELSE owner

PumpRetires(k) ==
    /\ pump[k] = "retire"
    /\ retire_lane(k)
    /\ PumpGoto(k, "exited")
    /\ UNCHANGED <<reconnecting, disconnecting, drain_in_progress, draining,
                   dropped, core, conns, event, callers>>

\* The lane is dropped without a drain: nobody is in a call, and what is left
\* of an installed connection is the slot its pump shares.
DropLane ==
    /\ ~dropped
    /\ \A t \in Callers : pc[t] \in {"idle", "drained"}
    /\ dropped' = TRUE
    /\ active' = None /\ owner' = None
    /\ UNCHANGED <<reconnecting, disconnecting, drain_in_progress, draining,
                   core, conns, pumps, callers>>

\* The quiet cadence finds that the lane is gone: take the handle, close it.
PumpFindsLaneDropped(k) ==
    /\ pump[k] = "loop" /\ slot[k] /\ dropped
    /\ slot' = [slot EXCEPT ![k] = FALSE]
    /\ engine' = [engine EXCEPT ![k] = "stopped"]
    /\ PumpGoto(k, "exited")
    /\ UNCHANGED <<lane, draining, dropped, core, started, event, callers>>

-----------------------------------------------------------------------------
CallStep(t) ==
    \/ DrainTakes(t)
    \/ Retire(t) \/ PublishTransition(t) \/ StopEngine(t) \/ JoinPump(t)
    \/ PublishTerminal(t) \/ ClearWindow(t) \/ DisconnectReturns(t)
    \/ DrainReleases(t)
    \/ RecheckRefuses(t) \/ RecheckPasses(t)
    \/ EngineConnects(t) \/ EngineRefuses(t) \/ ConnectFails(t) \/ Install(t)

PumpEnds(k) ==
    \/ PumpPublishes(k) \/ PumpExits(k) \/ PumpClaims(k) \/ PumpStops(k)
    \/ PumpTerminal(k) \/ PumpRetires(k)

\* The pump is at its receive and something waits for it there.
PumpNotices(k) ==
    \/ engine[k] = "stopped" /\ PumpSeesEnd(k)
    \/ PumpFindsLaneDropped(k)

Next ==
    \/ \E t \in Callers :
          \/ \E u \in Uids : Connect(t, u) \/ Disconnect(t, u)
          \/ Drain(t)
          \/ CallStep(t)
    \/ \E k \in Conns :
          \/ EngineDies(k) \/ PumpDequeues(k) \/ PumpSeesEnd(k)
          \/ PumpEnds(k) \/ PumpFindsLaneDropped(k)
    \/ DropLane

Spec == Init /\ [][Next]_vars

\* Threads are scheduled and disconnect_and_wait returns. A pump that keeps
\* dequeuing still comes back to its receive infinitely often, hence SF.
Fairness ==
    /\ \A t \in Callers : WF_vars(CallStep(t))
    /\ \A k \in Conns : WF_vars(PumpEnds(k)) /\ SF_vars(PumpNotices(k))

FairSpec == Spec /\ Fairness

-----------------------------------------------------------------------------
\* Every variable has the shape the code's types give it.
TypeOK ==
    /\ active \in Conns \cup {None} /\ owner \in Uids \cup {None}
    /\ reconnecting \in BOOLEAN /\ disconnecting \in BOOLEAN
    /\ drain_in_progress \in BOOLEAN /\ draining \in BOOLEAN
    /\ dropped \in BOOLEAN
    /\ core \in VpnStates
    /\ started \in 0..MaxConns
    /\ engine \in [Conns -> {"none", "live", "stopped"}]
    /\ slot \in [Conns -> BOOLEAN]
    /\ pump \in [Conns -> {"none", "loop", "publish", "claim", "closing",
                           "terminal", "retire", "exited"}]
    /\ event \in [Conns -> EngineConnectionStates]
    /\ pc \in [Callers -> {"idle", "recheck", "retire", "transition", "stop",
                           "join", "terminal", "clear", "ok", "setup",
                           "install", "failed", "drain", "release", "drained"}]
    /\ op \in [Callers -> {"none", "connect", "disconnect", "drain"}]
    /\ uid \in [Callers -> Uids \cup {None}]
    /\ job \in [Callers -> Conns \cup {None}]
    /\ retired \in [Callers -> BOOLEAN]

Down(k) == engine[k] # "live" /\ pump[k] \in {"none", "exited"}

\* FR-9/FR-28: at most one tunnel is up at any time. A reconnect, a
\* disconnect racing it, an engine death and a drain never overlap two.
OneTunnel ==
    \A j, k \in Conns : engine[j] = "live" /\ engine[k] = "live" => j = k

\* The owner slot is taken exactly while a connection is installed: a failed,
\* retired or torn-down connection leaves no phantom owner behind.
OwnerTracksLane == owner # None <=> active # None

\* Retire-first (rounds 33-35): once Disconnecting is published, no state the
\* old connection's pump had dequeued turns the core back to a live state;
\* only the replacement's own pump may.
DisconnectingNeverReverts ==
    core = "Disconnecting" /\ core' \in {"Connecting", "Connected"}
        => \E k \in Conns : slot[k] /\ pump[k] = "publish" /\ k = started

\* drain blocks for EVERY caller: once any of them has returned, no tunnel is
\* up and no pump runs.
DrainLeavesNothing ==
    (\E t \in Callers : pc[t] = "drained") => \A k \in Conns : Down(k)

\* connect.rs:437 "no event races the IPC socket's close": once any drain
\* caller has returned, nothing the lane does changes the published state.
NoEventAfterDrain ==
    (\E t \in Callers : pc[t] = "drained") => core' = core

\* A disconnect that reports success leaves no tunnel up, the idempotent one
\* on an empty lane included.
DisconnectOkMeansDown ==
    \A t \in Callers :
        pc[t] # "ok" /\ pc'[t] = "ok" => \A k \in Conns : engine'[k] # "live"

\* A teardown is final: a drain and a disconnect that have returned leave no
\* tunnel up, and nothing dequeued before them is published after them.
TeardownIsFinal ==
    [][/\ DrainLeavesNothing' /\ DisconnectOkMeansDown
       /\ NoEventAfterDrain /\ DisconnectingNeverReverts]_vars

\* An idle lane with no connection reads Disconnected, whichever of its
\* callers and pumps ended the last one (shutdown apart).
IdleLaneReadsDisconnected ==
    /\ ~draining /\ ~dropped /\ active = None
    /\ \A t \in Callers : pc[t] = "idle"
    => core = "Disconnected"

\* One tunnel, owned by whoever's connection is installed, and none is shown
\* when none is.
OneTunnelOneOwner ==
    TypeOK /\ OneTunnel /\ OwnerTracksLane /\ IdleLaneReadsDisconnected

\* No call waits for ever: not on a pump's join, not on another call's window.
CallsTerminate ==
    \A t \in Callers : pc[t] # "idle" ~> pc[t] \in {"idle", "drained"}

\* A tunnel that died by itself gives its owner slot back.
DeadTunnelReleasesOwner ==
    \A k \in Conns :
        active = k /\ engine[k] = "stopped" ~> active # k

\* A lane dropped without a drain leaks no tunnel (round 18 and round 21).
DroppedLaneClosesTunnel ==
    \A k \in Conns : dropped /\ engine[k] = "live" ~> engine[k] = "stopped"

\* The lane comes to rest: its calls return, a tunnel that died is retired
\* and one nobody holds is closed.
LaneSettles == CallsTerminate /\ DeadTunnelReleasesOwner /\ DroppedLaneClosesTunnel

=============================================================================

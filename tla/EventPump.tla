----------------------------- MODULE EventPump -----------------------------
(***************************************************************************)
(* One connection's event path: ProTUN's callback thread pushing into the   *)
(* bounded queue (crates/protocol/src/engine.rs), the pump thread that      *)
(* drains it into the core state machine (apps/daemon/src/connect.rs), and  *)
(* a teardown that retires the slot under the pump.                         *)
(*                                                                         *)
(* The engine's states are numbered in the order ProTUN reports them; an    *)
(* event carries its number. The callback thread never takes the slot       *)
(* mutex, so it may run between any two reads the pump makes under it.      *)
(***************************************************************************)
EXTENDS Naturals, Sequences, VpnState

CONSTANTS
    EngineStates,   \* EngineConnectionState's variants that occur
    Bound,          \* EVENT_CHANNEL_BOUND
    MaxStates,      \* bound: states ProTUN reports
    MaxStats        \* bound: statistics events ProTUN emits

ASSUME PumpAssumption ==
    /\ EngineStates \subseteq EngineConnectionStates
    /\ Bound \in Nat \ {0} /\ MaxStates \in Nat /\ MaxStats \in Nat

NoEvent == [kind |-> "none", n |-> 0]
State(i) == [kind |-> "state", n |-> i]
Stats == [kind |-> "stats", n |-> 0]
CertificateFatal == [kind |-> "fatal", n |-> 0]

VARIABLES
    states,     \* every state reported; the last one is `latest`
    stats,      \* statistics events emitted
    fatal,      \* history: the certificate refresh failed terminally
    callback,   \* where the callback thread is inside on_state_changed/on_event
    queue,      \* the bounded channel
    open,       \* the sending side still exists
    drops,      \* EventDrops::states
    critical,   \* RecoverySlots::critical holds the fatal
    slot,       \* the slot holds the connection
    core,       \* the state the core machine publishes
    pump,       \* where the pump is
    after,      \* where reconcile_drops returns to
    event,      \* the event being processed
    pending,    \* the disarm probe's catch
    last,       \* the last state the pump published ("none": nothing yet)
    watermark,  \* dropped_watermark
    backlog,    \* stale-backlog suppression is armed
    teardown,   \* how far a caller's teardown has come
    shown       \* history: the number of the state the pump last acted on

engine == <<states, stats, fatal, callback>>
channel == <<queue, open, drops, critical>>
locals == <<after, event, pending, last, watermark, backlog, shown>>

vars == <<engine, channel, slot, core, pump, locals, teardown>>

Init ==
    /\ states = <<>> /\ stats = 0 /\ fatal = FALSE /\ callback = "idle"
    /\ queue = <<>> /\ open = TRUE /\ drops = 0 /\ critical = FALSE
    /\ slot = TRUE /\ core = "Disconnected"
    /\ pump = "recv" /\ after = "recv"
    /\ event = NoEvent /\ pending = NoEvent
    /\ last = "none" /\ watermark = 0 /\ backlog = FALSE
    /\ teardown = "no" /\ shown = 0

\* try_send finds a free place.
has_room == Len(queue) < Bound

latest_state == map_vpn_state(states[Len(states)])

-----------------------------------------------------------------------------
\* on_state_changed stores the poll surface first ...
OnStateChanged ==
    /\ open /\ callback = "idle" /\ Len(states) < MaxStates
    /\ \E s \in EngineStates : states' = Append(states, s)
    /\ callback' = "stored"
    /\ UNCHANGED <<stats, fatal, channel, slot, core, pump, locals, teardown>>

\* ... then try_sends, never blocking ...
ForwardState ==
    /\ callback = "stored"
    /\ IF has_room
       THEN /\ queue' = Append(queue, State(Len(states)))
            /\ callback' = "idle"
       ELSE /\ callback' = "full"
            /\ UNCHANGED queue
    /\ UNCHANGED <<states, stats, fatal, open, drops, critical, slot, core,
                   pump, locals, teardown>>

\* ... and counts the drop once the queue has refused it.
note_state_drop_Uncounted == drops

note_state_drop == drops + 1

NoteStateDrop ==
    /\ callback = "full"
    /\ drops' = note_state_drop
    /\ callback' = "idle"
    /\ UNCHANGED <<states, stats, fatal, queue, open, critical, slot, core,
                   pump, locals, teardown>>

\* Statistics share the queue; a full queue drops them without a trace the
\* pump reads.
ForwardStats ==
    /\ open /\ callback = "idle" /\ stats < MaxStats
    /\ stats' = stats + 1
    /\ queue' = IF has_room THEN Append(queue, Stats) ELSE queue
    /\ UNCHANGED <<states, fatal, callback, open, drops, critical, slot, core,
                   pump, locals, teardown>>

\* The terminal control event: queued, or retained when the queue is full.
ForwardFatal ==
    /\ open /\ callback = "idle" /\ ~fatal
    /\ fatal' = TRUE
    /\ IF has_room
       THEN queue' = Append(queue, CertificateFatal) /\ UNCHANGED callback
       ELSE callback' = "fullFatal" /\ UNCHANGED queue
    /\ UNCHANGED <<states, stats, open, drops, critical, slot, core, pump,
                   locals, teardown>>

retained == TRUE

RetainFatal ==
    /\ callback = "fullFatal"
    /\ critical' = retained
    /\ callback' = "idle"
    /\ UNCHANGED <<states, stats, fatal, queue, open, drops, slot, core, pump,
                   locals, teardown>>

\* ProTUN's thread exits; the channel closes behind what is queued.
EngineExits ==
    /\ open /\ callback = "idle"
    /\ open' = FALSE
    /\ UNCHANGED <<engine, queue, drops, critical, slot, core, pump, locals,
                   teardown>>

-----------------------------------------------------------------------------
\* Enter reconcile_drops, to come back to `label`.
Reconcile(label) == pump' = "reconcile" /\ after' = label

\* The receive at the top of the loop, one hold of the slot guard.
Receive ==
    /\ pump = "recv"
    /\ \/ /\ pending # NoEvent
          /\ event' = pending /\ pending' = NoEvent
          /\ Reconcile("process")
          /\ UNCHANGED queue
       \/ /\ pending = NoEvent /\ slot /\ queue # <<>>
          /\ event' = Head(queue) /\ queue' = Tail(queue)
          /\ Reconcile("process")
          /\ UNCHANGED pending
    /\ UNCHANGED <<engine, open, drops, critical, slot, core, last, watermark,
                   backlog, shown, teardown>>

\* PUMP_POLL passes with nothing queued: the quiet path reconciles too.
QuietCadence ==
    /\ pump = "recv" /\ pending = NoEvent
    /\ slot /\ queue = <<>> /\ open
    /\ Reconcile("probe")
    /\ UNCHANGED <<engine, channel, slot, core, event, pending, last,
                   watermark, backlog, shown, teardown>>

\* The slot is empty (a teardown owns the terminal publish), or the channel
\* has closed.
ReceiveEnds ==
    /\ pump = "recv" /\ pending = NoEvent
    /\ \/ ~slot /\ pump' = "exited"
       \/ slot /\ queue = <<>> /\ ~open /\ pump' = "claim"
    /\ UNCHANGED <<engine, channel, slot, core, locals, teardown>>

\* reconcile_drops, first read: the retained fatal ends the pump's loop.
TakeCritical ==
    /\ pump = "reconcile"
    /\ pump' = IF ~slot THEN after ELSE IF critical THEN "claim" ELSE "drops"
    /\ critical' = (critical /\ ~slot)
    /\ UNCHANGED <<engine, queue, open, drops, slot, core, locals, teardown>>

\* Second read: a counter above the watermark arms the backlog.
CheckDrops ==
    /\ pump = "drops"
    /\ watermark' = drops
    /\ backlog' = (backlog \/ drops > watermark)
    /\ pump' = IF backlog' THEN "latest" ELSE after
    /\ UNCHANGED <<engine, channel, slot, core, after, event, pending, last,
                   shown, teardown>>

\* Publish state number i unless the core was last told the same.
Publish(i) ==
    /\ core' = IF last = map_vpn_state(states[i]) THEN core
               ELSE map_vpn_state(states[i])
    /\ last' = map_vpn_state(states[i])
    /\ shown' = i

\* Third read: while armed, the authoritative snapshot is republished.
PublishLatest ==
    /\ pump = "latest"
    /\ IF states = <<>> THEN UNCHANGED <<core, last, shown>>
       ELSE Publish(Len(states))
    /\ pump' = after
    /\ UNCHANGED <<engine, channel, slot, after, event, pending, watermark,
                   backlog, teardown>>

\* A queued state is stale while the backlog is armed, and nobody's business
\* once the slot is retired.
suppressed == backlog \/ ~slot

Process ==
    /\ pump = "process"
    /\ event' = NoEvent
    /\ \/ /\ event.kind = "state" /\ suppressed
          /\ pump' = "recv"
          /\ UNCHANGED <<core, last, shown, after>>
       \/ /\ event.kind = "state" /\ ~suppressed
          /\ Publish(event.n)
          /\ Reconcile("recv")
       \/ /\ event.kind = "fatal"
          /\ pump' = "claim"
          /\ UNCHANGED <<core, last, shown, after>>
       \/ /\ event.kind = "stats"
          /\ Reconcile("recv")
          /\ UNCHANGED <<core, last, shown>>
    /\ UNCHANGED <<engine, channel, slot, pending, watermark, backlog, teardown>>

\* The disarm probe after the quiet reconcile: only an empty queue disarms.
backlog_after_probe_Disarmed == FALSE

backlog_after_probe == backlog /\ ~(slot /\ queue = <<>> /\ open)

Probe ==
    /\ pump = "probe"
    /\ backlog' = backlog_after_probe
    /\ IF slot /\ queue # <<>>
       THEN pending' = Head(queue) /\ queue' = Tail(queue)
       ELSE UNCHANGED <<pending, queue>>
    /\ pump' = "recv"
    /\ UNCHANGED <<engine, open, drops, critical, slot, core, after, event,
                   last, watermark, shown, teardown>>

\* A fatal or a dead channel: the pump that takes the handle cleans up, one
\* that finds the slot empty yields to the teardown that emptied it.
Claim ==
    /\ pump = "claim"
    /\ slot' = FALSE
    /\ pump' = IF slot THEN "closing" ELSE "exited"
    /\ UNCHANGED <<engine, channel, core, locals, teardown>>

\* disconnect_and_wait, then the terminal publish.
Close ==
    /\ pump = "closing" /\ callback = "idle"
    /\ open' = FALSE
    /\ core' = "Disconnected"
    /\ pump' = "exited"
    /\ UNCHANGED <<engine, queue, drops, critical, slot, locals, teardown>>

-----------------------------------------------------------------------------
\* A caller retires the slot; it waits for the pump's guard.
TeardownRetires ==
    /\ teardown = "no"
    /\ pump \notin {"drops", "latest"}
    /\ slot' = FALSE
    /\ teardown' = "retired"
    /\ UNCHANGED <<engine, channel, core, pump, locals>>

TeardownPublishes ==
    /\ teardown = "retired"
    /\ core' = "Disconnecting"
    /\ teardown' = "published"
    /\ UNCHANGED <<engine, channel, slot, pump, locals>>

TeardownStops ==
    /\ teardown = "published" /\ callback = "idle"
    /\ open' = FALSE
    /\ teardown' = "stopped"
    /\ UNCHANGED <<engine, queue, drops, critical, slot, core, pump, locals>>

TeardownEnds ==
    /\ teardown = "stopped" /\ pump = "exited"
    /\ core' = "Disconnected"
    /\ teardown' = "done"
    /\ UNCHANGED <<engine, channel, slot, pump, locals>>

-----------------------------------------------------------------------------
Callback == ForwardState \/ NoteStateDrop \/ RetainFatal

Pump ==
    \/ Receive \/ QuietCadence \/ ReceiveEnds
    \/ TakeCritical \/ CheckDrops \/ PublishLatest
    \/ Process \/ Probe \/ Claim \/ Close

Teardown == TeardownPublishes \/ TeardownStops \/ TeardownEnds

Next ==
    \/ OnStateChanged \/ ForwardStats \/ ForwardFatal \/ EngineExits
    \/ Callback \/ Pump
    \/ TeardownRetires \/ Teardown

Spec == Init /\ [][Next]_vars

\* The three threads are scheduled; ProTUN owes no event and nobody owes a
\* teardown.
Fairness == WF_vars(Callback) /\ WF_vars(Pump) /\ WF_vars(Teardown)

FairSpec == Spec /\ Fairness

-----------------------------------------------------------------------------
Events == [kind : {"none", "state", "stats", "fatal"}, n : 0..MaxStates]

\* Every variable has the shape the code's types give it; the queue never
\* holds more than its bound.
TypeOK ==
    /\ states \in Seq(EngineStates) /\ Len(states) <= MaxStates
    /\ stats \in 0..MaxStats /\ fatal \in BOOLEAN
    /\ callback \in {"idle", "stored", "full", "fullFatal"}
    /\ queue \in Seq(Events) /\ Len(queue) <= Bound
    /\ open \in BOOLEAN /\ drops \in Nat /\ critical \in BOOLEAN
    /\ slot \in BOOLEAN /\ core \in VpnStates
    /\ pump \in {"recv", "reconcile", "drops", "latest", "process", "probe",
                 "claim", "closing", "exited"}
    /\ after \in {"recv", "process", "probe"}
    /\ event \in Events /\ pending \in Events
    /\ last \in VpnStates \cup {"none"}
    /\ watermark \in 0..drops /\ backlog \in BOOLEAN
    /\ teardown \in {"no", "retired", "published", "stopped", "done"}
    /\ shown \in 0..Len(states)

\* Rounds 14, 16, 28, 29 and 38: whatever the full queue dropped, and however
\* the snapshot and the queued states interleave, the pump never goes back to
\* a state older than one it has already shown.
NeverShowsOlder == shown' >= shown

\* Rounds 32 to 35: once a teardown has retired the slot, neither a dequeued
\* state nor a reconcile reaches the core.
RetiredPumpIsSilent ==
    ~slot => core' \in {core, "Disconnecting", "Disconnected"}

\* The state shown only advances, and not at all once the slot is retired.
ShownOnlyAdvances == [][TypeOK' /\ NeverShowsOlder /\ RetiredPumpIsSilent]_vars

\* When ProTUN has said its last word the core ends up showing it, for as
\* long as the tunnel stays up.
Converges == <>[](slot /\ states # <<>> => core = latest_state)

\* The engine contract: a terminal certificate failure closes the tunnel.
FatalClosesTunnel == fatal ~> ~slot

\* ProTUN's last word is acted on: shown while the tunnel is up, and ending it
\* when it is a terminal failure.
LastWordIsHeard == Converges /\ FatalClosesTunnel

=============================================================================

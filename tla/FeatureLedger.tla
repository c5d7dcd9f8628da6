--------------------------- MODULE FeatureLedger ---------------------------
(***************************************************************************)
(* What the engine tells of the features a session asked for: the ledger of *)
(* requested, applied and refused settings (protocol/src/reconcile.rs), the *)
(* callbacks that fill it from ProTUN's thread, the forwarding lane with    *)
(* its recovery slots, and the handle's operations on them                  *)
(* (protocol/src/engine.rs).                                                *)
(*                                                                         *)
(* Both callbacks run on ProTUN's one connection thread. update is the      *)
(* handle's settings change, on another thread. ProTUN may report anything  *)
(* at any time: the server applies what it will.                            *)
(***************************************************************************)
EXTENDS Naturals, Sequences, FiniteSets

CONSTANTS
    Settings,       \* the settings of EngineAgentSettings that occur
    Values,         \* their values; "" is an unset one
    Bound,          \* EVENT_CHANNEL_BOUND
    MaxReports,     \* bound: callbacks ProTUN makes
    MaxUpdates      \* bound: settings changes

VARIABLES
    requested,  \* FeatureReconciliation::requested
    applied,    \* ... applied: <<>> until the server reports
    refused,    \* ... refused
    epoch,      \* ... epoch, which the callbacks read without the lock
    callback,   \* the callback in flight: where it is, its snapshot, its event
    queue,      \* the bounded channel
    critical,   \* RecoverySlots::critical
    latest,     \* the newest statistics of each stream
    drops,      \* EventDrops
    reports,    \* callbacks made
    updates,    \* history: settings changes made
    sessions,   \* history: negotiations that ended
    proof,      \* history: the request and negotiation each entry answers
    owed        \* history: control classes emitted and not yet taken

ledger == <<requested, applied, refused, epoch>>
lane == <<queue, critical, latest, drops, owed>>
vars == <<ledger, callback, lane, reports, updates, sessions, proof>>

Request == [Settings -> Values \cup {""}]
SettingTypes == Settings \cup {"Bouncing"}

-----------------------------------------------------------------------------
(* Events.                                                                  *)

\* EngineConnectionState, as far as the ledger tells states apart.
StateEvent(info) == [kind |-> "State", arg |-> info, stamp |-> 0]
Event(kind, arg) == [kind |-> kind, arg |-> arg, stamp |-> 0]

\* translate_event: what ProTUN's events become. Packet captures become
\* nothing.
translate_event ==
    {<<Event("Stats", "wg")>>, <<Event("AgentStats", "agent")>>,
     <<Event("ForkSelectorNeeded", "")>>, <<Event("CertificateFatal", "")>>,
     <<Event("ApiError", "invalid")>>, <<Event("ApiError", "")>>, <<>>}
    \cup {<<Event("SettingRefused", s)>> : s \in SettingTypes}

\* critical_class: refusals are kept per setting, and the error that needs
\* a new login apart from the others.
critical_class(event) ==
    IF event.kind \in {"SettingRefused", "ApiError"}
    THEN <<event.kind, event.arg>> ELSE <<event.kind, "">>

IsControl(event) ==
    event.kind \in {"ForkSelectorNeeded", "CertificateFatal", "ApiError", "SettingRefused"}

Owes(event) == <<event.kind, event.arg>>

-----------------------------------------------------------------------------
Idle == [at |-> "idle", epoch |-> 0, event |-> Event("", ""), updates |-> 0]

\* FeatureReconciliation::new, with the settings the connection starts with.
Init ==
    /\ requested \in Request
    /\ applied = <<>> /\ refused = {} /\ epoch = 0
    /\ callback = Idle
    /\ queue = <<>> /\ critical = {} /\ owed = {}
    /\ latest = [wg |-> 0, agent |-> 0]
    /\ drops = [stats |-> 0, states |-> 0, controls_retained |-> 0]
    /\ reports = 0 /\ updates = 0 /\ sessions = 0
    /\ proof = [applied |-> <<0, 0>>, refused |-> [s \in SettingTypes |-> <<0, 0>>]]

\* A callback begins: it snapshots the epoch before anything else.
Enter(event) ==
    /\ callback.at = "idle" /\ reports < MaxReports
    /\ reports' = reports + 1
    /\ callback' = [at |-> "entered", epoch |-> epoch, event |-> event,
                    updates |-> updates]
    /\ UNCHANGED <<ledger, lane, updates, sessions, proof>>

\* on_state_changed: a Connected state carries the applied settings, every
\* other one carries none.
on_state_changed ==
    \E info \in {<<>>} \cup {<<s>> : s \in Request} : Enter(StateEvent(info))

\* on_event, when the event means something to the engine.
on_event == \E events \in translate_event : events # <<>> /\ Enter(events[1])

Now == <<updates, sessions>>

note_applied_AnyEpoch(settings, observed) ==
    /\ applied' = <<settings>>
    /\ proof' = [proof EXCEPT !.applied = <<callback.updates, sessions>>]
    /\ UNCHANGED <<requested, refused, epoch, sessions>>

\* note_applied: an answer that entered before the request changed is dropped.
note_applied(settings, observed) ==
    /\ IF observed # epoch THEN UNCHANGED <<applied, proof>>
       ELSE /\ applied' = <<settings>>
            /\ proof' = [proof EXCEPT !.applied = <<callback.updates, sessions>>]
    /\ UNCHANGED <<requested, refused, epoch, sessions>>

\* note_unconfirmed: the negotiation is over, and its answers with it.
note_unconfirmed ==
    /\ applied' = <<>> /\ refused' = {}
    /\ sessions' = sessions + 1
    /\ UNCHANGED <<requested, epoch, proof>>

\* note_refused, and whether it was accepted.
note_refused(setting, observed) ==
    /\ IF observed # epoch THEN UNCHANGED <<refused, proof>>
       ELSE /\ refused' = refused \cup {setting}
            /\ proof' = [proof EXCEPT !.refused[setting] = <<callback.updates, sessions>>]
    /\ UNCHANGED <<requested, applied, epoch, sessions>>

\* The callback's turn at the ledger. A refusal carries its snapshot from
\* here on; a stale one goes no further.
Note ==
    LET event == callback.event
        stale == event.kind = "SettingRefused" /\ callback.epoch # epoch
    IN /\ callback.at = "entered"
       /\ IF event.kind = "State"
          THEN IF event.arg # <<>> THEN note_applied(event.arg[1], callback.epoch)
               ELSE note_unconfirmed
          ELSE IF event.kind = "SettingRefused" THEN note_refused(event.arg, callback.epoch)
          ELSE UNCHANGED <<ledger, sessions, proof>>
       /\ callback' = IF stale THEN Idle
                      ELSE [callback EXCEPT !.at = "forward",
                                            !.event.stamp = callback.epoch]
       /\ owed' = IF IsControl(event) /\ ~stale THEN owed \cup {Owes(event)} ELSE owed
       /\ UNCHANGED <<queue, critical, latest, drops, reports, updates>>

\* forward: the statistics' slot first, then the queue if it has room.
forward ==
    LET event == callback.event IN
    /\ callback.at = "forward"
    /\ latest' = IF event.kind \in {"Stats", "AgentStats"}
                 THEN [latest EXCEPT ![event.arg] = reports] ELSE latest
    /\ IF Len(queue) < Bound
       THEN queue' = Append(queue, event) /\ callback' = Idle
       ELSE callback' = [callback EXCEPT !.at = "full"] /\ UNCHANGED queue
    /\ UNCHANGED <<ledger, critical, drops, owed, reports, updates, sessions, proof>>

\* What becomes of an event the queue refused: a control replaces the one its
\* class retains, a fatal stays.
Retained(event) ==
    LET twin == {e \in critical : critical_class(e) = critical_class(event)} IN
    IF \E e \in twin : e.kind = "CertificateFatal" THEN critical
    ELSE (critical \ twin) \cup {event}

Overflow ==
    LET event == callback.event
        counter == IF event.kind = "State" THEN "states"
                   ELSE IF IsControl(event) THEN "controls_retained" ELSE "stats"
    IN /\ callback.at = "full"
       /\ critical' = IF IsControl(event) THEN Retained(event) ELSE critical
       /\ drops' = [drops EXCEPT ![counter] = @ + 1]
       /\ callback' = Idle
       /\ UNCHANGED <<ledger, queue, latest, owed, reports, updates, sessions, proof>>

-----------------------------------------------------------------------------
\* update_agent_settings: note_requested and the retained refusals, under the
\* ledger's lock.
update_agent_settings ==
    \E settings \in Request :
        /\ updates < MaxUpdates /\ updates' = updates + 1
        /\ requested' = settings
        /\ applied' = <<>> /\ refused' = {} /\ epoch' = epoch + 1
        /\ critical' = {e \in critical : e.kind # "SettingRefused"}
        /\ owed' = {c \in owed : c[1] # "SettingRefused"}
        /\ UNCHANGED <<queue, latest, drops, callback, reports, sessions, proof>>

\* The consumer takes what is queued ...
Receive ==
    /\ queue # <<>>
    /\ queue' = Tail(queue)
    /\ owed' = owed \ {Owes(Head(queue))}
    /\ UNCHANGED <<ledger, critical, latest, drops, callback, reports, updates,
                   sessions, proof>>

\* ... and what was retained.
take_critical_events ==
    /\ critical # {}
    /\ critical' = {}
    /\ owed' = owed \ {Owes(e) : e \in critical}
    /\ UNCHANGED <<ledger, queue, latest, drops, callback, reports, updates,
                   sessions, proof>>

Next ==
    \/ on_state_changed \/ on_event \/ Note \/ forward \/ Overflow
    \/ update_agent_settings \/ Receive \/ take_critical_events

Spec == Init /\ [][Next]_vars

-----------------------------------------------------------------------------
\* divergences: the requested settings the server has not applied as asked.
divergences ==
    {s \in Settings : /\ requested[s] # ""
                      /\ applied = <<>> \/ applied[1][s] # requested[s]}

\* The variables have the shapes of the code's types.
TypeOK ==
    /\ requested \in Request /\ refused \subseteq SettingTypes
    /\ applied = <<>> \/ (Len(applied) = 1 /\ applied[1] \in Request)
    /\ epoch \in 0 .. MaxUpdates
    /\ callback.at \in {"idle", "entered", "forward", "full"}
    /\ Len(queue) <= Bound

\* A setting the table does not list, and a refusal it does, answers the
\* request in force and the negotiation in course: nothing ProTUN reported
\* before a settings change or a reconnect speaks for it afterwards, although
\* the callback may be overtaken by the change (reconcile.rs, T-20).
LedgerAnswersThisRequest ==
    /\ \A s \in Settings :
        (requested[s] # "" /\ s \notin divergences) => proof.applied = Now
    /\ \A s \in refused : proof.refused[s] = Now

\* A full queue loses no obligation: until the consumer takes it, every class
\* of control event ProTUN raised is queued or retained, whatever else
\* overflowed after it (forward, take_critical_events).
ControlsSurvive ==
    \A c \in owed :
        \/ \E i \in DOMAIN queue : Owes(queue[i]) = c
        \/ \E e \in critical : Owes(e) = c
        \/ callback.at # "idle" /\ Owes(callback.event) = c
=============================================================================

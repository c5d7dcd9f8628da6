-------------------------- MODULE EventPumpProofs --------------------------
(***************************************************************************)
(* The event path's safety, for every queue bound and every history of      *)
(* engine states: the state shown never goes back, and nothing is shown for *)
(* a connection whose slot is retired.                                      *)
(***************************************************************************)
EXTENDS EventPump, TLAPS

\* An event that stands for a state.
IsState(e) == e.kind = "state"

\* Inside reconcile_drops, on the way back to `label`.
Reconciling(label) == pump \in {"reconcile", "drops", "latest"} /\ after = label

\* Where the pump is tells what it has in hand and what it has checked.
Hands ==
    /\ pump \in {"drops", "latest"} => slot
    /\ pump = "latest" => backlog
    /\ pump \in {"recv", "probe"} \/ Reconciling("recv") \/ Reconciling("probe")
          => event = NoEvent
    /\ pump = "probe" \/ Reconciling("probe") => pending = NoEvent

\* A state event carries the number of a state that was reported.
Numbered ==
    /\ callback \in {"stored", "full"} => states # <<>>
    /\ IsState(event) => event.n \in 1..Len(states)
    /\ IsState(pending) => pending.n \in 1..Len(states)
    /\ \A i \in 1..Len(queue) : IsState(queue[i]) => queue[i].n \in 1..Len(states)

Sorted(q) ==
    \A i, j \in 1..Len(q) :
        i < j /\ IsState(q[i]) /\ IsState(q[j]) => q[i].n <= q[j].n

\* States wait in the order they were reported: the one in hand, the probe's
\* catch, then the queue.
Ordered ==
    /\ IsState(event) /\ IsState(pending) => event.n <= pending.n
    /\ \A i \in 1..Len(queue) : IsState(queue[i]) =>
          /\ IsState(event) => event.n <= queue[i].n
          /\ IsState(pending) => pending.n <= queue[i].n
    /\ Sorted(queue)

\* Unless the backlog is armed, nothing that waits is older than what is shown.
Current ==
    ~backlog =>
        /\ IsState(event) => shown <= event.n
        /\ IsState(pending) => shown <= pending.n
        /\ \A i \in 1..Len(queue) : IsState(queue[i]) => shown <= queue[i].n

\* What the two safety statements rest on: that the shown state only advances
\* is not inductive without the order of what waits.
PumpInv == TypeOK /\ Hands /\ Numbered /\ Ordered /\ Current

\* map_vpn_state gives a state of the core for every state of the engine.
LEMMA MappedStates == \A s \in EngineStates : map_vpn_state(s) \in VpnStates
  BY PumpAssumption DEF map_vpn_state, VpnStates, EngineConnectionStates

\* What the callback thread queues is an event.
LEMMA QueuedEvents ==
    /\ NoEvent \in Events /\ Stats \in Events /\ CertificateFatal \in Events
    /\ \A i \in 0..MaxStates : State(i) \in Events
    /\ \A i \in 0..MaxStates : IsState(State(i)) /\ State(i).n = i
    /\ ~IsState(NoEvent) /\ ~IsState(Stats) /\ ~IsState(CertificateFatal)
  BY PumpAssumption DEF Events, NoEvent, Stats, CertificateFatal, State, IsState

\* What is behind the head waits in the same order.
LEMMA TailIsSorted ==
    ASSUME NEW q \in Seq(Events), q # <<>>, Sorted(q)
    PROVE  Sorted(Tail(q))
  <1>1. /\ Len(q) \in Nat \ {0} /\ Len(Tail(q)) = Len(q) - 1
        /\ \A i \in 1..Len(Tail(q)) : Tail(q)[i] = q[i + 1]
    OBVIOUS
  <1>2. \A i \in 1..Len(Tail(q)) : i \in Nat /\ i + 1 \in 1..Len(q)  BY <1>1
  <1>3. \A i, j \in 1..Len(Tail(q)) : i < j => i + 1 < j + 1  OBVIOUS
  <1>4. QED  BY <1>1, <1>2, <1>3 DEF Sorted

\* A state is reported: what waits is still numbered below it.
LEMMA OnStateChangedKeeps == ASSUME PumpInv, OnStateChanged PROVE PumpInv'
  <1> USE PumpAssumption DEF PumpInv, OnStateChanged, engine, channel, locals
  <1>1. TypeOK'
    <2>1. states' \in Seq(EngineStates) /\ Len(states') = Len(states) + 1
      BY DEF TypeOK
    <2>2. Len(states') <= MaxStates /\ shown' \in 0..Len(states')
      BY <2>1 DEF TypeOK
    <2>3. QED  BY <2>1, <2>2 DEF TypeOK
  <1>2. Hands'  BY DEF TypeOK, Hands, Reconciling
  <1>3. Numbered'
    <2>1. Len(states) \in Nat /\ Len(states') = Len(states) + 1  BY DEF TypeOK
    <2>2. QED  BY <2>1 DEF Numbered
  <1>4. Ordered'  BY DEF TypeOK, Ordered
  <1>5. Current'  BY DEF TypeOK, Current
  <1>6. QED  BY <1>1, <1>2, <1>3, <1>4, <1>5

\* The state queued is the last one reported.
LEMMA ForwardStateKeeps == ASSUME PumpInv, ForwardState PROVE PumpInv'
  <1> USE PumpAssumption DEF PumpInv, ForwardState, has_room, engine, channel, locals
  <1>0. queue \in Seq(Events) /\ Len(queue) \in Nat /\ Len(states) \in 0..MaxStates
    BY DEF TypeOK
  <1>a. CASE queue' = queue
    <2>1. TypeOK'  BY <1>a DEF TypeOK
    <2>2. Hands' /\ Numbered' /\ Ordered' /\ Current'
      BY <1>a DEF TypeOK, Hands, Reconciling, Numbered, Ordered, Sorted, Current
    <2>3. QED  BY <2>1, <2>2
  <1>b. CASE Len(queue) < Bound /\ queue' = Append(queue, State(Len(states)))
    <2>1. /\ queue' \in Seq(Events) /\ Len(queue') = Len(queue) + 1
          /\ queue'[Len(queue) + 1] = State(Len(states))
          /\ \A i \in 1..Len(queue) : queue'[i] = queue[i]
      BY <1>0, <1>b, QueuedEvents
    <2>2. TypeOK'  BY <1>0, <1>b, <2>1 DEF TypeOK
    <2>3. Hands'  BY DEF TypeOK, Hands, Reconciling
    <2>4. \A i \in 1..Len(queue') : i \in 1..Len(queue) \/ i = Len(queue) + 1
      BY <1>0, <2>1
    <2>e. ~IsState(State(Len(states))) \/ State(Len(states)).n = Len(states)
      BY <1>0, QueuedEvents
    <2>s. UNCHANGED <<states, event, pending, backlog, shown>>  OBVIOUS
    <2>5. Numbered'
      <3>1. IsState(State(Len(states))) => State(Len(states)).n \in 1..Len(states)
        BY <1>0, <2>e, QueuedEvents DEF Numbered, TypeOK
      <3>2. QED  BY <2>1, <2>4, <2>s, <3>1 DEF Numbered
    <2>6. Ordered'
      <3>1. \A i \in 1..Len(queue) : IsState(queue[i]) => queue[i].n <= Len(states)
        BY DEF Numbered
      <3>2. Sorted(queue')
        BY <1>0, <2>1, <2>4, <2>e, <3>1 DEF Ordered, Sorted
      <3>3. \A i \in 1..Len(queue') : IsState(queue'[i]) =>
               /\ IsState(event) => event.n <= queue'[i].n
               /\ IsState(pending) => pending.n <= queue'[i].n
        BY <1>0, <2>1, <2>4, <2>e DEF Ordered, Numbered
      <3>4. QED  BY <2>s, <3>2, <3>3 DEF Ordered
    <2>7. Current'  BY <1>0, <2>1, <2>4, QueuedEvents DEF Current, TypeOK
    <2>8. QED  BY <2>2, <2>3, <2>5, <2>6, <2>7
  <1>1. QED  BY <1>a, <1>b

\* A drop is only counted.
LEMMA NoteStateDropKeeps == ASSUME PumpInv, NoteStateDrop PROVE PumpInv'
  <1> USE PumpAssumption DEF PumpInv, NoteStateDrop, note_state_drop, engine, channel,
          locals
  <1>1. TypeOK'  BY DEF TypeOK
  <1>2. Hands'  BY DEF TypeOK, Hands, Reconciling
  <1>3. Numbered'  BY DEF TypeOK, Numbered
  <1>4. Ordered'  BY DEF TypeOK, Ordered, Sorted
  <1>5. Current'  BY DEF TypeOK, Current
  <1>6. QED  BY <1>1, <1>2, <1>3, <1>4, <1>5

\* Statistics carry no state.
LEMMA ForwardStatsKeeps == ASSUME PumpInv, ForwardStats PROVE PumpInv'
  <1> USE PumpAssumption DEF PumpInv, ForwardStats, has_room, engine, channel, locals
  <1>0. queue \in Seq(Events) /\ Len(queue) \in Nat /\ Len(states) \in 0..MaxStates
    BY DEF TypeOK
  <1>a. CASE queue' = queue
    <2>1. TypeOK'  BY <1>a DEF TypeOK
    <2>2. Hands' /\ Numbered' /\ Ordered' /\ Current'
      BY <1>a DEF TypeOK, Hands, Reconciling, Numbered, Ordered, Sorted, Current
    <2>3. QED  BY <2>1, <2>2
  <1>b. CASE Len(queue) < Bound /\ queue' = Append(queue, Stats)
    <2>1. /\ queue' \in Seq(Events) /\ Len(queue') = Len(queue) + 1
          /\ queue'[Len(queue) + 1] = Stats
          /\ \A i \in 1..Len(queue) : queue'[i] = queue[i]
      BY <1>0, <1>b, QueuedEvents
    <2>2. TypeOK'  BY <1>0, <1>b, <2>1 DEF TypeOK
    <2>3. Hands'  BY DEF TypeOK, Hands, Reconciling
    <2>4. \A i \in 1..Len(queue') : i \in 1..Len(queue) \/ i = Len(queue) + 1
      BY <1>0, <2>1
    <2>e. ~IsState(Stats) \/ Stats.n = Len(states)  BY <1>0, QueuedEvents
    <2>s. UNCHANGED <<states, event, pending, backlog, shown>>  OBVIOUS
    <2>5. Numbered'
      <3>1. IsState(Stats) => Stats.n \in 1..Len(states)
        BY <1>0, <2>e, QueuedEvents
      <3>2. QED  BY <2>1, <2>4, <2>s, <3>1 DEF Numbered
    <2>6. Ordered'
      <3>1. \A i \in 1..Len(queue) : IsState(queue[i]) => queue[i].n <= Len(states)
        BY DEF Numbered
      <3>2. Sorted(queue')
        BY <1>0, <2>1, <2>4, <2>e, <3>1 DEF Ordered, Sorted
      <3>3. \A i \in 1..Len(queue') : IsState(queue'[i]) =>
               /\ IsState(event) => event.n <= queue'[i].n
               /\ IsState(pending) => pending.n <= queue'[i].n
        BY <1>0, <2>1, <2>4, <2>e DEF Ordered, Numbered
      <3>4. QED  BY <2>s, <3>2, <3>3 DEF Ordered
    <2>7. Current'  BY <1>0, <2>1, <2>4, QueuedEvents DEF Current, TypeOK
    <2>8. QED  BY <2>2, <2>3, <2>5, <2>6, <2>7
  <1>1. QED  BY <1>a, <1>b

\* The fatal carries no state.
LEMMA ForwardFatalKeeps == ASSUME PumpInv, ForwardFatal PROVE PumpInv'
  <1> USE PumpAssumption DEF PumpInv, ForwardFatal, has_room, engine, channel, locals
  <1>0. queue \in Seq(Events) /\ Len(queue) \in Nat /\ Len(states) \in 0..MaxStates
    BY DEF TypeOK
  <1>a. CASE queue' = queue
    <2>1. TypeOK'  BY <1>a DEF TypeOK
    <2>2. Hands' /\ Numbered' /\ Ordered' /\ Current'
      BY <1>a DEF TypeOK, Hands, Reconciling, Numbered, Ordered, Sorted, Current
    <2>3. QED  BY <2>1, <2>2
  <1>b. CASE Len(queue) < Bound /\ queue' = Append(queue, CertificateFatal)
    <2>1. /\ queue' \in Seq(Events) /\ Len(queue') = Len(queue) + 1
          /\ queue'[Len(queue) + 1] = CertificateFatal
          /\ \A i \in 1..Len(queue) : queue'[i] = queue[i]
      BY <1>0, <1>b, QueuedEvents
    <2>2. TypeOK'  BY <1>0, <1>b, <2>1 DEF TypeOK
    <2>3. Hands'  BY DEF TypeOK, Hands, Reconciling
    <2>4. \A i \in 1..Len(queue') : i \in 1..Len(queue) \/ i = Len(queue) + 1
      BY <1>0, <2>1
    <2>e. ~IsState(CertificateFatal) \/ CertificateFatal.n = Len(states)
      BY <1>0, QueuedEvents
    <2>s. UNCHANGED <<states, event, pending, backlog, shown>>  OBVIOUS
    <2>5. Numbered'
      <3>1. IsState(CertificateFatal) => CertificateFatal.n \in 1..Len(states)
        BY <1>0, <2>e, QueuedEvents
      <3>2. QED  BY <2>1, <2>4, <2>s, <3>1 DEF Numbered
    <2>6. Ordered'
      <3>1. \A i \in 1..Len(queue) : IsState(queue[i]) => queue[i].n <= Len(states)
        BY DEF Numbered
      <3>2. Sorted(queue')
        BY <1>0, <2>1, <2>4, <2>e, <3>1 DEF Ordered, Sorted
      <3>3. \A i \in 1..Len(queue') : IsState(queue'[i]) =>
               /\ IsState(event) => event.n <= queue'[i].n
               /\ IsState(pending) => pending.n <= queue'[i].n
        BY <1>0, <2>1, <2>4, <2>e DEF Ordered, Numbered
      <3>4. QED  BY <2>s, <3>2, <3>3 DEF Ordered
    <2>7. Current'  BY <1>0, <2>1, <2>4, QueuedEvents DEF Current, TypeOK
    <2>8. QED  BY <2>2, <2>3, <2>5, <2>6, <2>7
  <1>1. QED  BY <1>a, <1>b

\* The retained fatal is out of the queue.
LEMMA RetainFatalKeeps == ASSUME PumpInv, RetainFatal PROVE PumpInv'
  <1> USE PumpAssumption DEF PumpInv, RetainFatal, retained, engine, channel, locals
  <1>1. TypeOK'  BY DEF TypeOK
  <1>2. Hands'  BY DEF TypeOK, Hands, Reconciling
  <1>3. Numbered'  BY DEF TypeOK, Numbered
  <1>4. Ordered'  BY DEF TypeOK, Ordered, Sorted
  <1>5. Current'  BY DEF TypeOK, Current
  <1>6. QED  BY <1>1, <1>2, <1>3, <1>4, <1>5

\* The channel closes behind what is queued.
LEMMA EngineExitsKeeps == ASSUME PumpInv, EngineExits PROVE PumpInv'
  <1> USE PumpAssumption DEF PumpInv, EngineExits, engine, channel, locals
  <1>1. TypeOK'  BY ZenonT(40) DEF TypeOK
  <1>2. Hands'  BY DEF TypeOK, Hands, Reconciling
  <1>3. Numbered'  BY DEF TypeOK, Numbered
  <1>4. Ordered'  BY DEF TypeOK, Ordered, Sorted
  <1>5. Current'  BY DEF TypeOK, Current
  <1>6. QED  BY <1>1, <1>2, <1>3, <1>4, <1>5

\* The next event comes to hand in its order.
LEMMA ReceiveKeeps == ASSUME PumpInv, Receive PROVE PumpInv'
  <1> USE PumpAssumption DEF PumpInv, Receive, Reconcile, engine, channel, locals
  <1>0. event = NoEvent  BY DEF Hands
  <1>a. CASE pending # NoEvent
    <2>1. event' = pending /\ pending' = NoEvent /\ queue' = queue  BY <1>a
    <2>2. TypeOK'  BY <2>1, QueuedEvents DEF TypeOK
    <2>3. Hands'  BY DEF Hands, Reconciling
    <2>4. Numbered' /\ Ordered'  BY <2>1, QueuedEvents DEF Numbered, Ordered
    <2>5. Current'  BY <2>1, QueuedEvents DEF Current
    <2>6. QED  BY <2>2, <2>3, <2>4, <2>5
  <1>b. CASE pending = NoEvent /\ queue # <<>>
    <2>0. queue \in Seq(Events) /\ queue # <<>> /\ queue' = Tail(queue)
      BY <1>b DEF TypeOK
    <2>1. /\ queue \in Seq(Events) /\ Head(queue) = queue[1] /\ Len(queue) \in Nat \ {0}
          /\ queue' \in Seq(Events) /\ Len(queue') = Len(queue) - 1
          /\ \A i \in 1..Len(queue') : queue'[i] = queue[i + 1] /\ i + 1 \in 1..Len(queue)
          /\ 1 \in 1..Len(queue) /\ Head(queue) \in Events
      BY <2>0
    <2>2. event' = queue[1] /\ pending' = NoEvent  BY <1>b, <2>1
    <2>3. TypeOK'  BY <1>b, <2>1, <2>2, QueuedEvents DEF TypeOK
    <2>4. Hands'  BY DEF Hands, Reconciling
    <2>5. Numbered'  BY <2>1, <2>2, QueuedEvents DEF Numbered
    <2>6. Ordered'
      <3>1. Sorted(queue')  BY <2>0, TailIsSorted DEF Ordered
      <3>2. \A i \in 1..Len(queue') : 1 < i + 1  OBVIOUS
      <3>3. \A i \in 1..Len(queue') : IsState(queue'[i]) /\ IsState(event')
               => event'.n <= queue'[i].n
        BY <2>1, <2>2, <3>2 DEF Ordered, Sorted
      <3>4. QED  BY <2>2, <3>1, <3>3, QueuedEvents DEF Ordered
    <2>7. Current'  BY <2>1, <2>2, QueuedEvents DEF Current
    <2>8. QED  BY <2>3, <2>4, <2>5, <2>6, <2>7
  <1>1. QED  BY <1>a, <1>b

\* A quiet cadence has nothing in hand.
LEMMA QuietCadenceKeeps == ASSUME PumpInv, QuietCadence PROVE PumpInv'
  <1> USE PumpAssumption DEF PumpInv, QuietCadence, Reconcile, engine, channel, locals
  <1>1. TypeOK'  BY DEF TypeOK
  <1>2. Hands'  BY DEF TypeOK, Hands, Reconciling
  <1>3. Numbered'  BY DEF TypeOK, Numbered
  <1>4. Ordered'  BY DEF TypeOK, Ordered, Sorted
  <1>5. Current'  BY DEF TypeOK, Current
  <1>6. QED  BY <1>1, <1>2, <1>3, <1>4, <1>5

\* The loop ends with nothing in hand.
LEMMA ReceiveEndsKeeps == ASSUME PumpInv, ReceiveEnds PROVE PumpInv'
  <1> USE PumpAssumption DEF PumpInv, ReceiveEnds, engine, channel, locals
  <1>1. TypeOK'  BY DEF TypeOK
  <1>2. Hands'  BY DEF TypeOK, Hands, Reconciling
  <1>3. Numbered'  BY DEF TypeOK, Numbered
  <1>4. Ordered'  BY DEF TypeOK, Ordered, Sorted
  <1>5. Current'  BY DEF TypeOK, Current
  <1>6. QED  BY <1>1, <1>2, <1>3, <1>4, <1>5

\* The drops are read only under a filled slot.
LEMMA TakeCriticalKeeps == ASSUME PumpInv, TakeCritical PROVE PumpInv'
  <1> USE PumpAssumption DEF PumpInv, TakeCritical, engine, channel, locals
  <1>1. TypeOK'
    <2>1. critical' \in BOOLEAN  BY DEF TypeOK
    <2>2. pump' \in {after, "claim", "drops"}  OBVIOUS
    <2>3. QED  BY <2>1, <2>2 DEF TypeOK
  <1>2. Hands'  BY DEF TypeOK, Hands, Reconciling
  <1>3. Numbered'  BY DEF TypeOK, Numbered
  <1>4. Ordered'  BY DEF TypeOK, Ordered, Sorted
  <1>5. Current'  BY DEF TypeOK, Current
  <1>6. QED  BY <1>1, <1>2, <1>3, <1>4, <1>5

\* The snapshot is read only while the backlog is armed.
LEMMA CheckDropsKeeps == ASSUME PumpInv, CheckDrops PROVE PumpInv'
  <1> USE PumpAssumption DEF PumpInv, CheckDrops, engine, channel, locals
  <1>0. backlog' \in BOOLEAN /\ (backlog => backlog')  BY DEF TypeOK
  <1>1. TypeOK'  BY <1>0 DEF TypeOK
  <1>2. Hands'  BY <1>0 DEF TypeOK, Hands, Reconciling
  <1>3. Numbered'  BY DEF Numbered
  <1>4. Ordered'  BY DEF Ordered
  <1>5. Current'  BY <1>0 DEF Current
  <1>6. QED  BY <1>1, <1>2, <1>3, <1>4, <1>5

\* The snapshot is the newest state, and the backlog stays armed.
LEMMA PublishLatestKeeps == ASSUME PumpInv, PublishLatest PROVE PumpInv'
  <1> USE PumpAssumption DEF PumpInv, PublishLatest, Publish, engine, channel, locals
  <1>0. /\ Len(states) \in Nat
        /\ states # <<>> =>
              Len(states) \in 1..Len(states) /\ states[Len(states)] \in EngineStates
    BY DEF TypeOK
  <1>1. TypeOK'
    <2>1. core' \in VpnStates /\ last' \in VpnStates \cup {"none"} /\ shown' \in 0..Len(states)
      BY <1>0, MappedStates DEF TypeOK
    <2>2. QED  BY <2>1 DEF TypeOK
  <1>2. Hands'  BY DEF TypeOK, Hands, Reconciling
  <1>3. Numbered'  BY DEF Numbered
  <1>4. Ordered'  BY DEF Ordered
  <1>5. Current'  BY DEF Hands, Current
  <1>6. QED  BY <1>1, <1>2, <1>3, <1>4, <1>5

\* What is published is the oldest state that waits.
LEMMA ProcessKeeps == ASSUME PumpInv, Process PROVE PumpInv'
  <1> USE PumpAssumption DEF PumpInv, Process, Publish, Reconcile, suppressed, engine,
          channel, locals
  <1>0. event' = NoEvent /\ ~IsState(event')  BY QueuedEvents
  <1>a. CASE IsState(event) /\ ~suppressed
    <2>1. event.n \in 1..Len(states) /\ states[event.n] \in EngineStates
          /\ shown' = event.n
      BY <1>a DEF Numbered, TypeOK, IsState
    <2>2. TypeOK'
      <3>1. core' \in VpnStates /\ last' \in VpnStates
        BY <1>a, <2>1, MappedStates DEF TypeOK, IsState
      <3>2. shown' \in 0..Len(states)  BY <2>1 DEF TypeOK
      <3>3. pump' = "reconcile" /\ after' = "recv"  BY <1>a DEF IsState
      <3>4. QED  BY <1>0, <3>1, <3>2, <3>3, QueuedEvents DEF TypeOK
    <2>3. Hands'  BY <1>0, <1>a DEF Hands, Reconciling, IsState
    <2>4. Numbered' /\ Ordered'  BY <1>0 DEF Numbered, Ordered
    <2>5. Current'  BY <1>0, <1>a, <2>1 DEF Ordered, Current
    <2>6. QED  BY <2>2, <2>3, <2>4, <2>5
  <1>b. CASE UNCHANGED <<core, last, shown>>
    <2>1. TypeOK'  BY <1>0, <1>b, QueuedEvents DEF TypeOK
    <2>2. Hands'  BY <1>0, <1>b DEF TypeOK, Hands, Reconciling
    <2>3. Numbered' /\ Ordered' /\ Current'  BY <1>0, <1>b DEF Numbered, Ordered, Current
    <2>4. QED  BY <2>1, <2>2, <2>3
  <1>1. QED  BY <1>a, <1>b DEF IsState

\* The backlog is disarmed only when nothing waits.
LEMMA ProbeKeeps == ASSUME PumpInv, Probe PROVE PumpInv'
  <1> USE PumpAssumption DEF PumpInv, Probe, backlog_after_probe, engine, channel, locals
  <1>0. event = NoEvent /\ pending = NoEvent /\ ~IsState(NoEvent)
        /\ backlog' \in BOOLEAN
    BY QueuedEvents DEF Hands, TypeOK
  <1>a. CASE ~(slot /\ queue # <<>>)
    <2>1. pending' = NoEvent /\ queue' = queue  BY <1>0, <1>a
    <2>2. TypeOK'  BY <1>0, <2>1, QueuedEvents DEF TypeOK
    <2>3. Hands'  BY <1>0 DEF Hands, Reconciling
    <2>4. Numbered' /\ Ordered'  BY <1>0, <2>1 DEF Numbered, Ordered
    <2>5. Current'
      <3>1. CASE queue = <<>>  BY <1>0, <2>1, <3>1 DEF Current
      <3>2. CASE queue # <<>>
        <4>1. backlog' = backlog  BY <1>a, <3>2 DEF TypeOK
        <4>2. QED  BY <1>0, <2>1, <4>1 DEF Current
      <3>3. QED  BY <3>1, <3>2
    <2>6. QED  BY <2>2, <2>3, <2>4, <2>5
  <1>b. CASE slot /\ queue # <<>>
    <2>0. queue \in Seq(Events) /\ queue # <<>> /\ queue' = Tail(queue)
      BY <1>b DEF TypeOK
    <2>1. /\ queue \in Seq(Events) /\ Head(queue) = queue[1] /\ Len(queue) \in Nat \ {0}
          /\ queue' \in Seq(Events) /\ Len(queue') = Len(queue) - 1
          /\ \A i \in 1..Len(queue') : queue'[i] = queue[i + 1] /\ i + 1 \in 1..Len(queue)
          /\ 1 \in 1..Len(queue) /\ Head(queue) \in Events
      BY <2>0
    <2>2. pending' = queue[1] /\ event' = NoEvent  BY <1>0, <1>b, <2>1
    <2>3. backlog' = backlog  BY <1>b DEF TypeOK
    <2>4. TypeOK'  BY <1>b, <2>1, <2>2, <2>3, QueuedEvents DEF TypeOK
    <2>5. Hands'  BY <1>0 DEF Hands, Reconciling
    <2>6. Numbered'  BY <1>0, <2>1, <2>2 DEF Numbered
    <2>7. Ordered'
      <3>1. Sorted(queue')  BY <2>0, TailIsSorted DEF Ordered
      <3>2. \A i \in 1..Len(queue') : 1 < i + 1  OBVIOUS
      <3>3. \A i \in 1..Len(queue') : IsState(queue'[i]) /\ IsState(pending')
               => pending'.n <= queue'[i].n
        BY <2>1, <2>2, <3>2 DEF Ordered, Sorted
      <3>4. QED  BY <1>0, <2>2, <3>1, <3>3 DEF Ordered
    <2>8. Current'  BY <1>0, <2>1, <2>2, <2>3 DEF Current
    <2>9. QED  BY <2>4, <2>5, <2>6, <2>7, <2>8
  <1>1. QED  BY <1>a, <1>b

\* The handle is taken outside the reconcile.
LEMMA ClaimKeeps == ASSUME PumpInv, Claim PROVE PumpInv'
  <1> USE PumpAssumption DEF PumpInv, Claim, engine, channel, locals
  <1>1. TypeOK'  BY ZenonT(40) DEF TypeOK
  <1>2. Hands'  BY DEF TypeOK, Hands, Reconciling
  <1>3. Numbered'  BY DEF TypeOK, Numbered
  <1>4. Ordered'  BY DEF TypeOK, Ordered, Sorted
  <1>5. Current'  BY DEF TypeOK, Current
  <1>6. QED  BY <1>1, <1>2, <1>3, <1>4, <1>5

\* The terminal publish is of no numbered state.
LEMMA CloseKeeps == ASSUME PumpInv, Close PROVE PumpInv'
  <1> USE PumpAssumption DEF PumpInv, Close, engine, channel, locals
  <1>1. TypeOK'  BY Zenon DEF TypeOK, VpnStates
  <1>2. Hands'  BY DEF TypeOK, Hands, Reconciling
  <1>3. Numbered'  BY DEF TypeOK, Numbered
  <1>4. Ordered'  BY DEF TypeOK, Ordered, Sorted
  <1>5. Current'  BY DEF TypeOK, Current
  <1>6. QED  BY <1>1, <1>2, <1>3, <1>4, <1>5

\* A teardown waits for the reconcile to release the slot.
LEMMA TeardownRetiresKeeps == ASSUME PumpInv, TeardownRetires PROVE PumpInv'
  <1> USE PumpAssumption DEF PumpInv, TeardownRetires, engine, channel, locals
  <1>1. TypeOK'  BY ZenonT(40) DEF TypeOK
  <1>2. Hands'  BY DEF TypeOK, Hands, Reconciling
  <1>3. Numbered'  BY DEF TypeOK, Numbered
  <1>4. Ordered'  BY DEF TypeOK, Ordered, Sorted
  <1>5. Current'  BY DEF TypeOK, Current
  <1>6. QED  BY <1>1, <1>2, <1>3, <1>4, <1>5

\* A teardown publishes no numbered state.
LEMMA TeardownPublishesKeeps == ASSUME PumpInv, TeardownPublishes PROVE PumpInv'
  <1> USE PumpAssumption DEF PumpInv, TeardownPublishes, engine, channel, locals
  <1>1. TypeOK'  BY DEF TypeOK, VpnStates
  <1>2. Hands'  BY DEF TypeOK, Hands, Reconciling
  <1>3. Numbered'  BY DEF TypeOK, Numbered
  <1>4. Ordered'  BY DEF TypeOK, Ordered, Sorted
  <1>5. Current'  BY DEF TypeOK, Current
  <1>6. QED  BY <1>1, <1>2, <1>3, <1>4, <1>5

\* A teardown stops the engine behind what is queued.
LEMMA TeardownStopsKeeps == ASSUME PumpInv, TeardownStops PROVE PumpInv'
  <1> USE PumpAssumption DEF PumpInv, TeardownStops, engine, channel, locals
  <1>1. TypeOK'  BY Zenon DEF TypeOK
  <1>2. Hands'  BY DEF TypeOK, Hands, Reconciling
  <1>3. Numbered'  BY DEF TypeOK, Numbered
  <1>4. Ordered'  BY DEF TypeOK, Ordered, Sorted
  <1>5. Current'  BY DEF TypeOK, Current
  <1>6. QED  BY <1>1, <1>2, <1>3, <1>4, <1>5

\* The terminal publish comes after the pump has gone.
LEMMA TeardownEndsKeeps == ASSUME PumpInv, TeardownEnds PROVE PumpInv'
  <1> USE PumpAssumption DEF PumpInv, TeardownEnds, engine, channel, locals
  <1>1. TypeOK'  BY DEF TypeOK, VpnStates
  <1>2. Hands'  BY DEF TypeOK, Hands, Reconciling
  <1>3. Numbered'  BY DEF TypeOK, Numbered
  <1>4. Ordered'  BY DEF TypeOK, Ordered, Sorted
  <1>5. Current'  BY DEF TypeOK, Current
  <1>6. QED  BY <1>1, <1>2, <1>3, <1>4, <1>5

\* Nothing has been reported, queued or shown.
LEMMA PumpStarts == Init => PumpInv
  <1> SUFFICES ASSUME Init PROVE PumpInv  OBVIOUS
  <1> USE PumpAssumption DEF Init
  <1>1. TypeOK
    <2>1. <<>> \in Seq(EngineStates) /\ <<>> \in Seq(Events) /\ Len(<<>>) = 0  OBVIOUS
    <2>2. /\ states \in Seq(EngineStates) /\ queue \in Seq(Events)
          /\ Len(states) = 0 /\ Len(queue) = 0
      BY <2>1
    <2>3. stats \in 0..MaxStats /\ watermark \in 0..drops /\ shown \in 0..Len(states)
      BY <2>1
    <2>4. event \in Events /\ pending \in Events  BY QueuedEvents
    <2>5. Len(states) <= MaxStates /\ Len(queue) <= Bound  BY <2>2
    <2>6. QED  BY Zenon, <2>2, <2>3, <2>4, <2>5 DEF TypeOK, VpnStates
  <1>2. Hands  BY DEF Hands, Reconciling
  <1>3. Numbered /\ Ordered /\ Current
    BY QueuedEvents DEF Numbered, Ordered, Sorted, Current
  <1>4. QED  BY <1>1, <1>2, <1>3 DEF PumpInv

\* Every step of the callback thread, the pump and a teardown keeps the order.
LEMMA PumpStep == ASSUME PumpInv, [Next]_vars PROVE PumpInv'
  <1>1. CASE Callback
    BY <1>1, ForwardStateKeeps, NoteStateDropKeeps, RetainFatalKeeps DEF Callback
  <1>2. CASE Pump
    BY <1>2, ReceiveKeeps, QuietCadenceKeeps, ReceiveEndsKeeps, TakeCriticalKeeps,
       CheckDropsKeeps, PublishLatestKeeps, ProcessKeeps, ProbeKeeps, ClaimKeeps,
       CloseKeeps DEF Pump
  <1>3. CASE Teardown
    BY <1>3, TeardownPublishesKeeps, TeardownStopsKeeps, TeardownEndsKeeps DEF Teardown
  <1>4. CASE OnStateChanged \/ ForwardStats \/ ForwardFatal \/ EngineExits \/ TeardownRetires
    BY <1>4, OnStateChangedKeeps, ForwardStatsKeeps, ForwardFatalKeeps,
       EngineExitsKeeps, TeardownRetiresKeeps
  <1>5. CASE UNCHANGED vars
    <2> USE <1>5 DEF vars, engine, channel, locals, PumpInv
    <2>1. TypeOK'  BY DEF TypeOK
    <2>2. Hands'  BY DEF Hands, Reconciling
    <2>3. Numbered' /\ Ordered' /\ Current'  BY DEF Numbered, Ordered, Current
    <2>4. QED  BY <2>1, <2>2, <2>3
  <1>6. QED  BY <1>1, <1>2, <1>3, <1>4, <1>5 DEF Next

\* The invariant of the event path.
THEOREM PumpInvariant == Spec => []PumpInv
  <1>1. Init => PumpInv  BY PumpStarts
  <1>2. PumpInv /\ [Next]_vars => PumpInv'  BY PumpStep
  <1>3. QED  BY <1>1, <1>2, PTL DEF Spec

\* Only the snapshot and an unsuppressed state change what is shown.
LEMMA NothingOlderIsShown ==
    ASSUME PumpInv, Next PROVE NeverShowsOlder /\ RetiredPumpIsSilent
  <1> USE DEF NeverShowsOlder, RetiredPumpIsSilent, PumpInv
  <1>0. shown \in Nat  BY DEF TypeOK
  <1>1. CASE PublishLatest
    <2>1. slot  BY <1>1 DEF PublishLatest, Hands
    <2>2. shown' \in {shown, Len(states)}  BY <1>1 DEF PublishLatest, Publish
    <2>3. shown <= Len(states)  BY DEF TypeOK
    <2>4. QED  BY <1>0, <2>1, <2>2, <2>3
  <1>2. CASE Process
    <2>1. CASE IsState(event) /\ ~suppressed
      <3>1. slot /\ shown' = event.n /\ shown <= event.n
        BY <1>2, <2>1 DEF Process, Publish, suppressed, IsState, Current
      <3>2. QED  BY <3>1
    <2>2. CASE UNCHANGED <<core, shown>>  BY <1>0, <2>2
    <2>3. QED  BY <1>2, <2>1, <2>2 DEF Process, IsState
  <1>3. CASE \/ Callback \/ OnStateChanged \/ ForwardStats \/ ForwardFatal
             \/ EngineExits \/ TeardownRetires
    <2>1. UNCHANGED <<core, shown>>
      BY <1>3 DEF Callback, ForwardState, NoteStateDrop, RetainFatal, OnStateChanged,
         ForwardStats, ForwardFatal, EngineExits, TeardownRetires, locals
    <2>2. QED  BY <1>0, <2>1
  <1>4. CASE Teardown
    <2>1. shown' = shown /\ core' \in {core, "Disconnecting", "Disconnected"}
      BY <1>4 DEF Teardown, TeardownPublishes, TeardownStops, TeardownEnds, locals
    <2>2. QED  BY <1>0, <2>1
  <1>5. CASE Pump /\ ~PublishLatest /\ ~Process
    <2>1. shown' = shown /\ core' \in {core, "Disconnected"}
      BY <1>5 DEF Pump, Receive, QuietCadence, ReceiveEnds, TakeCritical, CheckDrops,
         Probe, Claim, Close, locals
    <2>2. QED  BY <1>0, <2>1
  <1>6. QED  BY <1>1, <1>2, <1>3, <1>4, <1>5 DEF Next, Pump

\* Rounds 14 to 38, for every queue bound, every set of engine states and every
\* number of them: whatever a full queue dropped, the pump never shows an older
\* state than it has shown, and shows none once the slot is retired.
THEOREM ShownAdvances == Spec => ShownOnlyAdvances
  <1>1. PumpInv /\ PumpInv' /\ [Next]_vars
          => [TypeOK' /\ NeverShowsOlder /\ RetiredPumpIsSilent]_vars
    BY NothingOlderIsShown DEF PumpInv
  <1>2. QED  BY <1>1, PumpInvariant, PTL DEF Spec, ShownOnlyAdvances

=============================================================================

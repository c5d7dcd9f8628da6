-------------------------- MODULE SelectionEngine --------------------------
(***************************************************************************)
(* Concurrent select requests over the state the daemon's selection engine  *)
(* shares between them (apps/daemon/src/selection.rs): the entitlement cell *)
(* with its single-flight slot and its cached snapshot, the probe table     *)
(* with its revision and its attempt clocks, and the active-revision        *)
(* watermark. The planner and the executor are crates/core/src/probe.rs.    *)
(* What a request is answered is the concern of SelectionPlane.             *)
(*                                                                         *)
(* A catalog is its body, an etag naming that body, and the second it was   *)
(* fetched. The probe clock counts half intervals; a request lives less     *)
(* than one (9 s against 60 s), so it sees the clock move at most once, and *)
(* the catalog change at most once (the scheduler's floor is longer still). *)
(***************************************************************************)
EXTENDS Integers, FiniteSetsExt, SequencesExt

CONSTANTS Requests,            \* the sessions' worker threads
          Endpoints,           \* logical ids, in shortlist order
          Bodies,
          Laps,                \* seconds between the stamps of successive catalogs
          MAX_PROBES, INTERVAL, REUSE,
          Worlds               \* how much of each kind of event a behaviour has

VARIABLES world,
          generation,   \* adapter installs so far; 0: the cell is empty
          slot,         \* the parked worker, 0 for none
          workers,      \* every fetch ever spawned
          cached,       \* the generation the cached snapshot was composed for
          catalog,
          refreshes,    \* catalogs stored so far
          seq,          \* catalog_read_seq
          active,       \* the watermark: sequence and revision key
          table,        \* the probe table: revision, fetched_unix, state
          clock,
          request,
          probed        \* when each endpoint of each body was last reserved and tried

vars == <<world, generation, slot, workers, cached, catalog, refreshes, seq, active,
          table, clock, request, probed>>

entitlement == <<generation, slot, workers, cached>>
probes == <<active, table, probed>>

ToIds == ToSet(Endpoints)

\* World: the requests, adapter installs, catalog refreshes and clock ticks of
\* a behaviour, and whether its requests rank by latency.
World(requests, installs, refreshed, ticks, latency) ==
    [requests |-> requests, installs |-> installs, refreshes |-> refreshed,
     ticks |-> ticks, latency |-> latency]

Nothing == <<>>

NoKey == 0

Idle == [pc |-> "idle", seq |-> 0, catalog |-> Nothing, worker |-> 0,
         aged |-> FALSE, outdated |-> FALSE,
         start |-> 0, stale |-> FALSE, prior |-> Nothing, decisions |-> Nothing,
         attempted |-> {}, answered |-> {}, observed |-> Nothing]

Init ==
    /\ world \in Worlds
    /\ generation = 0 /\ slot = 0 /\ workers = <<>> /\ cached = 0
    /\ catalog \in [body : Bodies, fetched : {1}]
    /\ refreshes = 0 /\ seq = 0
    /\ active = [seq |-> 0, key |-> NoKey]
    /\ table = [revision |-> NoKey, fetched |-> 0, state |-> Nothing]
    /\ clock = 0
    /\ request = [r \in Requests |-> Idle]
    /\ probed = [x \in ToIds \X Bodies |-> -INTERVAL]

At(r, pc) == request[r].pc = pc

Go(r, changes) == request' = [request EXCEPT ![r] = changes @@ @]

Answer(r) == request' = [request EXCEPT ![r] = Idle]

-----------------------------------------------------------------------------
(* The world around the engine.                                             *)

\* The session lane installs an adapter: the adapter, the generation, the
\* slot and the cached snapshot change in one step, under the transition lock.
install ==
    /\ generation < world.installs
    /\ generation' = generation + 1
    /\ slot' = 0 /\ cached' = 0
    /\ UNCHANGED <<world, workers, catalog, refreshes, seq, clock, request, probes>>

\* The scheduler stores another catalog.
Refresh ==
    /\ refreshes < world.refreshes
    /\ \A r \in Requests : ~request[r].outdated
    /\ \E body \in Bodies, lap \in Laps :
        catalog' = [body |-> body, fetched |-> catalog.fetched + lap]
    /\ catalog' # catalog
    /\ refreshes' = refreshes + 1
    /\ request' = [r \in Requests |-> [request[r] EXCEPT !.outdated = ~At(r, "idle")]]
    /\ UNCHANGED <<world, entitlement, seq, clock, probes>>

Tick ==
    /\ clock < world.ticks
    /\ \A r \in Requests : ~request[r].aged
    /\ clock' = clock + 1
    /\ request' = [r \in Requests |-> [request[r] EXCEPT !.aged = ~At(r, "idle")]]
    /\ UNCHANGED <<world, entitlement, catalog, refreshes, seq, probes>>

\* A worker's fetch returns, whoever still waits for it.
Fetch ==
    \E w \in DOMAIN workers, outcome \in {"Active", "Unusable", "Failed"} :
        /\ workers[w].outcome = ""
        /\ workers' = [workers EXCEPT ![w].outcome = outcome]
        /\ UNCHANGED <<world, generation, slot, cached, catalog, refreshes, seq, clock,
                       request, probes>>

-----------------------------------------------------------------------------
(* A request.                                                               *)

\* resolve() passes its boundary checks and stamps the read sequence.
resolve(r) ==
    /\ At(r, "idle") /\ seq < world.requests
    /\ seq' = seq + 1
    /\ Go(r, [pc |-> "stamped", seq |-> seq + 1])
    /\ UNCHANGED <<world, entitlement, catalog, refreshes, clock, probes>>

\* The strict load, which may also fail or find nothing.
cached_catalog(r) ==
    /\ At(r, "stamped")
    /\ \/ Go(r, [pc |-> "loaded", catalog |-> catalog])
       \/ Answer(r)
    /\ UNCHANGED <<world, entitlement, catalog, refreshes, seq, clock, probes>>

\* An empty cell composes nothing. Otherwise the slot of this generation is
\* shared, or a worker is spawned and parked, under the transition lock.
single_flight_slot(r) ==
    /\ At(r, "loaded")
    /\ LET parked == slot # 0 /\ workers[slot].generation = generation
           fresh == [generation |-> generation, outcome |-> ""]
       IN \/ /\ generation = 0
             /\ Go(r, [pc |-> "composed"])
             /\ UNCHANGED <<slot, workers>>
          \/ /\ generation # 0 /\ parked
             /\ Go(r, [pc |-> "waiting", worker |-> slot])
             /\ UNCHANGED <<slot, workers>>
          \/ /\ generation # 0 /\ ~parked
             /\ workers' = Append(workers, fresh)
             /\ slot' = Len(workers')
             /\ Go(r, [pc |-> "waiting", worker |-> slot'])
    /\ UNCHANGED <<world, generation, cached, catalog, refreshes, seq, clock, probes>>

clear_single_flight_Any(w) == slot' = 0

\* Only the slot whose outcome this waiter consumed is cleared.
clear_single_flight(w) == slot' = IF slot = w THEN 0 ELSE slot

\* The outcome landed: the waiter consumes it and clears its slot.
wait_for_outcome(r) ==
    /\ At(r, "waiting") /\ workers[request[r].worker].outcome # ""
    /\ clear_single_flight(request[r].worker)
    /\ Go(r, [pc |-> "landed"])
    /\ UNCHANGED <<world, generation, workers, cached, catalog, refreshes, seq, clock, probes>>

\* The budget ran out first: the request is refused and the slot stays.
budget_timeout(r) ==
    /\ At(r, "waiting") /\ workers[request[r].worker].outcome = ""
    /\ Answer(r)
    /\ UNCHANGED <<world, entitlement, catalog, refreshes, seq, clock, probes>>

\* The re-check of the generation and the write of the snapshot, under the
\* transition lock: a failed read keeps the snapshot, an unusable answer
\* withdraws it.
entitlement_composition(r) ==
    /\ At(r, "landed")
    /\ LET w == workers[request[r].worker]
           current == w.generation = generation
       IN \/ /\ current /\ w.outcome = "Active"
             /\ cached' = w.generation
             /\ Go(r, [pc |-> "composed"])
          \/ /\ current /\ w.outcome = "Unusable"
             /\ cached' = 0
             /\ Answer(r)
          \/ /\ ~current \/ w.outcome = "Failed"
             /\ UNCHANGED cached
             /\ Answer(r)
    /\ UNCHANGED <<world, generation, slot, workers, catalog, refreshes, seq, clock, probes>>

\* The gates refuse, or the ranking needs no latency, or a probe round starts
\* and records its revision under its read sequence.
note_active(r) ==
    /\ At(r, "composed")
    /\ \/ Answer(r) /\ UNCHANGED active
       \/ /\ world.latency
          /\ Go(r, [pc |-> "noted"])
          /\ active' = IF request[r].seq >= active.seq
                       THEN [seq |-> request[r].seq, key |-> request[r].catalog.body]
                       ELSE active
    /\ UNCHANGED <<world, entitlement, catalog, refreshes, seq, clock, table, probed>>

\* plan_run: fresh observations are reused, recent attempts are left alone,
\* and the rest are probed until the cap.
plan_run(state, now) ==
    LET age(t) == Max({0, now - t})
        wanted(e) ==
            IF e \notin DOMAIN state THEN "Probe"
            ELSE IF state[e].observation # Nothing /\ age(state[e].observed_at) < REUSE
            THEN "Reuse"
            ELSE IF age(state[e].last_attempt) < INTERVAL THEN "RateLimited" ELSE "Probe"
        before(i) == Cardinality({j \in 1 .. i - 1 : wanted(Endpoints[j]) = "Probe"})
    IN [i \in DOMAIN Endpoints |->
            IF wanted(Endpoints[i]) = "Probe" /\ before(i) >= MAX_PROBES
            THEN "RateLimited" ELSE wanted(Endpoints[i])]

\* The endpoints a plan decided to probe.
Planned(decisions) == {Endpoints[i] : i \in {j \in DOMAIN decisions : decisions[j] = "Probe"}}

Unknown == [observation |-> Nothing, observed_at |-> 0, last_attempt |-> 0]

Row(state, e) == IF e \in DOMAIN state THEN state[e] ELSE Unknown

\* The table was stamped under a newer catalog, or under another one of the
\* same second while this one is not the latest read.
StaleRound(held, key, fetched, watermark) ==
    \/ held.fetched > fetched
    \/ /\ held.fetched = fetched
       /\ held.revision \notin {NoKey, key}
       /\ watermark # key

reserve_Nothing(state, planned, now) == state

\* Reserving advances the attempt clock of every endpoint to be probed.
reserve(state, planned, now) ==
    [e \in planned |-> [Row(state, e) EXCEPT !.last_attempt = now]] @@ state

\* Reconcile, plan and reserve are one lock section. A stale round plans over
\* an empty view and leaves the table alone.
probe_round(r) ==
    /\ At(r, "noted")
    /\ LET key == request[r].catalog.body
           fetched == request[r].catalog.fetched
           stale == StaleRound(table, key, fetched, active.key)
           kept == table.revision = key
           state == IF stale \/ ~kept THEN Nothing ELSE table.state
           decisions == plan_run(state, clock)
       IN /\ table' = IF stale THEN table
                      ELSE [revision |-> key,
                            fetched |-> IF kept THEN table.fetched ELSE fetched,
                            state |-> reserve(state, Planned(decisions), clock)]
          /\ Go(r, [pc |-> "planned", start |-> clock, stale |-> stale,
                    prior |-> state, decisions |-> decisions])
    /\ UNCHANGED <<world, entitlement, catalog, refreshes, seq, clock, active, probed>>

\* run_planned: the endpoints are taken in order until the deadline, which
\* cuts the rest of the list, and any of the tried may not answer.
run_planned(r) ==
    /\ At(r, "planned")
    /\ LET q == request[r]
           body == q.catalog.body
           upto(n) == SubSeq(Endpoints, 1, n)
           planned == Planned(q.decisions)
       IN \E cut \in 0 .. Len(Endpoints) :
            LET reached == ToSet(upto(cut))
                tried == planned \cap reached
                carried == {e \in reached \ planned : Row(q.prior, e).observation # Nothing}
            IN /\ cut < Len(Endpoints) => Endpoints[cut + 1] \in planned
               /\ \E answered \in SUBSET tried :
                    Go(r, [pc |-> "executed", attempted |-> tried, answered |-> answered,
                           observed |-> [e \in answered |-> <<body>>]
                                        @@ [e \in carried |-> q.prior[e].observation]])
               /\ probed' = [x \in DOMAIN probed |->
                                IF ~q.stale /\ x[1] \in tried /\ x[2] = body
                                THEN q.start ELSE probed[x]]
    /\ UNCHANGED <<world, entitlement, catalog, refreshes, seq, clock, active, table>>

\* Release what was reserved and never tried: the clock before the round, or
\* no row at all.
release(state, unused, prior) ==
    [e \in (DOMAIN state \ unused) \cup (unused \cap DOMAIN prior \cap DOMAIN state) |->
        IF e \in unused THEN [state[e] EXCEPT !.last_attempt = prior[e].last_attempt]
        ELSE state[e]]

\* Record the answers, of the answer's own time.
record(state, answered, body, now) ==
    [e \in answered |-> [Row(state, e) EXCEPT !.observation = <<body>>,
                                              !.observed_at = now]] @@ state

\* The write-back, dropped when the table moved on, and the reply.
write_back(r) ==
    /\ At(r, "executed")
    /\ LET q == request[r]
           unused == Planned(q.decisions) \ q.attempted
           released == release(table.state, unused, q.prior)
       IN table' = IF q.stale \/ table.revision # q.catalog.body THEN table
                   ELSE [table EXCEPT !.state =
                            record(released, q.answered, q.catalog.body, clock)]
    /\ Answer(r)
    /\ UNCHANGED <<world, entitlement, catalog, refreshes, seq, clock, active, probed>>

Step(r) ==
    \/ cached_catalog(r)
    \/ single_flight_slot(r)
    \/ wait_for_outcome(r)
    \/ budget_timeout(r)
    \/ entitlement_composition(r)
    \/ note_active(r)
    \/ probe_round(r)
    \/ run_planned(r)
    \/ write_back(r)

Next ==
    \/ install
    \/ Refresh
    \/ Tick
    \/ Fetch
    \/ \E r \in Requests : resolve(r) \/ Step(r)

Spec == Init /\ [][Next]_vars

-----------------------------------------------------------------------------

\* The snapshot the network-free listing reads was composed for the session
\* installed now: no reply that was under way when the account was replaced
\* writes the old account's tier back (install, entitlement_composition).
SnapshotIsOfThisSession == cached \in {0, generation}

\* One session never has two fetches running, whatever waiters time out,
\* land late or clear (single_flight_slot, clear_single_flight).
OneFetchPerSession ==
    \A v, w \in DOMAIN workers :
        /\ workers[v].outcome = "" /\ workers[w].outcome = ""
        /\ workers[v].generation = workers[w].generation
        => v = w

\* An observation in the table was measured against the catalog the table is
\* stamped with, and the ones a request ranks by against the catalog the
\* request loaded, across refreshes in mid-round (probe_round).
ObservationsFitTheirCatalog ==
    /\ \A e \in DOMAIN table.state :
        table.state[e].observation \in {Nothing, <<table.revision>>}
    /\ \A r \in Requests : \A e \in DOMAIN request[r].observed :
        request[r].observed[e] = <<request[r].catalog.body>>

\* Two rounds that reserve in the table never both try an endpoint of one
\* catalog within the interval (the reservation of probe_round).
ReservedOncePerInterval ==
    \A x \in DOMAIN probed :
        probed'[x] # probed[x] => probed'[x] - probed[x] >= INTERVAL

\* With no round running, an attempt clock is the time of an attempt: a round
\* cut by its deadline leaves no endpoint rate-limited that was not tried
\* (the release of the write-back).
ClocksAreOfAttempts ==
    (\A r \in Requests : request[r].pc \notin {"planned", "executed"}) =>
        \A e \in DOMAIN table.state :
            table.state[e].last_attempt = probed[<<e, table.revision>>]
=============================================================================

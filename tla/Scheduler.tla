----------------------------- MODULE Scheduler -----------------------------
(***************************************************************************)
(* The single-flight catalog-refresh scheduler                             *)
(* (crates/core/src/scheduler.rs), its durable deadline document           *)
(* (crates/store/src/deadlines.rs), the automatic driver thread            *)
(* (apps/daemon/src/lib.rs) and the process lifecycle around them          *)
(* (apps/daemon/src/main.rs).                                              *)
(*                                                                         *)
(* Every section the code runs under the scheduler mutex is one action.    *)
(* A crash inside such a section leaves on disk what a failed last save    *)
(* followed by a crash leaves, so crashes are taken between actions only.  *)
(* Diagnostics that decide nothing (counters, interval source, success     *)
(* age, the rollback flag) are left out.                                   *)
(***************************************************************************)
EXTENDS Integers

CONSTANTS
    Driver,        \* the catalog-auto-refresh thread
    Clients,       \* session threads serving ServersRefresh
    Floor,         \* FRESHNESS_FLOOR_SECONDS
    Interval,      \* SchedulerConfig::refresh_interval_seconds
    MaxJitter,     \* SchedulerConfig::max_positive_jitter_seconds
    RetryAfters,   \* the Retry-After delays the upstream may send
    TokenTTL,      \* CONFIRMATION_TOKEN_TTL_SECONDS
    U64Max,        \* where the saturating additions stop
    MaxWall,       \* bound: the wall clock stays in 0..MaxWall
    MaxLeads,      \* bound: no call starts after this many leads in a boot
    MaxTokens,     \* bound: confirmation ceremonies held
    MaxBoots,      \* bound: times the process starts
    MayStop,       \* bound: whether a shutdown is ever requested
    MaxRevision    \* bound: catalog revisions the upstream publishes

Threads == Clients \cup {Driver}

\* SchedulerConfig::new refuses an interval below the floor.
ASSUME SchedulerConfigValid ==
    /\ Driver \notin Clients
    /\ Floor \in Nat /\ Interval \in Nat /\ Interval >= Floor
    /\ MaxJitter \in Nat /\ TokenTTL \in Nat
    /\ RetryAfters \subseteq Nat
    /\ U64Max \in Nat /\ MaxWall \in 0..U64Max
    /\ MaxLeads \in Nat /\ MaxTokens \in Nat /\ MaxBoots \in Nat
    /\ MaxRevision \in Nat /\ MayStop \in BOOLEAN

Time == 0..U64Max

\* An absent Option. Where the code reads None exactly as it reads 0
\* (next_eligible, suppression, a token, an etag), the model writes 0.
None == -1

MaxOf(a, b) == IF a >= b THEN a ELSE b

saturating_add(a, b) == IF a + b > U64Max THEN U64Max ELSE a + b

\* SchedulerDeadlines, the persisted document.
Deadlines == [last_request  : Time \cup {None},
              next_eligible : Time,
              suppression   : Time,
              high_water    : Time]

NoToken == [id |-> 0, expires |-> 0]

NoDeadlines == [last_request |-> None, next_eligible |-> 0,
                suppression |-> 0, high_water |-> 0]

VARIABLES
    wall,         \* the wall clock; it may jump either way
    daemon,       \* "running", "stopping", "exited" or "down"
    boots,        \* times the process has started
    disk,         \* deadlines.json as the last successful save left it
    cache,        \* the etag servers.json durably holds (0: none)
    upstream,     \* the etag of the server's current revision
    persisted,    \* Inner::persisted
    healthy,      \* Inner::persistence_healthy
    generation,   \* Inner::generation
    in_flight,    \* Inner::in_flight (0: None)
    completed,    \* the generation Inner::completed reports on (0: None)
    token,        \* Inner::token (id 0: None)
    etag,         \* Inner::etag (0: None)
    pc,           \* where each thread is
    seen,         \* the generation a joiner waits for, or a leader leads
    started,      \* the leader's started.effective
    sent,         \* the etag the leader's request carries
    resp,         \* the response the leader holds
    arg,          \* the token a manual call presents (0: none)
    held,         \* the token each client was handed last
    minted,       \* confirmation tokens minted so far
    last_contact, \* history: started.effective of the last upstream request
    gate,         \* history: the effective time the leader's gate read
    override,     \* history: the lead was authorised by a token
    redeemed,     \* history: the tokens that have authorised a lead
    promised      \* history: greatest suppression this process must honour

vars == <<wall, daemon, boots, disk, cache, upstream, persisted, healthy,
          generation, in_flight, completed, token, etag, pc, seen, started,
          sent, resp, arg, held, minted, last_contact, gate, override,
          redeemed, promised>>

stores == <<disk, cache>>
inner == <<persisted, healthy, generation, in_flight, completed, token, etag>>
flight == <<started, sent, resp, gate, override>>
clients == <<arg, held, minted, redeemed>>
process == <<daemon, boots>>

Responses == [kind : {"none", "changed", "garbage", "notModified",
                      "rateLimited", "failed"},
              delay : RetryAfters \cup {None},
              rev : Nat]

NoResponse == [kind |-> "none", delay |-> None, rev |-> 0]

\* Pcs a leader goes through: the anchor is durable, the request is on the
\* wire, the response has arrived; or the fetch was refused.
Contacting == {"anchored", "fetching", "responded"}
Leading == Contacting \cup {"refused"}

Alive == daemon \in {"running", "stopping"}

\* A clock reading clamped to the high-water mark: the effective time.
effective_Unclamped(reading) == reading

effective(reading) == MaxOf(reading, persisted.high_water)

observe_now == effective(wall)

-----------------------------------------------------------------------------
\* FR-13D's greatest-of: [next_eligible, suppression] of one attempt.
next_deadline(origin, now, rate_limited, delay, jitter) ==
    LET span == MaxOf(Interval, Floor)
        raw0 == saturating_add(origin, span)
        raw  == IF delay = None THEN raw0
                ELSE MaxOf(raw0, saturating_add(now, delay))
    IN  [next_eligible |-> saturating_add(raw, jitter),
         suppression   |-> IF rate_limited THEN raw ELSE 0]

\* The window a restart may always reconstruct from the request time.
rederive_crash_pacing_Skipped(doc) == doc

rederive_crash_pacing(doc) ==
    IF doc.last_request = None THEN doc
    ELSE [doc EXCEPT !.next_eligible =
             MaxOf(@, saturating_add(doc.last_request, Floor))]

-----------------------------------------------------------------------------
Init ==
    /\ wall \in 0..MaxWall
    /\ daemon = "down" /\ boots = 0
    /\ disk = NoDeadlines /\ cache = 0 /\ upstream = 1
    /\ persisted = NoDeadlines /\ healthy = TRUE
    /\ generation = 0 /\ in_flight = 0 /\ completed = 0
    /\ token = NoToken /\ etag = 0
    /\ pc = [t \in Threads |-> "idle"]
    /\ seen = [t \in Threads |-> 0]
    /\ started = [t \in Threads |-> 0]
    /\ sent = [t \in Threads |-> 0]
    /\ resp = [t \in Threads |-> NoResponse]
    /\ arg = [t \in Threads |-> 0]
    /\ held = [c \in Clients |-> 0]
    /\ minted = 0 /\ redeemed = {}
    /\ last_contact = None
    /\ gate = [t \in Threads |-> 0]
    /\ override = [t \in Threads |-> FALSE]
    /\ promised = 0

\* The machine's clock is set, steps, or drifts: any reading may come next.
ClockMoves ==
    /\ \E w \in 0..MaxWall : w # wall /\ wall' = w
    /\ UNCHANGED <<process, stores, upstream, inner, pc, seen, flight,
                   clients, last_contact, promised>>

\* The server publishes another revision.
UpstreamPublishes ==
    /\ upstream < MaxRevision
    /\ upstream' = upstream + 1
    /\ UNCHANGED <<wall, process, stores, inner, pc, seen, flight, clients,
                   last_contact, promised>>

\* A new Inner over the given document and etag; no thread is in a call.
FreshInner(doc, tag) ==
    /\ persisted' = doc
    /\ healthy' = TRUE
    /\ generation' = 0 /\ in_flight' = 0 /\ completed' = 0
    /\ token' = NoToken
    /\ etag' = tag
    /\ pc' = [t \in Threads |-> "idle"]
    /\ seen' = [t \in Threads |-> 0]
    /\ started' = [t \in Threads |-> 0]
    /\ sent' = [t \in Threads |-> 0]
    /\ resp' = [t \in Threads |-> NoResponse]
    /\ arg' = [t \in Threads |-> 0]
    /\ gate' = [t \in Threads |-> 0]
    /\ override' = [t \in Threads |-> FALSE]

\* Scheduler::production: strict loads, the re-derived floor, a fresh Inner.
production ==
    /\ daemon \in {"down", "exited"}
    /\ boots < MaxBoots
    /\ boots' = boots + 1
    /\ daemon' = "running"
    /\ FreshInner(rederive_crash_pacing(disk), cache)
    /\ promised' = disk.suppression
    /\ UNCHANGED <<wall, stores, upstream, held, minted, redeemed,
                   last_contact>>

\* The process dies; only what the two stores hold survives.
Crash ==
    /\ Alive
    /\ daemon' = "down"
    /\ FreshInner(NoDeadlines, 0)
    /\ promised' = 0
    /\ UNCHANGED <<wall, boots, stores, upstream, held, minted, redeemed,
                   last_contact>>

\* An administrator's Shutdown or a terminating signal sets the stop flag.
RequestStop ==
    /\ MayStop
    /\ daemon = "running"
    /\ daemon' = "stopping"
    /\ UNCHANGED <<wall, boots, stores, upstream, inner, pc, seen, flight,
                   clients, last_contact, promised>>

\* run returns: serve() has joined its sessions or abandoned them at
\* DRAIN_CEILING, and the refresh driver has been joined.
ExitAfterServe ==
    /\ daemon = "stopping"
    /\ pc[Driver] = "stopped"
    /\ daemon' = "exited"
    /\ UNCHANGED <<wall, boots, stores, upstream, inner, pc, seen, flight,
                   clients, last_contact, promised>>

-----------------------------------------------------------------------------
\* due.saturating_sub(now_unix()) is zero, on the driver's unclamped clock.
no_wait_left == persisted.next_eligible <= wall

\* One pass of automatic_refresh_driver's loop that finds no wait left.
DriverFindsDue ==
    /\ daemon = "running"
    /\ pc[Driver] = "idle" /\ generation < MaxLeads
    /\ no_wait_left
    /\ pc' = [pc EXCEPT ![Driver] = "calling"]
    /\ UNCHANGED <<wall, process, stores, upstream, inner, seen, flight,
                   clients, last_contact, promised>>

\* The loop (or its sliced sleep) sees the stop flag.
DriverStops ==
    /\ daemon = "stopping"
    /\ pc[Driver] = "idle"
    /\ pc' = [pc EXCEPT ![Driver] = "stopped"]
    /\ UNCHANGED <<wall, process, stores, upstream, inner, seen, flight,
                   clients, last_contact, promised>>

\* A ServersRefresh request reaches refresh_manual, with or without the
\* token its client was last handed.
ServersRefresh(c) ==
    /\ daemon = "running"
    /\ pc[c] = "idle" /\ generation < MaxLeads
    /\ \E a \in {0, held[c]} : arg' = [arg EXCEPT ![c] = a]
    /\ pc' = [pc EXCEPT ![c] = "calling"]
    /\ UNCHANGED <<wall, process, stores, upstream, inner, seen, flight,
                   held, minted, redeemed, last_contact, promised>>

\* Both doors join a refresh that is already running: wait on its generation.
Join(t) ==
    /\ Alive
    /\ pc[t] = "calling" /\ in_flight # 0
    /\ seen' = [seen EXCEPT ![t] = in_flight]
    /\ pc' = [pc EXCEPT ![t] = "parked"]
    /\ UNCHANGED <<wall, process, stores, upstream, inner, flight, clients,
                   last_contact, promised>>

\* A joiner's wait is over.
generation_left_LaterReport(t) == completed > seen[t]

generation_left(t) == in_flight # seen[t]

\* A joiner wakes once its generation has left the slot: it returns that
\* generation's report, or re-evaluates when `completed` is about another.
Wake(t) ==
    /\ Alive
    /\ pc[t] = "parked" /\ generation_left(t)
    /\ pc' = [pc EXCEPT ![t] = IF completed = seen[t] THEN "idle"
                               ELSE "calling"]
    /\ seen' = [seen EXCEPT ![t] = 0]
    /\ arg' = [arg EXCEPT ![t] = IF completed = seen[t] THEN 0 ELSE @]
    /\ UNCHANGED <<wall, process, stores, upstream, inner, flight, held,
                   minted, redeemed, last_contact, promised>>

\* A call returns without leading a refresh.
Return(t) ==
    /\ pc' = [pc EXCEPT ![t] = "idle"]
    /\ arg' = [arg EXCEPT ![t] = 0]
    /\ UNCHANGED <<wall, process, stores, upstream, persisted, healthy,
                   generation, in_flight, completed, etag, seen, flight,
                   redeemed, last_contact, promised>>

\* A call found (or, having joined, left) no refresh in flight.
may_lead_Unjoined(t) == pc[t] = "calling"

may_lead(t) == pc[t] = "calling" /\ in_flight = 0

\* deadlines.json after the bare save a degraded store owes and the anchor
\* save, given whether each of the two succeeds.
prefetch_disk(bare, anchor, doc) ==
    IF (healthy \/ bare) /\ anchor THEN doc
    ELSE IF ~healthy /\ bare THEN persisted
    ELSE disk

\* The anchor is durable: the fetch may go ahead.
fetch_allowed(bare, anchor) == (healthy \/ bare) /\ anchor

\* lead_refresh up to the point where it drops the lock: claim the next
\* generation, retry the bare save a degraded store owes, and make the
\* request time durable. A fetch whose anchor did not reach the disk is
\* refused. The clock is read afresh here and may have moved since the
\* caller's gate read it (`now`); `confirmed` says a token opened the gate.
lead_refresh(t, now, confirmed) ==
    \E bare, anchor \in BOOLEAN, reading \in 0..MaxWall :
        LET now2 == effective(reading)
            doc == [persisted EXCEPT !.last_request = now2,
                                     !.high_water = MaxOf(@, now2)]
            anchored == fetch_allowed(bare, anchor)
        IN  /\ wall' = reading
            /\ generation' = generation + 1
            /\ in_flight' = generation + 1
            /\ persisted' = doc
            /\ healthy' = anchored
            /\ disk' = prefetch_disk(bare, anchor, doc)
            /\ seen' = [seen EXCEPT ![t] = generation + 1]
            /\ started' = [started EXCEPT ![t] = now2]
            /\ sent' = [sent EXCEPT ![t] = etag]
            /\ gate' = [gate EXCEPT ![t] = now]
            /\ override' = [override EXCEPT ![t] = confirmed]
            /\ pc' = [pc EXCEPT ![t] = IF anchored THEN "anchored"
                                       ELSE "refused"]
            /\ arg' = [arg EXCEPT ![t] = 0]
            /\ UNCHANGED <<process, cache, upstream, completed, etag,
                           resp, held, minted, last_contact, promised>>

\* The automatic door: only the driver calls it.
refresh_automatic ==
    /\ Alive
    /\ may_lead(Driver)
    /\ LET now == observe_now
           due == now >= persisted.next_eligible /\ now >= persisted.suppression
       IN  \/ /\ ~due
              /\ Return(Driver)
              /\ UNCHANGED <<token, held, minted>>
           \/ /\ due
              /\ lead_refresh(Driver, now, FALSE)
              /\ UNCHANGED <<token, redeemed>>

\* mint_requirement: a fresh token replaces any outstanding one. A failing
\* CSPRNG stores nothing (ManualOutcome::Unavailable).
ceremony(c, now) ==
    /\ Return(c)
    /\ \/ UNCHANGED <<token, held, minted>>
       \/ /\ minted < MaxTokens
          /\ minted' = minted + 1
          /\ token' = [id |-> minted + 1,
                       expires |-> saturating_add(now, TokenTTL)]
          /\ held' = [held EXCEPT ![c] = minted + 1]

\* A presented token opens an early refresh when it is the pending one and
\* has not expired.
redeemable(value, now) ==
    /\ value # 0
    /\ token.id = value
    /\ now <= token.expires

\* Redeeming burns the token, whatever becomes of the attempt.
redeem(pending) == NoToken

\* The manual door: suppression refuses outright, a due window leads, an
\* early call needs a redeemable token, which the attempt burns.
refresh_manual(c) ==
    /\ Alive
    /\ may_lead(c)
    /\ LET now == observe_now
           due == now >= persisted.next_eligible
       IN  \/ /\ now < persisted.suppression
              /\ Return(c)
              /\ UNCHANGED <<token, held, minted>>
           \/ /\ now >= persisted.suppression /\ due
              /\ lead_refresh(c, now, FALSE)
              /\ UNCHANGED <<token, redeemed>>
           \/ /\ now >= persisted.suppression /\ ~due
              /\ redeemable(arg[c], now)
              /\ token' = redeem(token)
              /\ redeemed' = redeemed \cup {arg[c]}
              /\ lead_refresh(c, now, TRUE)
           \/ /\ now >= persisted.suppression /\ ~due
              /\ ~redeemable(arg[c], now)
              /\ ceremony(c, now)

-----------------------------------------------------------------------------
\* The fetch closure sends the request: the upstream has been contacted.
Fetch(t) ==
    /\ Alive
    /\ pc[t] = "anchored"
    /\ pc' = [pc EXCEPT ![t] = "fetching"]
    /\ last_contact' = started[t]
    /\ UNCHANGED <<wall, process, stores, upstream, inner, seen, flight,
                   clients, promised>>

\* What the upstream may answer to the request t sent. "garbage" is a body
\* the catalog model rejects; "failed" is a transport error or a panicking
\* bridge. A changed revision may come without an etag (rev 0), and
\* not-modified is the answer to a matching etag only.
Answers(t) ==
    {[kind |-> "changed", delay |-> None, rev |-> v] : v \in {0, upstream}}
    \cup {[kind |-> k, delay |-> None, rev |-> 0] : k \in {"garbage", "failed"}}
    \cup {[kind |-> "rateLimited", delay |-> d, rev |-> 0] :
             d \in RetryAfters \cup {None}}
    \cup (IF sent[t] = upstream
          THEN {[kind |-> "notModified", delay |-> None, rev |-> 0]} ELSE {})

Respond(t) ==
    /\ Alive
    /\ pc[t] = "fetching"
    /\ \E r \in Answers(t) : resp' = [resp EXCEPT ![t] = r]
    /\ pc' = [pc EXCEPT ![t] = "responded"]
    /\ UNCHANGED <<wall, process, stores, upstream, inner, seen, started,
                   sent, gate, override, clients, last_contact, promised>>

\* adopt_fetched_revision: a valid body counts only once the cache file
\* durably holds it.
adopt_fetched_revision_Unstored(r, stored) == r.kind = "changed"

adopt_fetched_revision(r, stored) == r.kind = "changed" /\ stored

\* A lingering suppression outlives a fresh deadline: the greater is kept,
\* and next_eligible never lies before it.
merge_deadline(doc, d, now) ==
    LET suppression == MaxOf(doc.suppression, d.suppression)
    IN  [doc EXCEPT !.next_eligible = MaxOf(d.next_eligible, suppression),
                    !.suppression = suppression,
                    !.high_water = MaxOf(@, now)]

\* lead_refresh after the fetch: take the lock again, compute the deadline,
\* adopt the revision, save, publish the report and release the joiners.
complete_refresh(t) ==
    /\ Alive
    /\ pc[t] \in {"responded", "refused"}
    /\ \E jitter \in 0..MaxJitter, stored, saved \in BOOLEAN :
        LET now == MaxOf(observe_now, started[t])
            r == resp[t]
            d == next_deadline(started[t], now, r.kind = "rateLimited",
                               r.delay, jitter)
            doc == merge_deadline(persisted, d, now)
            adopted == adopt_fetched_revision(r, stored)
        IN  /\ cache' = IF r.kind = "changed" /\ stored THEN r.rev ELSE cache
            /\ etag' = IF adopted THEN r.rev ELSE etag
            /\ persisted' = doc
            /\ disk' = IF saved THEN doc ELSE disk
            /\ healthy' = (healthy /\ saved)
            /\ promised' = MaxOf(promised, d.suppression)
    /\ completed' = seen[t]
    /\ in_flight' = 0
    /\ pc' = [pc EXCEPT ![t] = "idle"]
    /\ seen' = [seen EXCEPT ![t] = 0]
    /\ started' = [started EXCEPT ![t] = 0]
    /\ sent' = [sent EXCEPT ![t] = 0]
    /\ resp' = [resp EXCEPT ![t] = NoResponse]
    /\ gate' = [gate EXCEPT ![t] = 0]
    /\ override' = [override EXCEPT ![t] = FALSE]
    /\ UNCHANGED <<wall, process, upstream, generation, token, clients,
                   last_contact>>

-----------------------------------------------------------------------------
ThreadStep(t) == Join(t) \/ Wake(t) \/ Fetch(t) \/ Respond(t) \/ complete_refresh(t)

Next ==
    \/ ClockMoves \/ UpstreamPublishes
    \/ production \/ Crash \/ RequestStop \/ ExitAfterServe
    \/ DriverFindsDue \/ DriverStops \/ refresh_automatic
    \/ \E c \in Clients : ServersRefresh(c) \/ refresh_manual(c)
    \/ \E t \in Threads : ThreadStep(t)

Spec == Init /\ [][Next]_vars

\* Threads are scheduled, a fetch returns, and the driver's loop runs; the
\* clock, the clients, the upstream and crashes owe nothing.
Fairness ==
    /\ \A t \in Threads : WF_vars(ThreadStep(t))
    /\ \A c \in Clients : WF_vars(refresh_manual(c))
    /\ WF_vars(refresh_automatic) /\ WF_vars(DriverFindsDue)
    /\ WF_vars(DriverStops)

FairSpec == Spec /\ Fairness

-----------------------------------------------------------------------------
\* Every variable has the shape the code's types give it.
TypeOK ==
    /\ wall \in 0..MaxWall
    /\ daemon \in {"running", "stopping", "exited", "down"}
    /\ boots \in Nat /\ upstream \in Nat /\ cache \in Nat /\ etag \in Nat
    /\ disk \in Deadlines /\ persisted \in Deadlines
    /\ healthy \in BOOLEAN
    /\ generation \in Nat /\ in_flight \in Nat /\ completed \in Nat
    /\ token \in [id : Nat, expires : Time]
    /\ pc \in [Threads -> {"idle", "calling", "parked", "stopped"} \cup Leading]
    /\ seen \in [Threads -> Nat] /\ sent \in [Threads -> Nat]
    /\ started \in [Threads -> Time] /\ gate \in [Threads -> Time]
    /\ resp \in [Threads -> Responses]
    /\ override \in [Threads -> BOOLEAN]
    /\ arg \in [Threads -> Nat] /\ held \in [Clients -> Nat]
    /\ minted \in Nat /\ redeemed \subseteq Nat
    /\ last_contact \in Time \cup {None}
    /\ promised \in Time

\* T-25 single flight: at most one thread is between claiming a generation
\* and publishing its report, and the slot names that thread's generation.
SingleFlight ==
    \A t \in Threads : pc[t] \in Leading =>
        /\ in_flight = seen[t] /\ in_flight # 0
        /\ \A u \in Threads : pc[u] \in Leading => u = t

\* FR-13D/FR-13H: no refresh other than a confirmed manual override contacts
\* the upstream before the three-hour floor has passed since the request
\* before it, whatever crashes, restarts, failed saves and clock jumps lie
\* between the two.
FloorBetweenContacts ==
    \A t \in Threads :
        pc[t] = "anchored" /\ ~override[t] /\ last_contact # None
            => gate[t] >= saturating_add(last_contact, Floor)

\* ER-16/E2E-22: no door contacts the upstream before the greatest
\* suppression this process was given or loaded, not even with a token.
SuppressionHonoured ==
    \A t \in Threads : pc[t] \in Contacting => gate[t] >= promised

\* FR-13H: once the upstream has been contacted, the disk never again
\* forgets a request at least that recent.
ContactIsDurable ==
    last_contact # None => disk.last_request >= last_contact

\* The persistence-health gate: while the upstream is being contacted every
\* deadline in memory, suppression included, is on disk.
NothingUndurableWhileContacting ==
    \A t \in Threads : pc[t] \in Contacting => disk = persisted

\* The automatic door's window never opens inside a suppression, so a driver
\* that finds the window due is not refused for suppression and cannot spin.
EligibleCoversSuppression ==
    Alive => persisted.next_eligible >= persisted.suppression

\* FR-13I: a token that has authorised an early refresh is never pending
\* again, so one confirmation buys at most one override.
TokenSingleUse == token.id # 0 => token.id \notin redeemed

\* FR-13E: the etag of the next conditional request, and of the request in
\* flight, names the revision the durable cache holds, so a not-modified
\* answer is never believed about a catalog servers.json does not have.
EtagNamesDurableCatalog ==
    /\ Alive => etag = cache
    /\ \A t \in Threads : pc[t] \in Leading => sent[t] = cache

\* T-26: the durable request time, high-water mark and suppression only grow.
DurableDeadlinesNeverRewind ==
    [][/\ disk'.last_request >= disk.last_request
       /\ disk'.high_water >= disk.high_water
       /\ disk'.suppression >= disk.suppression]_vars

\* The pacing of FR-13: whatever crashes, failed saves and clock jumps lie
\* between two contacts, the floor and every suppression the process knows
\* are kept, and the automatic window never opens inside a suppression.
PacingHolds ==
    TypeOK /\ FloorBetweenContacts /\ SuppressionHonoured /\ EligibleCoversSuppression

\* What the disk says is true: it knows of every contact made, and the etag
\* offered upstream names the catalog it holds.
DurableRecordIsHonest == ContactIsDurable /\ EtagNamesDurableCatalog

\* One thread leads at a time, and a confirmation authorises one lead.
LeadIsUnique == SingleFlight /\ TokenSingleUse

\* T-25: every caller that entered a door leaves it, joiners included.
CallsReturn ==
    \A t \in Threads :
        pc[t] \in {"calling", "parked"} \cup Leading ~> (pc[t] = "idle" \/ ~Alive)

\* FR-12: a running daemon does not leave a due window unserved for ever.
DueWindowServed ==
    []<>(\/ daemon # "running"
         \/ persisted.next_eligible > wall
         \/ generation >= MaxLeads)

\* Whoever asks is answered, and what is due is fetched.
RefreshIsServed == CallsReturn /\ DueWindowServed

=============================================================================

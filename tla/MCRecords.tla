----------------------------- MODULE MCRecords -----------------------------
(***************************************************************************)
(* What the daemon keeps and guards for its callers: the documents on disk, *)
(* the account, the selection engine's shared state, the log's scrubber and *)
(* the public socket's name. They share no state, so a behaviour is one of  *)
(* the part that `part' names; the variables of the others stand still at 0.*)
(***************************************************************************)
EXTENDS Integers, Sequences, TLC

CONSTANTS a1, a2    \* two interchangeable threads, peers, requests or daemons

VARIABLES
    part,
    kind, target, settled, temps, pid, TEMP_SEQ, trusted, bind, threads, saves, faults,
    cell, auth, pending, forks, lock, calls, credentials, logins, drops,
    world, generation, slot, workers, cached, catalog, refreshes, seq, active, table,
    clock, request, probed,
    handles, registry, line, out,
    dir, public, staging, inodes, procs, starts, troubles

Actors == {a1, a2}

Symmetric == Permutations(Actors)

Store == INSTANCE DocumentStore
    WITH Kinds <- {"session", "keyring", "memory", "state", "deadlines", "catalog",
                   "location"},
         Threads <- Actors, Pids <- {1, 2}, Sizes <- {"small", "bulky", "large"},
         Defects <- {"grown", "malformed", "schema", "digest", "drift"},
         MaxSaves <- 3, MaxFaults <- 1

Login == INSTANCE Account WITH Peers <- Actors, MaxLogins <- 2, MaxDrops <- 1

\* Two worlds for the engine: replaced accounts, and refreshes with latency.
World(requests, installs, refreshed, ticks, latency) ==
    [requests |-> requests, installs |-> installs, refreshes |-> refreshed,
     ticks |-> ticks, latency |-> latency]

Engine == INSTANCE SelectionEngine
    WITH Requests <- Actors, Endpoints <- <<1, 2>>, Bodies <- {1, 2}, Laps <- {1},
         MAX_PROBES <- 1, INTERVAL <- 2, REUSE <- 2,
         Worlds <- {World(4, 2, 0, 0, FALSE), World(3, 0, 1, 2, TRUE)}

Scrubber == INSTANCE Redaction
    WITH Letters <- {"a", "b", "c"}, Newline <- "newline", Redacted <- "[redacted]",
         Secrets <- {<<"a">>, <<"a", "b">>, <<"b", "a", "b", "c">>},
         MIN_SECRET_LEN <- 2, MaxLine <- 5

Bind == INSTANCE SocketBind
    WITH Daemons <- Actors, Umasks <- {"0660", "0777"}, Privileges <- BOOLEAN,
         Groups <- {"none", "known", "unknown"}, Overlap <- FALSE, MaxStarts <- 3,
         MaxFaults <- 2, faults <- troubles

-----------------------------------------------------------------------------
Is(name) == part = name

NoStore ==
    /\ kind = 0 /\ target = 0 /\ settled = 0 /\ temps = 0 /\ pid = 0 /\ TEMP_SEQ = 0
    /\ trusted = 0 /\ bind = 0 /\ threads = 0 /\ saves = 0 /\ faults = 0

NoLogin ==
    /\ cell = 0 /\ auth = 0 /\ pending = 0 /\ forks = 0 /\ lock = 0 /\ calls = 0
    /\ credentials = 0 /\ logins = 0 /\ drops = 0

NoEngine ==
    /\ world = 0 /\ generation = 0 /\ slot = 0 /\ workers = 0 /\ cached = 0
    /\ catalog = 0 /\ refreshes = 0 /\ seq = 0 /\ active = 0 /\ table = 0
    /\ clock = 0 /\ request = 0 /\ probed = 0

NoLog == handles = 0 /\ registry = 0 /\ line = 0 /\ out = 0

NoBind ==
    /\ dir = 0 /\ public = 0 /\ staging = 0 /\ inodes = 0 /\ procs = 0 /\ starts = 0
    /\ troubles = 0

Init ==
    \/ part = "documents" /\ Store!Init /\ NoLogin /\ NoEngine /\ NoLog /\ NoBind
    \/ part = "account" /\ NoStore /\ Login!Init /\ NoEngine /\ NoLog /\ NoBind
    \/ part = "engine" /\ NoStore /\ NoLogin /\ Engine!Init /\ NoLog /\ NoBind
    \/ part = "log" /\ NoStore /\ NoLogin /\ NoEngine /\ Scrubber!Init /\ NoBind
    \/ part = "socket" /\ NoStore /\ NoLogin /\ NoEngine /\ NoLog /\ Bind!Init

store == <<kind, target, settled, temps, pid, TEMP_SEQ, trusted, bind, threads, saves,
           faults>>
account == <<cell, auth, pending, forks, lock, calls, credentials, logins, drops>>
engine == <<world, generation, slot, workers, cached, catalog, refreshes, seq, active,
            table, clock, request, probed>>
log == <<handles, registry, line, out>>
socket == <<dir, public, staging, inodes, procs, starts, troubles>>
vars == <<part, store, account, engine, log, socket>>

StoreStep ==
    Is("documents") /\ Store!Next /\ UNCHANGED <<part, account, engine, log, socket>>

LoginStep ==
    Is("account") /\ Login!Next /\ UNCHANGED <<part, store, engine, log, socket>>

EngineStep ==
    Is("engine") /\ Engine!Next /\ UNCHANGED <<part, store, account, log, socket>>

LogStep ==
    Is("log") /\ Scrubber!Next /\ UNCHANGED <<part, store, account, engine, socket>>

BindStep ==
    Is("socket") /\ Bind!Next /\ UNCHANGED <<part, store, account, engine, log>>

Next == StoreStep \/ LoginStep \/ EngineStep \/ LogStep \/ BindStep

Spec == Init /\ [][Next]_vars

-----------------------------------------------------------------------------
\* Whatever restarts, power failures, failed calls and outside changes come
\* between the steps of two threads: what a document's name leads to is whole
\* and loadable, no thread holds what no save wrote, and the session and the
\* location are never readable by others (session.rs, catalog.rs, state.rs).
StoredIsSound ==
    Is("documents") =>
        /\ Store!TypeOK /\ Store!StoredIsLoadable /\ Store!NothingUnsavedIsHeld
        /\ Store!SecretsStayPrivate

\* A stored envelope gives way to an older generation only when another save
\* landed between the comparison and the rename (session.rs save).
GenerationFallsOnlyInARace ==
    [][Is("documents") => Store!GenerationFallsOnlyInARace]_vars

\* A login's credentials cross the wire over no session its guard could see,
\* and a second factor completes the login whose challenge it answers, with
\* two peers whose calls interleave at the adapter's mutex (services.rs
\* begin_login_guarded, auth.rs submit).
LoginIsItsOwn ==
    [][Is("account") => /\ (Login!TypeOK /\ Login!LoginWasGuarded)'
                        /\ Login!SecondFactorCompletesItsOwnLogin]_vars

\* An answer that was under way when the account was replaced leaves nothing
\* behind, and a session has one fetch at a time whatever waiters give up
\* (selection.rs install, single_flight_slot, entitlement_composition).
EntitlementIsOfThisSession ==
    Is("engine") => Engine!SnapshotIsOfThisSession /\ Engine!OneFetchPerSession

\* Observations fit the catalog they are read under, an attempt clock is the
\* time of an attempt, and no endpoint is reserved twice within the interval,
\* across refreshes in the middle of a round (selection.rs probe_round).
ObservationsAreCurrent ==
    [][Is("engine") => /\ Engine!ObservationsFitTheirCatalog'
                       /\ Engine!ClocksAreOfAttempts'
                       /\ Engine!ReservedOncePerInterval]_vars

\* However a line is cut into writes, no registered value is forwarded whole
\* and no ordinary text is lost (redact.rs scrub).
NoSecretIsLogged ==
    Is("log") => Scrubber!TypeOK /\ Scrubber!NoSecretIsLogged

\* A serving daemon is the one the public name leads to, published only with
\* its pinned mode, and starting displaces nothing but a stale socket: with
\* starts one after the other, whatever fails in them (bind.rs).
BindIsExclusive ==
    [][Is("socket") => /\ (Bind!TypeOK /\ Bind!ServingIsReachable /\ Bind!PublishedIsPinned)'
                       /\ Bind!OthersEntriesSurvive]_vars
=============================================================================

----------------------------- MODULE MCNetwork -----------------------------
(***************************************************************************)
(* What carries the tunnel: the network session, the marking of the outer   *)
(* sockets, the credential cache and the feature ledger. They share no      *)
(* state, so a behaviour is one of the part that `part' names; the          *)
(* variables of the others stand still at 0.                                *)
(***************************************************************************)
EXTENDS Integers, FiniteSets, TLC

CONSTANTS
    Squatted, MaxGeneration, MaxMeddling, MaxTrouble,           \* NetSession
    Sockets, IN_FLIGHT_BITS,                                    \* OuterSockets
    Openers, CacheKeys, Sizes, MAX_PLAINTEXT_LEN, MaxKeys,      \* CredentialCache
    MaxPuts, MaxFaults, MaxStops,
    Settings, Values, Bound, MaxReports, MaxUpdates             \* FeatureLedger

\* The in-flight count fits its field of the word: fewer sockets than it has
\* values.
ASSUME NetworkAssumption ==
    /\ IsFiniteSet(Sockets) /\ 2^IN_FLIGHT_BITS \in Nat
    /\ Cardinality(Sockets) < 2^IN_FLIGHT_BITS
    /\ MaxKeys \in Nat /\ MaxPuts \in Nat
    /\ Bound \in Nat /\ MaxUpdates \in Nat

VARIABLES
    part,
    rules, routes, nft, resolv, linked, squat, mode, kept, session, pc, job, outcome,
    generation, meddled, errors,
    state, at, marked,
    now, durable, opener, keys, puts, faults, stops,
    requested, applied, refused, epoch, callback, queue, critical, latest, drops,
    reports, updates, sessions, proof, owed

\* A comment, an entry that a later one overrides, and another manager's
\* name on the bypass table's preferred id.
Lines == << [id |-> 0, name |-> "other"], [id |-> 51830, name |-> "other"],
            [id |-> 51821, name |-> "other"] >>

Net == INSTANCE NetSession WITH RtTables <- Lines

Outer == INSTANCE OuterSockets

Cache == INSTANCE CredentialCache

Ledger == INSTANCE FeatureLedger

\* The processes that open the credential cache are alike.
Symmetric == Permutations(Openers)

-----------------------------------------------------------------------------
Is(name) == part = name

NoNet ==
    /\ rules = 0 /\ routes = 0 /\ nft = 0 /\ resolv = 0 /\ linked = 0 /\ squat = 0
    /\ mode = 0 /\ kept = 0 /\ session = 0 /\ pc = 0 /\ job = 0 /\ outcome = 0
    /\ generation = 0 /\ meddled = 0 /\ errors = 0

NoOuter == state = 0 /\ at = 0 /\ marked = 0

NoCache ==
    /\ now = 0 /\ durable = 0 /\ opener = 0 /\ keys = 0 /\ puts = 0
    /\ faults = 0 /\ stops = 0

NoLedger ==
    /\ requested = 0 /\ applied = 0 /\ refused = 0 /\ epoch = 0 /\ callback = 0
    /\ queue = 0 /\ critical = 0 /\ latest = 0 /\ drops = 0 /\ reports = 0
    /\ updates = 0 /\ sessions = 0 /\ proof = 0 /\ owed = 0

Init ==
    \/ part = "session" /\ Net!Init /\ NoOuter /\ NoCache /\ NoLedger
    \/ part = "sockets" /\ NoNet /\ Outer!Init /\ NoCache /\ NoLedger
    \/ part = "cache" /\ NoNet /\ NoOuter /\ Cache!Init /\ NoLedger
    \/ part = "ledger" /\ NoNet /\ NoOuter /\ NoCache /\ Ledger!Init

net == <<rules, routes, nft, resolv, linked, squat, mode, kept, session, pc, job,
         outcome, generation, meddled, errors>>
outer == <<state, at, marked>>
cache == <<now, durable, opener, keys, puts, faults, stops>>
ledger == <<requested, applied, refused, epoch, callback, queue, critical, latest,
            drops, reports, updates, sessions, proof, owed>>
vars == <<part, net, outer, cache, ledger>>

NetStep == Is("session") /\ Net!Next /\ UNCHANGED <<part, outer, cache, ledger>>

OuterStep == Is("sockets") /\ Outer!Next /\ UNCHANGED <<part, net, cache, ledger>>

CacheStep == Is("cache") /\ Cache!Next /\ UNCHANGED <<part, net, outer, ledger>>

LedgerStep == Is("ledger") /\ Ledger!Next /\ UNCHANGED <<part, net, outer, cache>>

Next == NetStep \/ OuterStep \/ CacheStep \/ LedgerStep

Spec == Init /\ [][Next]_vars

-----------------------------------------------------------------------------
\* connect adds a rule or a route only behind the switch of its own attempt,
\* and only in tables that are ProtonWire's: never in one another manager
\* alone uses, and in the ones the session's leftovers lie in (session.rs
\* connect_with, tables.rs resolve). Whatever fails, crashes or meddles.
RoutedOnlyBehindTheSwitch ==
    [][Is("session") => Net!ArmedBeforeRouted /\ Net!PlanKeepsToOwnTables]_vars

\* A connect whose commit failed leaves nothing of its desired state that was
\* not there before, unless its rollback met an error; and a disconnect that
\* returns Ok leaves no rule, copies included, no route of its session, and
\* no switch unless it is permanent (route_txn.rs rollback, session.rs
\* disconnect).
TeardownIsComplete ==
    [][Is("session") => Net!FailedCommitIsUndone /\ Net!DisconnectOkLeavesNothing]_vars

\* However the protect callbacks overlap, the packed word reads healthy only
\* when every socket ProTUN reported carries the mark (MarkHealth::healthy).
HealthyMeansMarked ==
    Is("sockets") => Outer!TypeOK /\ Outer!HealthyMeansMarked

\* However two openers race for the first key, and wherever one stops or the
\* power goes, the keyfile opens every entry (open, read_keyfile).
KeyOpensEveryEntry ==
    Is("cache") => Cache!TypeOK /\ Cache!KeyOpensEveryEntry

\* The ledger's verdicts are about the request in force and the negotiation
\* in course, and a full queue loses no class of control event
\* (reconcile.rs note_applied, engine.rs forward).
LedgerIsFaithful ==
    Is("ledger") => Ledger!TypeOK /\ Ledger!LedgerAnswersThisRequest /\ Ledger!ControlsSurvive
=============================================================================

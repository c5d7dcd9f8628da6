---------------------------- MODULE OuterSockets ----------------------------
(***************************************************************************)
(* The bypass marks of the sockets ProTUN opens (protocol/src/marks.rs).    *)
(* MarkHealth is one machine word that overlapping callbacks update, each   *)
(* with single atomic operations: a failure latch in bit 0, a count of      *)
(* callbacks inside the applier above it, and above that the count of       *)
(* sockets reported.                                                        *)
(***************************************************************************)
EXTENDS Naturals, FiniteSets

CONSTANTS
    Sockets,
    IN_FLIGHT_BITS      \* the width of the in-flight count: 14 in the code

VARIABLES
    state,      \* the word
    at,         \* where each socket's protect_socket is
    marked      \* the sockets that carry the mark

vars == <<state, at, marked>>

FAILED == 1
IN_FLIGHT_UNIT == 2
REPORTED_UNIT == 2 * 2^IN_FLIGHT_BITS

\* The fields of the word, as the readers extract them.
failed == state % 2 = 1
in_flight == (state \div IN_FLIGHT_UNIT) % 2^IN_FLIGHT_BITS
reported == state \div REPORTED_UNIT
all_marked == ~failed

\* The gate of the route commit.
healthy == reported > 0 /\ in_flight = 0 /\ ~failed

TypeOK == state \in Nat /\ marked \subseteq Sockets

Init == state = 0 /\ at = [s \in Sockets |-> "new"] /\ marked = {}

Step(s, from, to) == at[s] = from /\ at' = [at EXCEPT ![s] = to]

note_in_flight(s) ==
    /\ Step(s, "new", "apply")
    /\ state' = state + IN_FLIGHT_UNIT
    /\ UNCHANGED marked

\* SoMarkApplier::apply_mark: a descriptor that is no socket is not marked.
apply_mark(s) ==
    /\ \/ Step(s, "apply", "marked") /\ marked' = marked \cup {s}
       \/ Step(s, "apply", "unmarked") /\ UNCHANGED marked
    /\ UNCHANGED state

note_failure(s) ==
    /\ Step(s, "unmarked", "marked")
    /\ state' = IF failed THEN state ELSE state + FAILED
    /\ UNCHANGED marked

note_reported(s) ==
    /\ Step(s, "marked", "reported")
    /\ state' = state + REPORTED_UNIT
    /\ UNCHANGED marked

note_done_ClearsAll(s) ==
    /\ Step(s, "reported", "done")
    /\ state' = state - in_flight * IN_FLIGHT_UNIT
    /\ UNCHANGED marked

note_done(s) ==
    /\ Step(s, "reported", "done")
    /\ state' = state - IN_FLIGHT_UNIT
    /\ UNCHANGED marked

\* MarkingFdCallback::protect_socket, a socket at a time and several at once.
protect_socket(s) ==
    \/ note_in_flight(s) \/ apply_mark(s) \/ note_failure(s)
    \/ note_reported(s) \/ note_done(s)

Next == \E s \in Sockets : protect_socket(s)

Spec == Init /\ [][Next]_vars

-----------------------------------------------------------------------------
\* The word lets routes be committed only when a socket was reported, none is
\* inside the applier, and every socket ProTUN reported carries the mark, no
\* matter how the callbacks overlap (MarkHealth::healthy, FR-32B).
HealthyMeansMarked ==
    healthy =>
        /\ \E s \in Sockets : at[s] = "done"
        /\ \A s \in Sockets : at[s] \in {"new", "done"}
        /\ \A s \in Sockets : at[s] = "done" => s \in marked
=============================================================================

----------------------------- MODULE AcceptLoop -----------------------------
(***************************************************************************)
(* The accept loop and its session workers (crates/ipc/src/server/mod.rs)   *)
(* with the slot counter and the subscriptions of the event bus (bus.rs):   *)
(* several connections against the session ceiling, the reaping of ended    *)
(* workers, and the drain that forces the last ones down. What happens      *)
(* inside one session is SessionThreads.                                    *)
(***************************************************************************)
EXTENDS Integers, FiniteSets

CONSTANTS
    Connections,     \* connections clients make
    MAX_SESSIONS     \* slots

VARIABLES
    stop,        \* the stop flag
    serve,       \* "reap", "accept", "reserved", "full", "drain", "join", "returned"
    backlog,     \* connections waiting to be accepted
    current,     \* the connection just accepted, as a set of at most one
    sessions,    \* the workers in the loop's list
    worker,      \* per connection: "none", "running", "stuck", "finished"
    subscribed,  \* connections whose session is in the bus
    reserved,    \* EventBus::reserved
    refused,     \* connections closed at once, for want of a slot
    sock         \* connections whose socket is open

vars == <<stop, serve, backlog, current, sessions, worker, subscribed, reserved,
          refused, sock>>

TypeOK ==
    /\ reserved \in 0 .. MAX_SESSIONS + 1
    /\ sessions \subseteq Connections /\ subscribed \subseteq Connections
    /\ worker \in [Connections -> {"none", "running", "stuck", "finished"}]

Init ==
    /\ stop = FALSE /\ serve = "reap" /\ backlog = {} /\ current = {}
    /\ sessions = {} /\ worker = [c \in Connections |-> "none"]
    /\ subscribed = {} /\ reserved = 0 /\ refused = {} /\ sock = {}

Alive == {c \in Connections : worker[c] \in {"running", "stuck"}}

Ended == {c \in sessions : worker[c] = "finished"}

ClientConnects(c) ==
    /\ c \notin sock \cup refused /\ worker[c] = "none" /\ serve # "returned"
    /\ backlog' = backlog \cup {c} /\ sock' = sock \cup {c}
    /\ UNCHANGED <<stop, serve, current, sessions, worker, subscribed, reserved, refused>>

-----------------------------------------------------------------------------
(* serve_observed.                                                          *)

\* The top of the loop: the stop flag, then every ended worker leaves.
reap_finished ==
    /\ serve = "reap"
    /\ \/ stop /\ serve' = "drain" /\ UNCHANGED sessions
       \/ ~stop /\ serve' = "accept" /\ sessions' = sessions \ Ended
    /\ UNCHANGED <<stop, backlog, current, worker, subscribed, reserved, refused, sock>>

\* accept, then the first half of try_reserve_session: the counter goes up
\* and its old value decides.
Accept ==
    /\ serve = "accept"
    /\ \/ /\ backlog = {} /\ serve' = "reap"
          /\ UNCHANGED <<backlog, current, reserved>>
       \/ \E c \in backlog :
             /\ backlog' = backlog \ {c} /\ current' = {c}
             /\ reserved' = reserved + 1
             /\ serve' = IF reserved < MAX_SESSIONS THEN "reserved" ELSE "full"
    /\ UNCHANGED <<stop, sessions, worker, subscribed, refused, sock>>

\* The second half: the claim is taken back and the stream dropped.
Refuse ==
    /\ serve = "full"
    /\ reserved' = reserved - 1
    /\ refused' = refused \cup current /\ sock' = sock \ current
    /\ current' = {} /\ serve' = "reap"
    /\ UNCHANGED <<stop, backlog, sessions, worker, subscribed>>

Spawn ==
    /\ serve = "reserved"
    /\ worker' = [c \in Connections |-> IF c \in current THEN "running" ELSE worker[c]]
    /\ sessions' = sessions \cup current
    /\ current' = {} /\ serve' = "reap"
    /\ UNCHANGED <<stop, backlog, subscribed, reserved, refused, sock>>

-----------------------------------------------------------------------------
(* A session, seen from outside.                                            *)

subscribe(c) ==
    /\ worker[c] = "running" /\ c \notin subscribed
    /\ subscribed' = subscribed \cup {c}
    /\ UNCHANGED <<stop, serve, backlog, current, sessions, worker, reserved, refused, sock>>

\* A handler that does not return.
HandlerBlocks(c) ==
    /\ worker[c] = "running" /\ c \in subscribed
    /\ worker' = [worker EXCEPT ![c] = "stuck"]
    /\ UNCHANGED <<stop, serve, backlog, current, sessions, subscribed, reserved,
                   refused, sock>>

release_on_exit_Normal(c) == IF c \in subscribed THEN reserved - 1 ELSE reserved

\* ReleaseSlotOnDrop: on a reject before the session subscribed, on a panic
\* and at the normal end alike.
release_on_exit(c) == reserved - 1

handle_session_ends(c) ==
    /\ worker[c] = "running"
    /\ worker' = [worker EXCEPT ![c] = "finished"]
    /\ subscribed' = subscribed \ {c} /\ sock' = sock \ {c}
    /\ reserved' = release_on_exit(c)
    /\ UNCHANGED <<stop, serve, backlog, current, sessions, refused>>

Shutdown ==
    /\ ~stop /\ stop' = TRUE
    /\ UNCHANGED <<serve, backlog, current, sessions, worker, subscribed, reserved,
                   refused, sock>>

-----------------------------------------------------------------------------
(* The drain: until every worker has finished or the ceiling is reached.    *)

Drain ==
    /\ serve = "drain" /\ serve' = "join"
    /\ UNCHANGED <<stop, backlog, current, sessions, worker, subscribed, reserved,
                   refused, sock>>

\* Finished workers are joined; the others' sockets are shut down and their
\* threads left to end by themselves.
Join ==
    /\ serve = "join"
    /\ sock' = sock \ (sessions \cup backlog)
    /\ sessions' = {} /\ backlog' = {} /\ serve' = "returned"
    /\ UNCHANGED <<stop, current, worker, subscribed, reserved, refused>>

Next ==
    \/ reap_finished \/ Accept \/ Refuse \/ Spawn \/ Shutdown \/ Drain \/ Join
    \/ \E c \in Connections : \/ ClientConnects(c) \/ subscribe(c) \/ HandlerBlocks(c)
                              \/ handle_session_ends(c)

\* The loop runs, and a session whose handler returns ends.
Fairness ==
    /\ WF_vars(reap_finished) /\ WF_vars(Accept) /\ WF_vars(Refuse) /\ WF_vars(Spawn)
    /\ WF_vars(Drain) /\ WF_vars(Join)

Spec == Init /\ [][Next]_vars /\ Fairness

-----------------------------------------------------------------------------
(* The properties.                                                          *)

\* A slot is held exactly by the sessions that run and the connection being
\* taken in: however a session ends, its slot comes back once, and no burst
\* of connections is served past the ceiling.
SlotsAreSessions ==
    /\ Cardinality(Alive) <= MAX_SESSIONS
    /\ reserved = Cardinality(Alive) + Cardinality(current)
    /\ subscribed \subseteq Alive

\* The loop's list does not keep what has ended: a finished worker leaves it,
\* and after a stop the loop returns even with a handler that never does.
EndedLeaveTheList ==
    /\ \A c \in Connections : (c \in Ended) ~> (c \notin sessions)
    /\ stop ~> (serve = "returned")
=============================================================================

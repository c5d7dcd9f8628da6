---------------------------- MODULE MCProcesses ----------------------------
(***************************************************************************)
(* What must come to an end: the accept loop with its workers, a client's   *)
(* calls over the framed transport, the terminal client and the daemon      *)
(* process. They share no state, so a behaviour is one of the part that     *)
(* `part' names; the others stay in an initial state of theirs.             *)
(***************************************************************************)
EXTENDS Integers, Sequences

CONSTANTS
    Connections,         \* connections made to the accept loop
    MAX_SESSIONS,        \* its session slots
    PREFIX, CAP,         \* bytes of a length prefix, and what a socket holds
    MAX_FRAME_LEN, Lengths,      \* longest payload, and those that occur
    PENDING_EVENTS_CAP,  \* events a client buffers while a request waits
    MaxFrames, MaxCalls, \* bounds: frames the daemon sends, calls a client makes
    STALE_AFTER,         \* age at which a dashboard frame says so
    MaxFaults            \* bound: failing terminal operations

ASSUME ProcessesAssumption ==
    /\ MAX_SESSIONS \in Nat
    /\ PREFIX \in Nat \ {0} /\ CAP \in Nat /\ MAX_FRAME_LEN \in Nat
    /\ Lengths \subseteq Nat /\ PENDING_EVENTS_CAP \in Nat \ {0}
    /\ MaxFrames \in Nat /\ MaxCalls \in Nat
    /\ STALE_AFTER \in Nat /\ MaxFaults \in Nat

VARIABLES
    part,
    draining, serve, backlog, current, sessions, worker, subscribed, reserved, refused,
    sock,
    sent, written, late, wire, down, asked, got, delivered, call, expired, next_id,
    pending_events, dropped_events, poisoned, result, calls,
    screen, terminal, handler, signalled, refresher, leaving, done, handle, slot, state,
    frame, newest, faults,
    main, code, installed, terminate, stop, watcher, driver, places, socket

Accepts == INSTANCE AcceptLoop WITH stop <- draining

Wire == INSTANCE Transport

Tui == INSTANCE Dashboard
    WITH main <- screen, terminate <- signalled, worker <- refresher, stop <- leaving

Daemon == INSTANCE DaemonProcess WITH SIGNALS <- <<"INT", "TERM", "HUP", "QUIT">>

-----------------------------------------------------------------------------
Is(name) == part = name

Init ==
    /\ part \in {"accept loop", "transport", "terminal client", "daemon"}
    /\ Accepts!Init /\ Wire!Init /\ Tui!Init /\ Daemon!Init
    /\ Is("daemon") \/ places = [cli |-> <<>>, config |-> <<>>]

accepts == <<draining, serve, backlog, current, sessions, worker, subscribed, reserved,
             refused, sock>>
transport == <<sent, written, late, wire, down, asked, got, delivered, call, expired,
               next_id, pending_events, dropped_events, poisoned, result, calls>>
tui == <<screen, terminal, handler, signalled, refresher, leaving, done, handle, slot,
         state, frame, newest, faults>>
daemon == <<main, code, installed, terminate, stop, watcher, driver, places, socket>>
vars == <<part, accepts, transport, tui, daemon>>

AcceptStep ==
    Is("accept loop") /\ Accepts!Next /\ UNCHANGED <<part, transport, tui, daemon>>

WireStep ==
    Is("transport") /\ Wire!Next /\ UNCHANGED <<part, accepts, tui, daemon>>

TuiStep ==
    Is("terminal client") /\ Tui!Next /\ UNCHANGED <<part, accepts, transport, daemon>>

DaemonStep ==
    Is("daemon") /\ Daemon!Next /\ UNCHANGED <<part, accepts, transport, tui>>

Next == AcceptStep \/ WireStep \/ TuiStep \/ DaemonStep

\* Each part runs under its own fairness.
AcceptFairness ==
    /\ WF_accepts(Is("accept loop") /\ Accepts!reap_finished)
    /\ WF_accepts(Is("accept loop") /\ Accepts!Accept)
    /\ WF_accepts(Is("accept loop") /\ Accepts!Refuse)
    /\ WF_accepts(Is("accept loop") /\ Accepts!Spawn)
    /\ WF_accepts(Is("accept loop") /\ Accepts!Drain)
    /\ WF_accepts(Is("accept loop") /\ Accepts!Join)

WireFairness ==
    /\ WF_transport(Is("transport") /\ Wire!Tick)
    /\ WF_transport(Is("transport") /\ Wire!Expire)
    /\ WF_transport(Is("transport") /\ Wire!Deliver)

TuiFairness ==
    /\ WF_tui(Is("terminal client") /\ Tui!MainNext)
    /\ SF_tui(Is("terminal client") /\ Tui!drain /\ slot = <<>>)

DaemonFairness ==
    /\ WF_daemon(Is("daemon") /\ Daemon!StartupStep)
    /\ WF_daemon(Is("daemon") /\ Daemon!watch_for_termination)
    /\ WF_daemon(Is("daemon") /\ Daemon!automatic_refresh_driver)
    /\ WF_daemon(Is("daemon") /\ (Daemon!serve \/ Daemon!join))

Spec ==
    /\ Init /\ [][Next]_vars
    /\ AcceptFairness /\ WireFairness /\ TuiFairness /\ DaemonFairness

-----------------------------------------------------------------------------
\* A slot is held exactly by the sessions that run and the connection being
\* taken in: however a session ends its slot comes back once, and no burst is
\* served past the ceiling (server/mod.rs, bus.rs try_reserve_session).
SlotsAreSessions == Accepts!TypeOK /\ Accepts!SlotsAreSessions

\* However a frame is cut by the socket, by polls and by calls that time out,
\* the reader delivers the messages the daemon wrote and reports a hang-up
\* exactly when no frame was cut (frame.rs, client.rs).
ReadsStayAligned == Wire!TypeOK /\ Wire!ReadsStayAligned

\* Every way out of the terminal client hands the terminal back, and the slot
\* between its threads keeps the newest snapshot (tui main.rs).
DashboardIsTidy == Tui!TypeOK /\ Tui!TerminalIsHandedBack /\ Tui!NewestIsKept

\* The exit status tells what happened to the daemon's threads and socket
\* (daemon main.rs run).
ExitTellsWhy == Daemon!TypeOK /\ Daemon!ExitTellsWhy

\* Everything ends: finished workers leave the list and a stopped loop
\* returns even with a handler that never does; every client call returns
\* even if the daemon never answers; a signal ends the terminal client even
\* with a fetch that hangs, and the daemon whichever step it interrupts.
EveryoneEnds ==
    /\ Is("accept loop") => Accepts!EndedLeaveTheList
    /\ Is("transport") => Wire!CallsReturn
    /\ Is("terminal client") => Tui!SignalEndsTheClient
    /\ Is("daemon") => Daemon!StopIsNeverLost
=============================================================================

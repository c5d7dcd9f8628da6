--------------------------- MODULE DaemonProcess ---------------------------
(***************************************************************************)
(* The daemon process from start to exit (apps/daemon/src/main.rs run, with *)
(* the construction of its services): the terminating signals, which may    *)
(* come at any moment, the startup steps that may fail, the watcher that    *)
(* turns the signal flag into the stop flag, the automatic refresh driver,  *)
(* and the joins before the exit. The accept loop that serve() runs is      *)
(* AcceptLoop, the scheduler the driver calls is Scheduler.                 *)
(***************************************************************************)
EXTENDS Integers, Sequences

CONSTANT SIGNALS    \* the terminating signals, in the order they are handled

VARIABLES
    main,        \* the step run() is at, or "exited"
    code,        \* the exit status: 0, 1, 15; -1 when a signal killed it; -2 so far
    installed,   \* how many of SIGNALS have the handler
    terminate,   \* TERMINATE_REQUESTED
    stop,        \* the serve loop's stop flag
    watcher,     \* watch_for_termination's thread: "none", "looping", "left"
    driver,      \* the driver's thread: "none", "checking", "waiting", "refreshing", "left"
    places,      \* what the flag and the document say of the socket's place
    socket       \* where the socket is published, <<>> before

vars == <<main, code, installed, terminate, stop, watcher, driver, places, socket>>

Steps == {"install", "load", "services", "bind", "watch", "drive", "serve",
          "join watcher", "join driver", "exited"}

TypeOK ==
    /\ main \in Steps /\ code \in {-2, -1, 0, 1, 15}
    /\ installed \in 0 .. Len(SIGNALS)
    /\ {terminate, stop} \subseteq BOOLEAN
    /\ watcher \in {"none", "looping", "left"}
    /\ driver \in {"none", "checking", "waiting", "refreshing", "left"}
    /\ Len(socket) <= 1

\* --socket-dir, and the document's daemon.socket_path split at its last
\* component: either part may be missing.
Init ==
    /\ main = "install" /\ code = -2 /\ installed = 0
    /\ terminate = FALSE /\ stop = FALSE /\ watcher = "none" /\ driver = "none"
    /\ places \in [cli : {<<>>, <<"flag dir">>},
                   config : {<<>>} \cup
                            {<<[parent |-> p, file_name |-> f]>> :
                                p \in {"", "document dir"}, f \in {<<>>, <<"document name">>}}]
    /\ socket = <<>>

Alive == main # "exited"

Exit(status) == main' = "exited" /\ code' = status

At(step) == main = step /\ Alive

-----------------------------------------------------------------------------
(* Signals.                                                                 *)

\* record_termination, or the default disposition where the handler is not
\* installed: the process is killed.
Signal(i) ==
    /\ Alive
    /\ IF i <= installed
       THEN terminate' = TRUE /\ UNCHANGED <<main, code>>
       ELSE Exit(-1) /\ UNCHANGED terminate
    /\ UNCHANGED <<installed, stop, watcher, driver, places, socket>>

\* One sigaction at a time; the first that fails ends the installation, and
\* the daemon starts all the same.
install_terminate_handler ==
    /\ At("install")
    /\ \/ installed < Len(SIGNALS) /\ installed' = installed + 1 /\ UNCHANGED main
       \/ main' = "load" /\ UNCHANGED installed
    /\ UNCHANGED <<code, terminate, stop, watcher, driver, places, socket>>

-----------------------------------------------------------------------------
(* Startup.                                                                 *)

\* SystemConfig::load_strict.
load ==
    /\ At("load")
    /\ \/ main' = "services" /\ UNCHANGED code
       \/ Exit(15)
    /\ UNCHANGED <<installed, terminate, stop, watcher, driver, places, socket>>

\* DaemonServices::build: the scheduler's policy, its strict load, the
\* credential input; any refusal ends the start before the socket exists.
build ==
    /\ At("services")
    /\ \/ main' = "bind" /\ UNCHANGED code
       \/ Exit(15)
    /\ UNCHANGED <<installed, terminate, stop, watcher, driver, places, socket>>

resolve_bind_location(cli, config) ==
    IF cli # <<>> THEN [dir |-> cli[1], name |-> "default name"]
    ELSE IF config # <<>>
    THEN [dir |-> IF config[1].parent = "" THEN "." ELSE config[1].parent,
          name |-> IF config[1].file_name = <<>> THEN "default name"
                   ELSE config[1].file_name[1]]
    ELSE [dir |-> "default dir", name |-> "default name"]

bind ==
    /\ At("bind")
    /\ \/ /\ socket' = <<resolve_bind_location(places.cli, places.config)>>
          /\ main' = "watch" /\ UNCHANGED code
       \/ Exit(1) /\ UNCHANGED socket
    /\ UNCHANGED <<installed, terminate, stop, watcher, driver, places>>

spawn_watcher ==
    /\ At("watch") /\ watcher' = "looping" /\ main' = "drive"
    /\ UNCHANGED <<code, installed, terminate, stop, driver, places, socket>>

spawn_automatic_refresh_driver ==
    /\ At("drive") /\ driver' = "checking" /\ main' = "serve"
    /\ UNCHANGED <<code, installed, terminate, stop, watcher, places, socket>>

-----------------------------------------------------------------------------
(* Serving and stopping.                                                    *)

\* One round of the watcher: it leaves on the stop flag, or sets it.
watch_for_termination ==
    /\ Alive /\ watcher = "looping" /\ (stop \/ terminate)
    /\ watcher' = "left" /\ stop' = TRUE
    /\ UNCHANGED <<main, code, installed, terminate, driver, places, socket>>

\* The Shutdown request of an administrator.
Shutdown ==
    /\ At("serve") /\ stop' = TRUE
    /\ UNCHANGED <<main, code, installed, terminate, watcher, driver, places, socket>>

\* A round of the driver: the stop flag, then a wait in slices or a refresh.
automatic_refresh_driver ==
    /\ Alive
    /\ \/ /\ driver = "checking"
          /\ driver' \in IF stop THEN {"left"} ELSE {"waiting", "refreshing"}
       \/ driver \in {"waiting", "refreshing"} /\ driver' = "checking"
    /\ UNCHANGED <<main, code, installed, terminate, stop, watcher, places, socket>>

\* server.serve: it drains its sessions and returns once the flag is set.
serve ==
    /\ At("serve") /\ stop /\ main' = "join watcher"
    /\ UNCHANGED <<code, installed, terminate, stop, watcher, driver, places, socket>>

\* A plausible mistake: the driver is not joined.
join_Watcher ==
    /\ At("join watcher") /\ watcher = "left" /\ Exit(0) /\ socket' = <<>>
    /\ UNCHANGED <<installed, terminate, stop, watcher, driver, places>>

\* The joins, then the exit with 0; the server's drop removes the socket.
join ==
    /\ \/ /\ At("join watcher") /\ watcher = "left"
          /\ main' = "join driver" /\ UNCHANGED <<code, socket>>
       \/ At("join driver") /\ driver = "left" /\ Exit(0) /\ socket' = <<>>
    /\ UNCHANGED <<installed, terminate, stop, watcher, driver, places>>

StartupStep ==
    \/ install_terminate_handler \/ load \/ build \/ bind
    \/ spawn_watcher \/ spawn_automatic_refresh_driver

Next ==
    \/ \E i \in DOMAIN SIGNALS : Signal(i)
    \/ StartupStep
    \/ watch_for_termination \/ Shutdown \/ automatic_refresh_driver \/ serve \/ join

\* The main thread, the watcher and the driver are scheduled.
Fairness ==
    /\ WF_vars(StartupStep) /\ WF_vars(serve \/ join)
    /\ WF_vars(watch_for_termination) /\ WF_vars(automatic_refresh_driver)

Spec == Init /\ [][Next]_vars /\ Fairness

-----------------------------------------------------------------------------
(* Properties.                                                              *)

\* The exit status tells what happened: 0 only after every thread the daemon
\* started has ended with no refresh in flight and the socket is gone, 1 and
\* 15 only before the daemon published a socket or started a thread
\* (run; the joins after serve).
ExitTellsWhy ==
    main = "exited" =>
        /\ code = 0 => stop /\ watcher = "left" /\ driver = "left" /\ socket = <<>>
        /\ code \in {1, 15} => watcher = "none" /\ driver = "none" /\ socket = <<>>

\* A stop request is never lost, whichever startup step the signal interrupts
\* (record_termination, watch_for_termination): once the flag is set the
\* process ends.
StopIsNeverLost == terminate ~> main = "exited"
=============================================================================

----------------------------- MODULE Dashboard -----------------------------
(* apps/tui/src/main.rs: the terminal client. A refresh thread fetches daemon
   snapshots and publishes them in a one-place slot; the main thread drains
   the slot, draws, polls for a key, and hands the terminal back on every way
   out. A fetch may hang for as long as the daemon does.

   Instants are kept as ages: one Tick makes everything recorded older by one
   unit, up to AGE_CAP, beyond which the code does not tell ages apart. *)
EXTENDS Naturals, Sequences

CONSTANTS STALE_AFTER,   \* age at which a frame says its snapshot is stale
          MaxFaults      \* bound on failing terminal operations

AGE_CAP == STALE_AFTER + 1

VARIABLES main,      \* where the main thread is: [at, result]
          terminal,  \* [raw, alternate, stuck]: its modes; what the last restoring failed at
          handler,   \* the terminating signals are caught
          terminate, \* TERMINATE_REQUESTED
          worker,    \* the refresh thread: [at, fetched]; fetched as slot
          stop, done, handle, \* RefreshWorker: stop flag, acknowledgement, join handle
          slot,      \* SnapshotSlot: <<>>, or <<age>> of the snapshot it holds
          state,     \* LoopState: [some: a snapshot is held, age: of it, or of the start]
          frame,     \* what the last frame said of its snapshot
          newest,    \* history: the last snapshot published, as in slot
          faults

vars == <<main, terminal, handler, terminate, worker, stop, done, handle, slot, state,
          frame, newest, faults>>
workerVars == <<worker, done, slot, newest>>
loopVars == <<state, frame>>

Optional(S) == {<<>>} \union {<<x>> : x \in S}
Snapshots == Optional(0..AGE_CAP)

\* The records hold what their Rust counterparts can.
TypeOK ==
    /\ main \in [at: {"start", "raw", "screen", "term", "drain", "check", "draw", "poll",
                      "shutdown", "drop", "restore", "exited", "killed"},
                 result: {"ok", "error", "panic"}]
    /\ terminal \in [raw: BOOLEAN, alternate: BOOLEAN, stuck: SUBSET {"raw", "alternate"}]
    /\ {handler, terminate, stop, done, handle} \subseteq BOOLEAN
    /\ worker \in [at: {"none", "fetch", "publish", "wait", "gone"}, fetched: Snapshots]
    /\ slot \in Snapshots /\ newest \in Snapshots
    /\ state \in [some: BOOLEAN, age: 0..AGE_CAP]
    /\ frame \in {"none", "live", "stale"}
    /\ faults \in 0..MaxFaults

Init ==
    /\ main = [at |-> "start", result |-> "ok"]
    /\ terminal = [raw |-> FALSE, alternate |-> FALSE, stuck |-> {}]
    /\ handler = FALSE /\ terminate = FALSE
    /\ worker = [at |-> "none", fetched |-> <<>>]
    /\ stop = FALSE /\ done = FALSE /\ handle = FALSE
    /\ slot = <<>> /\ newest = <<>>
    /\ state = [some |-> FALSE, age |-> 0]
    /\ frame = "none"
    /\ faults = 0

Fault == faults < MaxFaults /\ faults' = faults + 1
Fine == UNCHANGED faults
To(place) == main' = [main EXCEPT !.at = place]
Leave(place, result) == main' = [at |-> place, result |-> result]

-----------------------------------------------------------------------------
(* The terminal. *)

\* The terminal after a try at handing back both halves, where failed names
\* the halves whose operation failed.
Restored(failed, both) ==
    [raw |-> terminal.raw /\ "raw" \in failed,
     alternate |-> terminal.alternate /\ ("alternate" \in failed \/ ~both),
     stuck |-> failed]

\* restore is attempt_both: the second step runs whatever became of the first.
restore ==
    \E failed \in SUBSET {"raw", "alternate"} :
        /\ IF failed = {} THEN Fine ELSE Fault
        /\ terminal' = Restored(failed, TRUE)

\* main: the handlers are installed before the terminal is touched; failing
\* to install them is reported and no more.
install_terminate_handler ==
    /\ main.at = "start"
    /\ \/ Fine /\ handler' = TRUE
       \/ Fault /\ handler' = FALSE
    /\ To("raw")
    /\ UNCHANGED <<terminal, terminate, stop, handle, workerVars, loopVars>>

\* setup_terminal: a failing step undoes the ones before it and the process
\* leaves with status 1.
enable_raw_mode ==
    /\ main.at = "raw"
    /\ \/ Fine /\ terminal' = [terminal EXCEPT !.raw = TRUE] /\ To("screen")
       \/ Fault /\ UNCHANGED terminal /\ Leave("exited", "error")
    /\ UNCHANGED <<handler, terminate, stop, handle, workerVars, loopVars>>

setup_terminal ==
    /\ main.at = "screen"
    /\ \/ Fine /\ terminal' = [terminal EXCEPT !.alternate = TRUE] /\ To("term")
       \/ Fault /\ terminal' = [terminal EXCEPT !.raw = FALSE] /\ Leave("exited", "error")
    /\ UNCHANGED <<handler, terminate, stop, handle, workerVars, loopVars>>

\* Terminal::with_options, then run starts the refresh thread.
RefreshWorker_start ==
    /\ main.at = "term"
    /\ Fine /\ To("drain")
    /\ worker' = [worker EXCEPT !.at = "fetch"] /\ handle' = TRUE
    /\ state' = [some |-> FALSE, age |-> 0]
    /\ UNCHANGED <<terminal, handler, terminate, stop, done, slot, newest, frame>>

with_options_fails ==
    /\ main.at = "term"
    /\ faults < MaxFaults
    /\ faults' = faults + 1
    /\ \E failed \in SUBSET {"raw", "alternate"} : terminal' = Restored(failed, TRUE)
    /\ Leave("exited", "error")
    /\ UNCHANGED <<handler, terminate, stop, handle, workerVars, loopVars>>

-----------------------------------------------------------------------------
(* The refresh thread. *)

\* connect + GetState; the completion instant is stamped here, whatever the
\* outcome. Nothing bounds how long it takes.
fetch_snapshot ==
    /\ worker.at = "fetch"
    /\ worker' = [at |-> "publish", fetched |-> <<0>>]
    /\ UNCHANGED <<main, terminal, handler, terminate, stop, done, handle, slot, loopVars,
                   newest, faults>>

\* SnapshotSlot::publish overwrites.
publish_KeepsOldest ==
    /\ worker.at = "publish"
    /\ slot' = IF slot = <<>> THEN worker.fetched ELSE slot
    /\ newest' = worker.fetched
    /\ worker' = [at |-> "wait", fetched |-> <<>>]
    /\ UNCHANGED <<main, terminal, handler, terminate, stop, done, handle, loopVars, faults>>

publish ==
    /\ worker.at = "publish"
    /\ slot' = worker.fetched /\ newest' = worker.fetched
    /\ worker' = [at |-> "wait", fetched |-> <<>>]
    /\ UNCHANGED <<main, terminal, handler, terminate, stop, done, handle, loopVars, faults>>

\* The sliced sleep to the next tick ends early on the stop flag, and the
\* loop's own test then ends the thread with its acknowledgement.
NextRound ==
    /\ worker.at = "wait"
    /\ worker' = [worker EXCEPT !.at = IF stop THEN "gone" ELSE "fetch"]
    /\ done' = (done \/ stop)
    /\ UNCHANGED <<main, terminal, handler, terminate, stop, handle, slot, loopVars, newest,
                   faults>>

-----------------------------------------------------------------------------
(* drive: the frame loop. *)

\* while let Some(..) = drain(): one take per step, until the slot is empty.
drain ==
    /\ main.at = "drain"
    /\ IF slot = <<>>
       THEN To("check") /\ UNCHANGED <<slot, state>>
       ELSE /\ state' = [some |-> TRUE, age |-> slot[1]]
            /\ slot' = <<>>
            /\ UNCHANGED main
    /\ UNCHANGED <<terminal, handler, terminate, worker, stop, done, handle, frame, newest, faults>>

termination_check ==
    /\ main.at = "check"
    /\ IF terminate
       THEN restore /\ To("shutdown")
       ELSE Fine /\ To("draw") /\ UNCHANGED terminal
    /\ UNCHANGED <<handler, terminate, stop, handle, workerVars, loopVars>>

\* LoopState::view at this instant.
view == IF state.age >= STALE_AFTER THEN "stale" ELSE "live"

\* A draw may fail, and render may panic: the hook then restores first and
\* the worker is dropped on the way out.
draw ==
    /\ main.at = "draw"
    /\ \/ Fine /\ To("poll") /\ frame' = view /\ UNCHANGED terminal
       \/ Fault /\ Leave("shutdown", "error") /\ UNCHANGED <<frame, terminal>>
       \/ restore /\ Leave("drop", "panic") /\ UNCHANGED frame
    /\ UNCHANGED <<handler, terminate, stop, handle, workerVars, state>>

\* One poll window: no key or one that only sets the notice line, a quit key,
\* or an error.
poll ==
    /\ main.at = "poll"
    /\ \/ Fine /\ (To("drain") \/ To("shutdown"))
       \/ Fault /\ Leave("shutdown", "error")
    /\ UNCHANGED <<terminal, handler, terminate, stop, handle, workerVars, loopVars>>

\* RefreshWorker::shutdown: raise the flag, then join on the acknowledgement
\* or detach once SHUTDOWN_GRACE has passed. run calls it, and Drop again.
shutdown_Joins ==
    /\ main.at \in {"shutdown", "drop"}
    /\ IF ~stop THEN stop' = TRUE /\ UNCHANGED <<main, handle>>
       ELSE /\ done
            /\ handle' = FALSE /\ UNCHANGED stop
            /\ To(IF main.at = "shutdown" THEN "drop"
                  ELSE IF main.result = "panic" THEN "exited" ELSE "restore")
    /\ UNCHANGED <<terminal, handler, terminate, workerVars, loopVars, faults>>

shutdown ==
    /\ main.at \in {"shutdown", "drop"}
    /\ IF ~stop THEN stop' = TRUE /\ UNCHANGED <<main, handle>>
       ELSE /\ handle' = FALSE /\ UNCHANGED stop
            /\ To(IF main.at = "shutdown" THEN "drop"
                  ELSE IF main.result = "panic" THEN "exited" ELSE "restore")
    /\ UNCHANGED <<terminal, handler, terminate, workerVars, loopVars, faults>>

\* main's own restore, on every return of run.
MainRestores ==
    /\ main.at = "restore"
    /\ restore /\ To("exited")
    /\ UNCHANGED <<handler, terminate, stop, handle, workerVars, loopVars>>

-----------------------------------------------------------------------------
(* The surroundings. *)

Alive == main.at \notin {"exited", "killed"}

\* A terminating signal: recorded when the handler is in, fatal otherwise.
record_termination ==
    /\ Alive
    /\ IF handler THEN ~terminate /\ terminate' = TRUE /\ UNCHANGED main
       ELSE To("killed") /\ UNCHANGED terminate
    /\ UNCHANGED <<terminal, handler, stop, handle, workerVars, loopVars, faults>>

Older(n) == IF n < AGE_CAP THEN n + 1 ELSE n
Aged(snapshot) == [i \in DOMAIN snapshot |-> Older(snapshot[i])]

Tick ==
    /\ Alive
    /\ slot' = Aged(slot) /\ newest' = Aged(newest)
    /\ worker' = [worker EXCEPT !.fetched = Aged(@)]
    /\ state' = [state EXCEPT !.age = Older(@)]
    /\ UNCHANGED <<main, frame, terminal, handler, terminate, stop, done, handle, faults>>

MainNext ==
    \/ install_terminate_handler \/ enable_raw_mode \/ setup_terminal
    \/ RefreshWorker_start \/ with_options_fails
    \/ drain \/ termination_check \/ draw \/ poll \/ shutdown \/ MainRestores

\* Once the process is gone its threads are too.
WorkerNext == Alive /\ (fetch_snapshot \/ publish \/ NextRound)

Next == MainNext \/ WorkerNext \/ record_termination \/ Tick

\* The main thread is never blocked for good: a poll window and the shutdown
\* grace both end by themselves. Its drain finds the slot empty sooner or
\* later, since a round takes the refresh thread a whole REFRESH period and a
\* take none. Nothing is assumed of the fetch.
Fairness == WF_vars(MainNext) /\ SF_vars(drain /\ slot = <<>>)

Spec == Init /\ [][Next]_vars /\ Fairness

-----------------------------------------------------------------------------
(* Properties. *)

\* A process that ends by itself has handed the terminal back, but for a half
\* whose last restoring operation failed: the roll-back of setup_terminal and
\* the restores of termination_check, of the panic hook and of main leave
\* neither raw mode nor the alternate screen behind, on any way out and in any
\* order of signals, errors and panics.
TerminalIsHandedBack ==
    main.at = "exited" =>
        /\ terminal.raw => "raw" \in terminal.stuck
        /\ terminal.alternate => "alternate" \in terminal.stuck

\* The slot keeps the newest: when it is empty the loop already holds the
\* last snapshot published, and otherwise the slot holds it, however many
\* refreshes went by between two frames.
NewestIsKept ==
    newest # <<>> =>
        newest = IF slot # <<>> THEN slot ELSE IF state.some THEN <<state.age>> ELSE <<>>

\* A recorded signal ends the process, whatever the refresh thread waits for:
\* shutdown detaches a thread that is still in its fetch.
SignalEndsTheClient == terminate ~> ~Alive

=============================================================================

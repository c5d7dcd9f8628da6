# Verification of protonwire

TLA+ models of protonwire (a Linux VPN daemon written in Rust, with its clients),
the TLC configurations that check them on small instances, and TLAPS proofs of
the properties that must hold for every instance. Paths below are relative to
`src/`; `PROJECT.json` maps every definition to the lines it models, and lists
the hazards of the code with the properties that watch them.

## The system

`protonwired` is one process with many threads. A client connects to its Unix
socket; the accept loop gives the connection a session of three threads. A
session thread asks the scheduler for a refresh, the selection engine for a
server, the account for a login, or the connection lane for a tunnel. The lane
starts an engine, whose callback thread feeds a bounded channel that the lane's
pump drains into the published state. The engine keeps its credentials through
the persistence facade, whose worker writes them to disk. Every published state
is a numbered event on the bus, which each client's session forwards to it.
`crates/net` installs routes, kill switch and resolver for a tunnel.

| part | code | modules |
|---|---|---|
| catalog refresh scheduler, durable deadlines, automatic driver | `crates/core/src/scheduler.rs`, `crates/store/src/deadlines.rs`, `apps/daemon/src/lib.rs` | `Scheduler`, `SchedulerProofs` |
| daemon process: start, signals, joins, exit code | `apps/daemon/src/main.rs` | `DaemonProcess`, `ProcessesProofs` |
| connection lane with a pump thread per tunnel | `apps/daemon/src/connect.rs` | `ConnectionLane`, `ConnectionLaneProofs`, `VpnState` |
| event path from the engine's callback to the published state | `crates/protocol/src/engine.rs`, `connect.rs` | `EventPump`, `EventPumpProofs`, `VpnState` |
| feature ledger and its callbacks | `crates/protocol/src/{reconcile,engine}.rs` | `FeatureLedger`, `CacheLedgerProofs` |
| request translation and the engine's connect | `crates/protocol/src/{params,translate,tun,engine}.rs` | `WireDocuments` |
| credential cache: facade, key file, sealed entries | `crates/protocol/src/{facade,cache}.rs` | `PersistenceFacade`, `CacheOps`, `DurableMap`, `FacadeProofs`, `CredentialCache`, `CacheLedgerProofs` |
| bypass marks of the outer sockets | `crates/protocol/src/marks.rs` | `OuterSockets`, `NetworkProofs` |
| network session, route transactions, drift repair, resolver | `crates/net/src/{session,route_txn,route_drift,tables,dns}.rs` | `NetSession`, `NetworkProofs` |
| kill switch, permanent mode, uplink discovery | `crates/net/src/{kill_switch,permanent,adapters,dns,netns}.rs` | `KillSwitch` |
| event numbering, bus, forwarder, client cursor | `crates/core/src/state.rs`, `crates/ipc/src/{bus,client}.rs`, `crates/client/src/lib.rs` | `EventStream` |
| threads of a session; sessions under the ceiling | `crates/ipc/src/server/{session,mod}.rs`, `bus.rs` | `SessionThreads`, `SessionThreadsProofs`, `AcceptLoop`, `ProcessesProofs` |
| framing, deadlines of client calls | `crates/ipc/src/{frame,client}.rs` | `Transport`, `ProcessesProofs` |
| binding the socket | `crates/ipc/src/server/bind.rs` | `SocketBind` |
| trust walks, peers, roles | `crates/store/src/fs_trust.rs`, `crates/ipc/src/{peer,authz,client}.rs` | `TrustWalk` |
| commands end to end: arguments, request, handler, exit code | `apps/cli`, `crates/client`, `apps/daemon/src/lib.rs` | `CommandLine` |
| terminal dashboard | `apps/tui` | `Dashboard`, `ProcessesProofs` |
| selection, groups, the daemon's gates around them | `crates/core/src/{selection,groups}.rs`, `apps/daemon/src/selection.rs` | `Selection`, `SelectionPlane`, `Decisions` |
| shared state of concurrent selections: entitlements, probes | `apps/daemon/src/selection.rs`, `crates/core/src/probe.rs` | `SelectionEngine` |
| login family | `crates/api/src/auth.rs`, `apps/daemon/src/services.rs` | `Account` |
| API documents and pacing answers | `crates/api/src` | `WireDocuments`, `WireReference` |
| credential inputs, store resolution | `crates/store/src/{credential_input,writable_store}.rs` | `WireDocuments` |
| durable documents, session stores | `crates/store/src/{session,state,deadlines,catalog}.rs` | `DocumentStore` |
| configuration, overlay, YAML anchor scan | `crates/store/src/{config,yaml.rs}` | `Configuration`, `PolicyReference` |
| redaction of the log | `crates/core/src/redact.rs` | `Redaction` |
| repository gates | `xtask/src/{deps,license,m49,manifest,groups}.rs` | `ReleaseGates`, `GateReference` |

Two kinds of module. A **machine** has variables and actions; a section the code
runs under one lock is one action, and a call is cut wherever the code releases
a lock, waits, or makes a system call that can fail. A **computation** (a filter,
a parser, a gate) is a set of operators; a `*Reference` module, or the last
section of its own, asks it one question per behaviour and compares its answer with a statement that does not
follow the code's order of tests.

The `MC*` modules give constants values that a configuration cannot write. `MCNetwork`, `MCRecords` and
`MCProcesses` each put several machines that share no state side by side: the
variable `part` names the one a behaviour belongs to, so that the state spaces
add up and do not multiply. An operator whose name ends in `_Word` next to a
definition is that definition with a plausible mistake; each property is known
to fail with one.

## Machines

**Scheduler.** `refresh_automatic` and `refresh_manual` (the two doors), `Join`
and `Wake` (the condition-variable wait), `lead_refresh` (first section: bare
save, anchor, health gate), `Fetch` and `Respond` (outside the mutex),
`complete_refresh` (second section). `Crash` and `production` are process death
and restart, which keep `disk` and `cache` only. `ClockMoves` sets the wall clock
to any value. A save fails by choice. The variables marked *history* record what
the properties talk about and guard nothing.

**ConnectionLane.** A disconnect, a drain or a second connect can run inside a
reconnect. The pump of each connection is a process of its own; the event path is
reduced to "the pump dequeues some state, then publishes it".

**EventPump.** That path in detail: the callback records the latest state, tries
the channel and, when it is full, counts a dropped state or retains a fatal
event, each as its own step. The pump receives, reconciles drops, publishes,
suppresses a stale backlog and probes for its end. A teardown races both.

**FeatureLedger.** The two callbacks on the engine's thread against the handle's
`update` on another: the ledger's epochs, the forwarding queue, and the recovery
slots that keep one event of each control class when the queue is full. The
server may apply or refuse anything at any time.

**PersistenceFacade.** A caller changes memory and takes a sequence number, then
tries the queue, parks on failure, then records the failure, in separate steps.
The worker takes ready retries and the overflow lane, receives, fills its batch,
coalesces it, and applies it key by key, each write failing by choice.
`DurableMap` is the abstract promise: callers issue operations that take effect
in memory at once, and the disk takes each key's operations in increasing order,
skipping some. The facade implements it with `applied <- last_applied`.

**CredentialCache.** Two openers race to create the key file; a process may stop
and the power may fail between any two system calls. A name outlives a power
failure only when its directory was synced.

**OuterSockets.** The protect callbacks overlap; each atomic operation on the
packed health word is a step, with the word's fields at their widths.

**NetSession.** Connect plans its tables, arms the switch, validates and
probes it, commits a batch of rules and routes with its reverse rollback, and
writes the resolver; every netlink, netfilter or file call may fail. Other
managers act between steps. A crash drops what hangs on the TUN device and keeps
rules and nftables. Nothing in the tree calls these sequences yet: the caller
assumed here numbers its connects and keeps what the last successful one returned.

**EventStream.** One session's events from number to application. Taking a
number, offering the event to the queue and marking a full queue are separate
steps, because the forwarder shares no lock with the publisher; the core lock,
held across them, keeps snapshots out. The client handshakes, asks for events,
makes requests during which events are buffered, and resynchronises. The state of
the daemon is named by the number of the last event. The forwarder's per-version
filter is left out: no version that can be negotiated today is filtered.

**SessionThreads, AcceptLoop.** The dispatcher, forwarder and writer of one
session, cut at every channel operation and every access to the write window; and
several sessions under the ceiling, with reaping and the forced drain. The peer
may send out of turn, stall, or hang up; a handler may block or panic.

**Transport.** Frames cut into pieces by a small socket, the reader's partial
frame over polls and timed-out calls, the poisoning of a client whose call was
cut. A byte is named by its frame and place.

**SocketBind.** Each system call of the bind is a step that may fail; daemons are
started one after the other, stop, and leave their sockets behind.

**DocumentStore.** Each document is loaded with its checks and saved through a
temporary sibling: create, mode, write, sync, rename. Two threads, restarts with
the same process id or another, failed calls, power failures, outside changes.

**Account.** Two peers' calls interleave at the adapter's mutex; the guard that
reads the store before a login does not hold it. The upstream client is external.

**SelectionEngine.** Requests share the entitlement cell with its single-flight
slot, the probe table with its revision and attempt clocks, and the active
revision; accounts are replaced and catalogs refreshed in the middle of a round.

**Redaction.** Secrets are registered and dropped while a line arrives in pieces.

**Dashboard, DaemonProcess.** The render loop, the refresh thread and the
terminal's state; the daemon from its signal handlers to its exit code, a signal
landing between any two steps.

## Runs

| run | shows |
|---|---|
| `scheduler_pacing` | crashes, restarts, failing saves and clock jumps never break the floor, the suppression, or the durability of either; etags name durable catalogs |
| `scheduler_flight` | one leader at a time; a token authorises one lead; every call returns; a due window is served |
| `lane` | one tunnel; owner and slot agree; a retired pump never overwrites Disconnecting; nothing happens after a drain; Ok from disconnect means down; calls end; a dead tunnel frees its owner; a dropped lane closes its tunnel |
| `pump` | the published state never goes back and reaches the engine's last one; fatal events survive a full channel and close the tunnel |
| `facade`, `facade_overflow` | the newest operation of a key is on disk, in hand, or reported lost; the disk never goes back; it catches up; the facade implements `DurableMap` |
| `stream` | the ack comes first; nothing is skipped silently; the view never goes back and catches up |
| `session` | the write window is exact and bounds the responses held; queued responses are flushed; slots and threads are given back; serve returns |
| `network` | routes only behind the switch and in own tables; a failed commit is undone; Ok from disconnect leaves nothing; healthy means every socket is marked; the key opens every entry; the ledger answers the request in force and loses no class of control event |
| `records` | stored documents are whole and private, and give way to an older generation only in a race of two saves; a second factor completes its own login; entitlements and observations belong to their session and catalog; no registered secret is logged; a serving daemon is the one the socket's name leads to |
| `processes` | slots count sessions; reads stay aligned; the terminal is handed back; the exit code tells why; every call, thread and process ends |
| `decisions` | selection, commands, configuration and trust, wire documents and translation, firewall permits and uplink discovery, repository gates: each answer agrees with its reference on every question |

Each property of a run conjoins the statements that one hazard needs; the
conjuncts are definitions of the machine's module, each with its comment.
`TypeOK` is proved for the scheduler and is a conjunct of the properties of the
machines in `network`, `records` and `processes` that have one.

## What the code does where its comments say otherwise

Met while modelling; the model does what the code does, and the properties are
stated so as to hold of it.

- Scheduler: a crash between a 429 answer and the following save loses the
  suppression (`core/src/scheduler.rs:1084`, against line 26).
- Facade: the health flag can stay set with nothing outstanding
  (`protocol/src/facade.rs:359`, against 449-452).
- Client: its event buffer is as long as the session queue and holds the resync
  marker too, so a request can push the marker out in front of the events behind
  it (`ipc/src/client.rs:406`, against 143).
- Bus: the queue can be drained between a failed `try_send` and the mark, which
  then waits for an event that may never come (`ipc/src/bus.rs:135`, against
  `server/session.rs:102`). `StreamIsFaithful` and `CatchesUp` except exactly
  these two situations.
- Resolver: after its own rename a revert finds another inode than the one it
  recorded and refuses, so a normal disconnect does not restore the file; another
  manager's file that was given the inode the rename freed is taken for the
  original and overwritten (`net/src/dns.rs:216-219`).
- Permanent mode: a reconnect whose route transaction fails removes the switch
  (`net/src/session.rs:142`, against `permanent.rs:98-100`).
- Early firewall: its probe is bound to `lo` and errors after the table is
  installed (`permanent.rs:79-83`).
- Credential cache: `put` returns Ok while another opener's directory entry of
  the key is not yet synced.
- Selection: the exclusion stage runs before the secure-core stage, where the
  comment on the stages gives the other order (`core/src/selection.rs:514-520`).
- Dependency gate: `closure_routes` is documented as breadth-first and walks
  depth-first; the shortest route it prints need not be the shortest.
- Overlapping daemon starts can displace each other's staging
  (`ipc/src/server/bind.rs:18-19`); the run starts them one after the other.

Seen as well. Network: an error of the resolver during connect leaves switch and
routes with no session state; a failed validation or probe leaves the table; a
failed reconnect removes the switch while the routes of the earlier session stay;
residue of a crash found present is never taken over, and that of a first connect
is orphaned; more than three copies of a rule survive the removal loop;
`contains("carrier")` matches `no-carrier`. Store: a failed save leaves its temporary behind; one that reuses a
process id and sequence fails once; the memory arm has no generation floor; the
state document's schema is not checked; a rename is not followed by a sync of the
directory. Selection: stale rounds probe without reserving; an attempt clock is
the time of the reservation; a refresh without etag in the same second keeps its
key; a wall clock that steps back makes rounds stale. Ledger: a refusal may stay
retained after the update that settled it. Client: `next_event` does not poison
on an oversized or malformed frame. Login: it can complete over a session made
between its guard and its exchange; an end of input reads as an empty line.
Others: a joiner can find a later generation's report, which the code handles;
the daemon can exit while an abandoned session leads; a drain leaves the
published state as it was; a producer can park and record between the facade
worker's overflow check and its clear, which erases the record; the dashboard's
worker shutdown runs twice; a secret that holds a newline is never matched.

## Bounds

Every bound is a named constant; the runs set `CHECK_DEADLOCK FALSE` because a
bounded run ends when its calls are used up.

- Scheduler: two boots give one crash with a recovery; the wall clock takes three
  values, enough to be before, at and after the floor, to reach the end of a
  suppression of two, and to jump back; two catalog revisions let the etag go
  stale; `U64Max` is small so that additions saturate; the flight run has three
  threads, so that a joiner can be overtaken by a whole generation.
- Lane: three callers (a reconnect, a disconnect, a drain at once) and two
  connections, an old and a new. Pump: a channel of two against three states and a
  statistics event, so that it overflows while a backlog is queued.
- Facade: two keys tell a clear from a remove, with a queue of two so that batches
  coalesce; in the overflow run three operations fill a queue of one, park one and
  leave one to race the worker.
- Stream: five events against a queue, a wire and a buffer of two each, so that
  each overflows with events on either side of the loss. Session: a hello and two
  requests against a window of one, smaller than the channel as in the code, and
  two events, of which one may overflow; the counter's range is small so that it
  wraps.
- Network: two generations (a connect and its reconnect or repair), two troubles
  (an error, and another during its rollback), one act of another manager, and an
  `rt_tables` file in which one id is taken, one overridden and one squatted by
  routes. Three sockets fill an in-flight count of two bits. Two openers, two
  keys, two puts and two stops let a second opener act on what a power failure
  left of the first. The ledger's queue of one overflows with three reports.
- Records: two threads and three saves make one save land inside another; every
  kind of document, with one size above each limit and one defect for each check
  of its loader. Two logins by two peers. The engine is run in two worlds, one
  where accounts are replaced and one where the catalog is refreshed under
  latency rounds. Secrets of one, two and four letters, one inside another. Three
  starts of two daemons with two failing calls.
- Processes: three connections against two slots; a socket smaller than a frame;
  three client calls; two failing terminal operations.
- Decisions: the questions are the products of the sets in `MCDecisions` and the
  `Asks` predicates of the reference modules: all subsets of a fleet of five
  servers, every command with each role and each answer, each rule's field at,
  below and above its limit.

## Fairness

Scheduler: a thread that can move moves (weak fairness per thread), and fetches
are answered, as the HTTP client's timeout guarantees; clock, crash and upstream
get none. Lane: weak fairness of callers and pumps; the pump's quiet 200 ms
cadence, on which alone it notices a dropped lane, is assumed to come again and
again (strong fairness) - an engine that emits an event at least every 200 ms for
ever would postpone it. Pump: weak fairness of callback, pump and teardown steps
once started. Facade: weak fairness of callers and worker, strong fairness of
taking retries (backoff is capped at 30 s), and of a successful write, which says
that the cache directory does not fail for ever. Stream: weak fairness of the
emitter once it has a number, of the forwarder, the dispatcher, and the client,
whose application keeps asking for events; none of emitting, requests or
timeouts. Session: weak fairness of the three threads and of the accept loop; a
write ends because it has a deadline in user space, the drain because of its
ceiling. The peer, the clock and the handlers that block get none.

Processes: weak fairness of the accept loop's steps and none of the sessions (the
drain forces them); of the client's clock and reader, none of the daemon at the
other end; of the dashboard's main thread, whose drain finds the slot empty again
and again because a refresh takes a period and a take none (strong fairness), and
none of its fetch; of the daemon's own threads, none of signals. `network`,
`records` and `decisions` check safety only.

## Proofs

`SchedulerProofs` proves, for any number of session threads and any values of the
constants that satisfy `SchedulerConfigValid`, each safety property of
`scheduler_pacing` and `scheduler_flight`. `TypeCorrect` comes first. The safety
properties are not inductive one by one: the floor holds at a contact only
because the in-memory document covers the last contact, which survives a crash
only because the anchor was on disk before the request left, which in turn relies
on there being a single leader. `PacingInv` states these together; `PacingStep`
shows that each action preserves it, with a lemma for what leading a refresh
(`LeadEffect`) and for what completing one does. `PacingIsKept` and
`RecordIsHonest` collect its conjuncts; `LeadHasOneOwner` adds
`TokensAreSingleUse`, which has a small invariant of its own: tokens are numbered
by minting, and no redeemed number is pending. `DeadlinesNeverRewind` is an
action property from the same invariant.

`ConnectionLaneProofs` proves both safety properties of the lane for any callers,
any uids and any number of connections. That one tunnel is up is not inductive: a
reconnect starts the new one only because whoever emptied the lane has joined the
old pump, which is so only because a call inside a window excludes every other.
`LaneInv` says who is inside a window and what they have emptied (`Windows`,
`Labels`), that only the connection started last has a pump or a tunnel
(`Newest`), where its handle is (`Slots`), that somebody will join the pump and
stop the tunnel (`Attended`, `LiveIsHeld`), and what is down past a join
(`Settled`, `Drained`). `TeardownsAreFinal` is an action property from it.

`EventPumpProofs` proves `ShownOnlyAdvances` for any queue bound and any history of
engine states. It holds because states wait in the order they were reported (the
one in hand, the probe's catch, the queue: `Ordered`) and because, whenever the
pump jumped ahead to the latest state, the backlog flag is armed until what waits
has caught up (`Current`).

`SessionThreadsProofs` proves `SessionIsBounded` for any lengths of the queues and
any window. The dispatcher looks at the window at the top of its loop and queues
the reply much later; `Windowed` says that the look still holds, since only the
dispatcher adds responses, and `Counted` follows the counter through the threads,
the dispatcher's own reservation included. `SessionAssumption` asks that a full
channel and one message per thread fit the counter's range.

`ProcessesProofs` proves the four safety properties of `processes`, of any
constants that satisfy `ProcessesAssumption`:

- `SlotsHold`: a spawn adds one worker only because the connection had none, and
  stays under the ceiling only because the slot was taken against it earlier; so
  `SlotInv` also says that a connection is in one place and that the one being
  taken in has its slot or is about to be refused.
- `ExitIsHonest`: `Startup` says which threads and socket can exist at each step
  of `run`, so that an early exit finds none and a clean one has joined all.
- `ReaderStaysAligned`: the reader holds the first bytes of the next frame
  (`InHand`), and there are offsets of the frames in the whole stream under which
  the socket holds, in order, the bytes between reader and writer (`Layout`). A
  call that times out leaves the reader's buffer, and with it the layout, in place.
- `TerminalComesBack`: `Begun` says what `setup_terminal` has touched at each step,
  that nothing is published before the refresh thread starts, and that a panic has
  run its hook.

`NetworkProofs` proves `HealthyMeansMarked` for fewer sockets than the in-flight
field has values (2^14 in the code, whose reported count is wider). `WordInv`
reads the word as arithmetic: above the latch it is the number of callbacks inside
plus the field size times the number reported, and the latch is set whenever a
socket went on unmarked. The bound is needed: with as many callbacks inside as the
field has values the count reads zero.

`CacheLedgerProofs` proves `KeyOpensEveryEntry` for any openers and cache keys: the
durable keyfile is absent or the visible one, an entry exists, on either disk, only
sealed under a key whose name is durable, and an opener past the synchronisation of
the keyfile holds that key (`KeyInv`); with one disk alone a power loss could take
the key and leave its entries. It proves `LedgerIsFaithful` for any settings and queue
bound: a report enters the ledger only under the epoch it was read in (`Answers`),
and a class of control event is owed only while it is queued, retained or in a
callback's hands (`Held`). The assumptions of both are `NetworkAssumption`.

`NetworkProofs` also proves `RoutedOnlyBehindTheSwitch`, for any number of connects,
failing calls and steps of other managers and any table ids those may take
(`rt_tables` is the file of `MCNetwork`). `NetInv` says that the switch of the
attempt stands while its routes are installed (`SwitchInv`), that every operation
still to be sent, applied or undone is one of ProtonWire's shapes (`JobInv`), so that
the host's rules stay recognisable as its own and finitely many (`HostInv`), and that
the caller's record is a plan of distinct ids above the kernel's, none with a name
(`CallerInv`). The last two are what planning needs: since finitely many ids are
taken, the scan above the preferred id is longer than what it may meet and finds a
free one (`FirstFreeIsFree`, by counting), and an id in use is planned again only on
the evidence of a rule of its own.

`FacadeProofs` proves `NothingIsLost` and the refinement of `DurableMap`, for any
callers, keys, queue bound and number of operations. `NothingIsLost` speaks of the
newest op of a key only, and is not inductive: coalescing and the lanes drop ops that
a newer one covers, and that one may be dropped in turn. `FacadeInv` says it of every
op (`NoneIsLost`: durable, superseded, or an op as new on the same key in hand), that
whatever is in hand was issued or is what an issued clear does to one key
(`InHandIsSound`), that a watermark is the op the disk shows and memory the newest op
(`WatermarkIsTrue`, `MemoryIsNewest`), and what callers and worker hold at each step
(`Stages`). The loops of the code - `retain`, parking, coalescing, expanding a clear -
are recursive functions here; what each leaves is proved by induction on its turns,
from the least number at which it would fail (`UpTo`), and that each has a value from
`Iterate`. In the refinement an op that gets its number issues a write, a write that
succeeds persists one, and every other step stutters (`RefinementStep`); a shutdown
that reports nothing has nothing in hand, so the disk is what memory is
(`NothingInHand`).

Only model-checked: liveness under fairness, which is out of the provers' reach;
`TeardownIsComplete`, which holds because at most as many copies of a rule arise as
the code's deletion loop removes, hence only within the bound on other managers'
steps; the event stream; and the machines of `records`. The statements of `decisions` are about operators that recurse
over their input.

## Not modelled

- `crates/policy`, `crates/port-forwarding`: types and constants only.
- `crates/store/src/paths.rs`: constants and joins of path names.
- `crates/api/src/runtime.rs`: sockets, timers and executor for the HTTP client.
- The graphical shell (one command, a connect and a state request) and the
  credential agent (a skeleton).
- The text of the early-boot unit; `xtask`'s generators and test runners; printed
  output, logging and wording.
- Libraries (TOML, YAML and JSON parsers, ciphers, netlink encoding, Muon, ProTUN)
  are external: they act by choice within what the code accepts of them.

-------------------------- MODULE ProcessesProofs --------------------------
(***************************************************************************)
(* The safety of the accept loop, the framed transport, the terminal client *)
(* and the daemon process, for every value of their constants. Each has its *)
(* own inductive invariant over its own state, which the steps of the other *)
(* parts leave alone.                                                       *)
(***************************************************************************)
EXTENDS MCProcesses, FiniteSetTheorems, TLAPS

\* A step of the whole is, for each part, a step of that part or a stutter.
LEMMA PartSteps ==
    ASSUME [Next]_vars
    PROVE  /\ [Accepts!Next]_accepts /\ [Wire!Next]_transport
           /\ [Tui!Next]_tui /\ [Daemon!Next]_daemon
  BY Zenon DEF Next, vars, AcceptStep, WireStep, TuiStep, DaemonStep

-----------------------------------------------------------------------------
(* The accept loop.                                                         *)

\* A connection is in one place only: waiting, being taken in, or a worker's.
Places ==
    /\ worker \in [Connections -> {"none", "running", "stuck", "finished"}]
    /\ backlog \cup current \subseteq sock
    /\ \A c \in backlog \cup current : c \in Connections /\ worker[c] = "none"
    /\ backlog \cap current = {}
    /\ subscribed \subseteq Accepts!Alive /\ sessions \subseteq Connections
    /\ IF serve \in {"reserved", "full"} THEN \E c : current = {c} ELSE current = {}

\* The counter is the workers and the connection being taken in, which has
\* its slot or is about to give it back.
Counts ==
    /\ IsFiniteSet(Accepts!Alive)
    /\ reserved = Cardinality(Accepts!Alive) + Cardinality(current)
    /\ Cardinality(Accepts!Alive) <= MAX_SESSIONS
    /\ serve = "reserved" => reserved <= MAX_SESSIONS

\* SlotsAreSessions alone is not inductive: a spawn keeps within the ceiling
\* only because the counter was compared before, and adds one worker only
\* because the connection had none.
SlotInv == Places /\ Counts

\* The loop counts as the library does.
LEMMA SameCardinality == \A S : Accepts!Cardinality(S) = Cardinality(S)
  BY Zenon DEF Accepts!Cardinality, Cardinality

\* Who is alive is read off the workers alone.
LEMMA AliveUnchanged == ASSUME worker' = worker PROVE Accepts!Alive' = Accepts!Alive
  BY DEF Accepts!Alive

\* The loop starts with no worker and no slot taken.
LEMMA SlotInit == ASSUME Accepts!Init PROVE SlotInv
  <1>1. Accepts!Alive = {}  BY DEF Accepts!Init, Accepts!Alive
  <1>2. QED
    BY <1>1, FS_EmptySet, ProcessesAssumption DEF Accepts!Init, SlotInv, Places, Counts

\* Every step of the loop, of a session and of a client preserves it.
LEMMA SlotStep == ASSUME SlotInv, [Accepts!Next]_accepts PROVE SlotInv'
  <1> USE DEF SlotInv, Places, Counts
  <1>0. Cardinality(Accepts!Alive) \in Nat /\ MAX_SESSIONS \in Nat
    BY FS_CardinalityType, ProcessesAssumption
  <1>1. CASE Accepts!reap_finished
    BY <1>1, AliveUnchanged DEF Accepts!reap_finished
  <1>2. CASE Accepts!Accept
    <2>1. Accepts!Alive' = Accepts!Alive  BY <1>2, AliveUnchanged DEF Accepts!Accept
    <2>2. CASE backlog = {} /\ serve' = "reap" /\ UNCHANGED <<backlog, current, reserved>>
      BY <1>2, <2>1, <2>2 DEF Accepts!Accept
    <2>3. ASSUME NEW c \in backlog,
                 backlog' = backlog \ {c}, current' = {c}, reserved' = reserved + 1,
                 serve' = IF reserved < MAX_SESSIONS THEN "reserved" ELSE "full"
          PROVE SlotInv'
      <3>1. Cardinality(current) = 0 /\ Cardinality(current') = 1
        BY Zenon, <1>2, <2>3, FS_EmptySet, FS_Singleton DEF Accepts!Accept
      <3>2. Places'  BY <1>2, <2>1, <2>3 DEF Accepts!Accept, Places
      <3>3. Counts'  BY <1>0, <2>1, <2>3, <3>1 DEF Counts
      <3>4. QED  BY Zenon, <3>2, <3>3
    <2>4. QED  BY Zenon, <1>2, <2>2, <2>3 DEF Accepts!Accept
  <1>3. CASE Accepts!Refuse
    <2>1. Accepts!Alive' = Accepts!Alive  BY <1>3, AliveUnchanged DEF Accepts!Refuse
    <2>2. Cardinality(current) = 1 /\ Cardinality(current') = 0
      BY Zenon, <1>3, FS_EmptySet, FS_Singleton DEF Accepts!Refuse
    <2>3. QED  BY <1>0, <1>3, <2>1, <2>2 DEF Accepts!Refuse
  <1>4. CASE Accepts!Spawn
    <2>1. PICK c : current = {c}  BY Zenon, <1>4 DEF Accepts!Spawn
    <2>2. Accepts!Alive' = Accepts!Alive \cup {c} /\ c \notin Accepts!Alive
      BY <1>4, <2>1 DEF Accepts!Spawn, Accepts!Alive
    <2>3. IsFiniteSet(Accepts!Alive')
          /\ Cardinality(Accepts!Alive') = Cardinality(Accepts!Alive) + 1
      BY <2>2, FS_AddElement
    <2>4. Cardinality(current) = 1 /\ Cardinality(current') = 0
      BY Zenon, <1>4, <2>1, FS_EmptySet, FS_Singleton DEF Accepts!Spawn
    <2>5. QED  BY <1>0, <1>4, <2>1, <2>2, <2>3, <2>4 DEF Accepts!Spawn
  <1>5. CASE Accepts!Shutdown
    BY <1>5, AliveUnchanged DEF Accepts!Shutdown
  <1>6. CASE Accepts!Drain
    BY <1>6, AliveUnchanged DEF Accepts!Drain
  <1>7. CASE Accepts!Join
    BY <1>7, AliveUnchanged DEF Accepts!Join
  <1>8. ASSUME NEW c \in Connections, Accepts!ClientConnects(c) PROVE SlotInv'
    BY Zenon, <1>8, AliveUnchanged DEF Accepts!ClientConnects
  <1>9. ASSUME NEW c \in Connections, Accepts!subscribe(c) PROVE SlotInv'
    <2>1. Accepts!Alive' = Accepts!Alive  BY <1>9, AliveUnchanged DEF Accepts!subscribe
    <2>2. QED  BY Zenon, <1>9, <2>1 DEF Accepts!subscribe, Accepts!Alive
  <1>10. ASSUME NEW c \in Connections, Accepts!HandlerBlocks(c) PROVE SlotInv'
    <2>1. Accepts!Alive' = Accepts!Alive
      BY <1>10 DEF Accepts!HandlerBlocks, Accepts!Alive
    <2>2. QED  BY Zenon, <1>10, <2>1 DEF Accepts!HandlerBlocks
  <1>11. ASSUME NEW c \in Connections, Accepts!handle_session_ends(c) PROVE SlotInv'
    <2>1. c \in Accepts!Alive /\ Accepts!Alive' = Accepts!Alive \ {c}
      BY <1>11 DEF Accepts!handle_session_ends, Accepts!Alive
    <2>2. IsFiniteSet(Accepts!Alive')
          /\ Cardinality(Accepts!Alive') = Cardinality(Accepts!Alive) - 1
      BY <2>1, FS_RemoveElement
    <2>3. current' = current /\ Cardinality(current) \in {0, 1}
      BY Zenon, <1>11, FS_EmptySet, FS_Singleton DEF Accepts!handle_session_ends
    <2>4. Places'  BY <1>11, <2>1 DEF Accepts!handle_session_ends, Places
    <2>5. Counts'
      <3> HIDE DEF Accepts!Alive, Places
      <3>1. reserved' = reserved - 1 /\ serve' = serve
        BY <1>11 DEF Accepts!handle_session_ends, Accepts!release_on_exit
      <3>2. QED  BY <1>0, <2>2, <2>3, <3>1 DEF Counts
    <2>6. QED  BY Zenon, <2>4, <2>5
  <1>12. CASE UNCHANGED accepts
    BY <1>12, AliveUnchanged DEF accepts
  <1>13. QED
    BY Zenon, <1>1, <1>2, <1>3, <1>4, <1>5, <1>6, <1>7, <1>8, <1>9, <1>10, <1>11, <1>12 DEF
       Accepts!Next

\* However many connections are made and however their sessions end, a slot is
\* held exactly by the sessions that run and the connection being taken in, and
\* no more than MAX_SESSIONS run (try_reserve_session, ReleaseSlotOnDrop).
THEOREM SlotsHold == Spec => []SlotsAreSessions
  <1>1. Init => SlotInv  BY Zenon, SlotInit DEF Init
  <1>2. SlotInv /\ [Next]_vars => SlotInv'  BY PartSteps, SlotStep
  <1>3. SlotInv => SlotsAreSessions
    <2> SUFFICES ASSUME SlotInv PROVE SlotsAreSessions  OBVIOUS
    <2> USE DEF SlotInv, Places, Counts
    <2>1. Cardinality(Accepts!Alive) \in Nat /\ Cardinality(current) \in {0, 1}
      BY Zenon, FS_CardinalityType, FS_EmptySet, FS_Singleton
    <2>2. Accepts!SlotsAreSessions  BY <2>1, SameCardinality DEF Accepts!SlotsAreSessions
    <2>3. reserved \in 0 .. MAX_SESSIONS + 1  BY <2>1, ProcessesAssumption
    <2>4. Accepts!TypeOK  BY <2>3 DEF Accepts!TypeOK, Accepts!Alive
    <2>5. QED  BY <2>2, <2>4 DEF SlotsAreSessions
  <1>4. QED  BY <1>1, <1>2, <1>3, PTL DEF Spec

-----------------------------------------------------------------------------
(* The daemon process.                                                      *)

\* How far run() has come tells which threads exist and whether the socket is
\* published, and an exit status is set once, at the exit.
Startup ==
    /\ main \in {"install", "load", "services", "bind"} => socket = <<>>
    /\ main \in {"install", "load", "services", "bind", "watch"} => watcher = "none"
    /\ main \in {"install", "load", "services", "bind", "watch", "drive"} => driver = "none"
    /\ main \in {"join watcher", "join driver"} => stop
    /\ main = "join driver" => watcher = "left"

DaemonInv == Daemon!TypeOK /\ Startup /\ Daemon!ExitTellsWhy

\* The process starts with no thread and no socket.
LEMMA DaemonStarts == Daemon!Init => DaemonInv
  <1> SUFFICES ASSUME Daemon!Init PROVE DaemonInv  OBVIOUS
  <1>1. /\ main = "install" /\ code = -2 /\ installed = 0 /\ socket = <<>>
        /\ terminate = FALSE /\ stop = FALSE /\ watcher = "none" /\ driver = "none"
    BY Zenon DEF Daemon!Init
  <1>a. Len(<<>>) <= 1 /\ 0 \in 0 .. Len(<<"INT", "TERM", "HUP", "QUIT">>)  OBVIOUS
  <1>b. code \in {-2, -1, 0, 1, 15}  BY <1>1
  <1>2. Daemon!TypeOK  BY Zenon, <1>1, <1>a, <1>b DEF Daemon!TypeOK, Daemon!Steps
  <1>3. Startup /\ Daemon!ExitTellsWhy  BY <1>1 DEF Startup, Daemon!ExitTellsWhy
  <1>4. QED  BY <1>2, <1>3 DEF DaemonInv

\* Every startup step, signal, round of a thread and join keeps it.
LEMMA DaemonSteps == ASSUME DaemonInv, [Daemon!Next]_daemon PROVE DaemonInv'
  <1> USE DEF DaemonInv, Daemon!Alive, Daemon!At, Daemon!Exit
  <1>1. ASSUME NEW i, Daemon!Signal(i) PROVE DaemonInv'
    <2>1. Daemon!TypeOK'  BY Zenon, <1>1 DEF Daemon!Signal, Daemon!TypeOK, Daemon!Steps
    <2>2. Startup'  BY Zenon, <1>1 DEF Daemon!Signal, Daemon!TypeOK, Startup
    <2>3. Daemon!ExitTellsWhy'
      <3>1. main' # "exited" \/ code' = -1  BY <1>1 DEF Daemon!Signal
      <3>2. QED  BY <3>1 DEF Daemon!ExitTellsWhy
    <2>4. QED  BY <2>1, <2>2, <2>3
  <1>2. CASE Daemon!install_terminate_handler
    <2>1. Daemon!TypeOK'
      <3>1. installed' \in 0 .. Len(<<"INT", "TERM", "HUP", "QUIT">>)
        BY <1>2 DEF Daemon!install_terminate_handler, Daemon!TypeOK
      <3>2. QED
        BY Zenon, <1>2, <3>1 DEF Daemon!install_terminate_handler, Daemon!TypeOK, Daemon!Steps
    <2>2. Startup'  BY Zenon, <1>2 DEF Daemon!install_terminate_handler, Daemon!TypeOK, Startup
    <2>3. Daemon!ExitTellsWhy'
      BY <1>2 DEF Daemon!install_terminate_handler, Startup, Daemon!ExitTellsWhy
    <2>4. QED  BY <2>1, <2>2, <2>3
  <1>3. CASE Daemon!load
    <2>1. Daemon!TypeOK'  BY Zenon, <1>3 DEF Daemon!load, Daemon!TypeOK, Daemon!Steps
    <2>2. Startup'  BY Zenon, <1>3 DEF Daemon!load, Daemon!TypeOK, Startup
    <2>3. Daemon!ExitTellsWhy'  BY <1>3 DEF Daemon!load, Startup, Daemon!ExitTellsWhy
    <2>4. QED  BY <2>1, <2>2, <2>3
  <1>4. CASE Daemon!build
    <2>1. Daemon!TypeOK'  BY Zenon, <1>4 DEF Daemon!build, Daemon!TypeOK, Daemon!Steps
    <2>2. Startup'  BY Zenon, <1>4 DEF Daemon!build, Daemon!TypeOK, Startup
    <2>3. Daemon!ExitTellsWhy'  BY <1>4 DEF Daemon!build, Startup, Daemon!ExitTellsWhy
    <2>4. QED  BY <2>1, <2>2, <2>3
  <1>5. CASE Daemon!bind
    <2>1. Daemon!TypeOK'
      <3>1. Len(socket') <= 1
        <4>1. (\E x : socket' = <<x>>) \/ socket' = socket  BY Zenon, <1>5 DEF Daemon!bind
        <4>2. \A x : Len(<<x>>) = 1  OBVIOUS
        <4>3. Len(socket) <= 1  BY DEF Daemon!TypeOK
        <4>4. CASE socket' = socket  BY <4>3, <4>4
        <4>5. ASSUME NEW x, socket' = <<x>> PROVE Len(socket') <= 1  BY <4>2, <4>5
        <4>6. QED  BY <4>1, <4>4, <4>5
      <3>2. main' \in {"watch", "exited"} /\ code' \in {code, 1}  BY <1>5 DEF Daemon!bind
      <3>3. UNCHANGED <<installed, terminate, stop, watcher, driver>>
        BY <1>5 DEF Daemon!bind
      <3>4. QED  BY Zenon, <3>1, <3>2, <3>3 DEF Daemon!TypeOK, Daemon!Steps
    <2>2. Startup'  BY Zenon, <1>5 DEF Daemon!bind, Daemon!TypeOK, Startup
    <2>3. Daemon!ExitTellsWhy'  BY <1>5 DEF Daemon!bind, Startup, Daemon!ExitTellsWhy
    <2>4. QED  BY <2>1, <2>2, <2>3
  <1>6. CASE Daemon!spawn_watcher
    <2>1. Daemon!TypeOK'  BY <1>6 DEF Daemon!spawn_watcher, Daemon!TypeOK, Daemon!Steps
    <2>2. Startup'  BY <1>6 DEF Daemon!spawn_watcher, Daemon!TypeOK, Startup
    <2>3. Daemon!ExitTellsWhy'
      BY <1>6 DEF Daemon!spawn_watcher, Startup, Daemon!ExitTellsWhy
    <2>4. QED  BY <2>1, <2>2, <2>3
  <1>7. CASE Daemon!spawn_automatic_refresh_driver
    <2>1. Daemon!TypeOK'
      BY <1>7 DEF Daemon!spawn_automatic_refresh_driver, Daemon!TypeOK, Daemon!Steps
    <2>2. Startup'
      BY <1>7 DEF Daemon!spawn_automatic_refresh_driver, Daemon!TypeOK, Startup
    <2>3. Daemon!ExitTellsWhy'
      BY <1>7 DEF Daemon!spawn_automatic_refresh_driver, Startup, Daemon!ExitTellsWhy
    <2>4. QED  BY <2>1, <2>2, <2>3
  <1>8. CASE Daemon!watch_for_termination
    <2>1. Daemon!TypeOK'
      BY Zenon, <1>8 DEF Daemon!watch_for_termination, Daemon!TypeOK, Daemon!Steps
    <2>2. Startup'  BY Zenon, <1>8 DEF Daemon!watch_for_termination, Daemon!TypeOK, Startup
    <2>3. Daemon!ExitTellsWhy'
      BY <1>8 DEF Daemon!watch_for_termination, Startup, Daemon!ExitTellsWhy
    <2>4. QED  BY <2>1, <2>2, <2>3
  <1>9. CASE Daemon!Shutdown
    <2>1. Daemon!TypeOK'  BY <1>9 DEF Daemon!Shutdown, Daemon!TypeOK, Daemon!Steps
    <2>2. Startup'  BY <1>9 DEF Daemon!Shutdown, Daemon!TypeOK, Startup
    <2>3. Daemon!ExitTellsWhy'  BY <1>9 DEF Daemon!Shutdown, Startup, Daemon!ExitTellsWhy
    <2>4. QED  BY <2>1, <2>2, <2>3
  <1>10. CASE Daemon!serve
    <2>1. Daemon!TypeOK'  BY Zenon, <1>10 DEF Daemon!serve, Daemon!TypeOK, Daemon!Steps
    <2>2. Startup'  BY Zenon, <1>10 DEF Daemon!serve, Daemon!TypeOK, Startup
    <2>3. Daemon!ExitTellsWhy'  BY Zenon, <1>10 DEF Daemon!serve, Startup, Daemon!ExitTellsWhy
    <2>4. QED  BY <2>1, <2>2, <2>3
  <1>11. CASE Daemon!automatic_refresh_driver
    <2>1. Daemon!TypeOK'
      BY Zenon, <1>11 DEF Daemon!automatic_refresh_driver, Daemon!TypeOK, Daemon!Steps
    <2>2. Startup'  BY Zenon, <1>11 DEF Daemon!automatic_refresh_driver, Daemon!TypeOK, Startup
    <2>3. Daemon!ExitTellsWhy'
      BY <1>11 DEF Daemon!automatic_refresh_driver, Startup, Daemon!ExitTellsWhy
    <2>4. QED  BY <2>1, <2>2, <2>3
  <1>12. CASE Daemon!join
    <2>1. Daemon!TypeOK'
      <3>1. Len(socket') <= 1
        <4>1. socket' = <<>> \/ socket' = socket  BY Zenon, <1>12 DEF Daemon!join
        <4>2. QED  BY <4>1 DEF Daemon!TypeOK
      <3>2. main' \in {"join driver", "exited"} /\ code' \in {code, 0}
        BY Zenon, <1>12 DEF Daemon!join
      <3>3. UNCHANGED <<installed, terminate, stop, watcher, driver>>
        BY Zenon, <1>12 DEF Daemon!join
      <3>4. QED  BY Zenon, <3>1, <3>2, <3>3 DEF Daemon!TypeOK, Daemon!Steps
    <2>2. Startup'  BY Zenon, <1>12 DEF Daemon!join, Daemon!TypeOK, Startup
    <2>3. Daemon!ExitTellsWhy'
      <3>1. \/ main' # "exited"
            \/ main = "join driver" /\ driver = "left" /\ code' = 0 /\ socket' = <<>>
               /\ UNCHANGED <<stop, watcher, driver>>
        BY Zenon, <1>12 DEF Daemon!join
      <3>2. main = "join driver" => stop /\ watcher = "left"  BY Zenon DEF Startup
      <3>3. 0 \notin {1, 15}  OBVIOUS
      <3>4. QED  BY Zenon, <3>1, <3>2, <3>3 DEF Daemon!ExitTellsWhy
    <2>4. QED  BY <2>1, <2>2, <2>3
  <1>13. CASE UNCHANGED daemon
    <2>1. Daemon!TypeOK'  BY Zenon, <1>13 DEF daemon, Daemon!TypeOK, Daemon!Steps
    <2>2. Startup'  BY Zenon, <1>13 DEF daemon, Daemon!TypeOK, Startup
    <2>3. Daemon!ExitTellsWhy'  BY <1>13 DEF daemon, Startup, Daemon!ExitTellsWhy
    <2>4. QED  BY <2>1, <2>2, <2>3
  <1>14. QED
    BY <1>1, <1>2, <1>3, <1>4, <1>5, <1>6, <1>7, <1>8, <1>9, <1>10, <1>11, <1>12, <1>13
       DEF Daemon!Next, Daemon!StartupStep

\* Whatever step a signal interrupts: status 0 only after every thread has ended
\* and the socket is gone, 1 and 15 only before either existed (run's joins).
THEOREM ExitIsHonest == Spec => []ExitTellsWhy
  <1>1. Init => DaemonInv  BY Zenon, DaemonStarts DEF Init
  <1>2. DaemonInv /\ [Next]_vars => DaemonInv'  BY PartSteps, DaemonSteps
  <1>3. DaemonInv => ExitTellsWhy  BY DEF DaemonInv, ExitTellsWhy
  <1>4. QED  BY <1>1, <1>2, <1>3, PTL DEF Spec

-----------------------------------------------------------------------------
(* The framed transport.                                                    *)

Message ==
    [kind : {"HelloAck", "HelloError", "NewerAck", "Event", "Response"},
     id : Nat, len : Nat]

\* The frame the reader is in, and the one the writer is in.
Frame == Len(delivered) + 1
Last == Len(sent)

\* What is kept of whom: a frame is written whole before the next is started.
Framed ==
    /\ sent \in Seq(Message) /\ delivered \in Seq(Message)
    /\ wire \in Seq(Nat \X Nat) /\ got \in Seq(Nat \X Nat)
    /\ pending_events \in Seq(Nat) /\ next_id \in Nat /\ asked \in Nat
    /\ written \in Nat
    /\ IF sent = <<>> THEN wire = <<>> /\ got = <<>> ELSE written <= Wire!Size(Last)

\* The reader has delivered a prefix of what was sent, and holds the first
\* bytes of the next frame.
InHand ==
    /\ Len(delivered) <= Last
    /\ \A i \in 1..Len(delivered) : delivered[i] = sent[i]
    /\ got # <<>> => Frame <= Last /\ Len(got) <= Wire!Size(Frame)
    /\ \A i \in 1..Len(got) : got[i] = <<Frame, i>>

\* E[f] is where frame f ends in the whole stream of bytes.
Offsets(E) ==
    /\ E \in [0..Last -> Nat]
    /\ \A f \in 1..Last : E[f] = E[f - 1] + Wire!Size(f)
    /\ \A f, g \in 0..Last : f <= g => E[f] <= E[g]

\* The socket holds, in order, the bytes between the reader and the writer.
Placed(E) ==
    /\ sent # <<>> =>
          E[Last - 1] + written = E[Len(delivered)] + Len(got) + Len(wire)
    /\ \A i \in 1..Len(wire) : \E f \in 1..Last : \E p \in 1..Wire!Size(f) :
          /\ wire[i] = <<f, p>>
          /\ E[f - 1] + p = E[Len(delivered)] + Len(got) + i

Layout == \E E : Offsets(E) /\ Placed(E)

\* A hang-up is reported of a writer that writes no more.
HangUps ==
    /\ result \in {"Closed", "Truncated"} => down
    /\ result = "Closed" => ~(Wire!Writing /\ written > 0)
    /\ result = "Truncated" => Wire!Writing /\ written > 0

\* That reads stay aligned is not inductive without the place of every byte
\* that is on its way.
WireInv == Wire!TypeOK /\ Framed /\ InHand /\ Layout /\ HangUps

\* A frame has at least its prefix.
LEMMA Sizes ==
    ASSUME sent \in Seq(Message), NEW f \in 1..Last
    PROVE  /\ sent[f] \in Message /\ sent[f].len \in Nat /\ sent[f].id \in Nat
           /\ Wire!Size(f) = PREFIX + sent[f].len
           /\ Wire!Size(f) \in Nat /\ Wire!Size(f) >= PREFIX /\ PREFIX >= 1
  <1>1. sent[f] \in Message  BY DEF Last
  <1>2. sent[f].len \in Nat /\ sent[f].id \in Nat  BY <1>1 DEF Message
  <1>3. QED  BY <1>1, <1>2, ProcessesAssumption DEF Wire!Size

\* A place in the stream past the k frames before it and not past the next is
\* a byte of frame k + 1.
LEMMA FrameOfPlace ==
    ASSUME sent \in Seq(Message), NEW E, Offsets(E), NEW k \in 0..Last,
           NEW f \in 1..Last, NEW p \in 1..Wire!Size(f), E[k] < E[f - 1] + p
    PROVE  /\ k < Last
           /\ E[f - 1] + p <= E[k + 1] => f = k + 1
  <1>1. Last \in Nat  BY DEF Last
  <1>2. E[f] = E[f - 1] + Wire!Size(f) /\ Wire!Size(f) \in Nat  BY Sizes DEF Offsets
  <1>3. E[k] \in Nat /\ E[f] \in Nat /\ E[f - 1] \in Nat  BY <1>1 DEF Offsets
  <1>4. E[k] < E[f]  BY <1>2, <1>3
  <1>5. k < f
    <2>1. f \in 0..Last /\ (f <= k => E[f] <= E[k])  BY <1>1 DEF Offsets
    <2>2. QED  BY <1>1, <1>3, <1>4, <2>1
  <1>6. ASSUME E[f - 1] + p <= E[k + 1] PROVE f = k + 1
    <2>1. f - 1 \in 0..Last /\ k + 1 \in 0..Last  BY <1>1, <1>5
    <2>2. k + 1 <= f - 1 => E[k + 1] <= E[f - 1]  BY <2>1 DEF Offsets
    <2>3. E[k + 1] \in Nat  BY <2>1 DEF Offsets
    <2>4. QED  BY <1>1, <1>3, <1>5, <1>6, <2>2, <2>3
  <1>7. QED  BY <1>1, <1>5, <1>6

\* The layout is read off the frames, the writer's place and the reader's.
LEMMA SameLayout ==
    ASSUME WireInv, UNCHANGED <<sent, written, wire, got, delivered>>,
           pending_events' \in Seq(Nat), next_id' \in Nat, asked' \in Nat
    PROVE  Framed' /\ InHand' /\ Layout'
  <1> USE DEF WireInv
  <1>1. Framed'  BY DEF Framed, Last, Wire!Size
  <1>2. InHand'  BY DEF InHand, Frame, Last, Wire!Size
  <1>3. Layout'
    <2>1. PICK E : Offsets(E) /\ Placed(E)  BY DEF Layout
    <2>2. Offsets(E)' BY <2>1 DEF Offsets, Last, Wire!Size
    <2>3. Placed(E)'  BY Zenon, <2>1 DEF Placed, Last, Wire!Size
    <2>4. QED  BY <2>2, <2>3 DEF Layout
  <1>4. QED  BY <1>1, <1>2, <1>3

\* A reader in place takes the announced length from its own prefix: it asks
\* for the rest of the frame and no more, and nothing once it has it all.
LEMMA AsksForTheRest ==
    ASSUME WireInv
    PROVE  /\ got = <<>> => Wire!Needs(got) = {PREFIX}
           /\ got # <<>> =>
                /\ Frame \in 1..Last /\ Len(got) \in 1..Wire!Size(Frame)
                /\ \A need \in Wire!Needs(got) :
                      need \in 0 .. Wire!Size(Frame) - Len(got)
                /\ 0 \in Wire!Needs(got) <=> Len(got) = Wire!Size(Frame)
  <1> USE ProcessesAssumption DEF WireInv
  <1>1. got = <<>> => Wire!Needs(got) = {PREFIX}  BY DEF Wire!Needs
  <1>2. ASSUME got # <<>>
        PROVE  /\ Frame \in 1..Last /\ Len(got) \in 1..Wire!Size(Frame)
               /\ \A need \in Wire!Needs(got) : need \in 0 .. Wire!Size(Frame) - Len(got)
               /\ 0 \in Wire!Needs(got) <=> Len(got) = Wire!Size(Frame)
    <2>1. Len(got) \in Nat \ {0} /\ Last \in Nat /\ Len(delivered) \in Nat
          /\ got \in Seq(Nat \X Nat) /\ sent \in Seq(Message)
      BY <1>2 DEF Framed, Last
    <2>2. Frame \in 1..Last  BY <1>2, <2>1 DEF InHand, Frame
    <2>3. Wire!Size(Frame) \in Nat /\ sent[Frame].len \in Nat
          /\ Wire!Size(Frame) = PREFIX + sent[Frame].len
      BY <2>1, <2>2, Sizes
    <2>4. Len(got) \in 1..Wire!Size(Frame)  BY <1>2, <2>1, <2>3 DEF InHand
    <2>5. CASE Len(got) < PREFIX
      <3>1. Wire!Needs(got) = {PREFIX - Len(got)}  BY <2>5 DEF Wire!Needs
      <3>2. PREFIX - Len(got) \in 0 .. Wire!Size(Frame) - Len(got)
            /\ (0 = PREFIX - Len(got) <=> Len(got) = Wire!Size(Frame))
        <4>1. ASSUME NEW p \in Nat, NEW n \in Nat, NEW z \in Nat, n < p, p <= z
              PROVE  p - n \in 0 .. z - n /\ (0 = p - n <=> n = z)
          BY <4>1
        <4>2. PREFIX \in Nat /\ PREFIX <= Wire!Size(Frame)  BY <2>3
        <4>3. Len(got) \in Nat /\ Wire!Size(Frame) \in Nat  BY <2>1, <2>3
        <4>4. QED  BY <2>5, <4>1, <4>2, <4>3
      <3>3. QED  BY <2>2, <2>4, <3>1, <3>2
    <2>6. CASE Len(got) >= PREFIX
      <3>1. SubSeq(got, 1, PREFIX) = Wire!Bytes(Frame, 1, PREFIX)
        <4>1. \A i \in 1..PREFIX : got[i] = <<Frame, i>>  BY <2>1, <2>6 DEF InHand
        <4>2. SubSeq(got, 1, PREFIX) = [i \in 1..PREFIX |-> got[i]]
          BY <2>1, <2>6
        <4>3. Wire!Bytes(Frame, 1, PREFIX) = [i \in 1..PREFIX |-> <<Frame, i>>]
          BY DEF Wire!Bytes
        <4>4. QED  BY Zenon, <4>1, <4>2, <4>3
      <3>2. got[1][1] = Frame  BY <2>1, <2>4 DEF InHand
      <3>3. Frame \in DOMAIN sent  BY <2>1, <2>2 DEF Last
      <3>4. Wire!Announced(got) = {sent[Frame].len}
        BY <3>1, <3>2, <3>3 DEF Wire!Announced
      <3>5. Wire!Needs(got) = {PREFIX + sent[Frame].len - Len(got)}
        <4>1. {PREFIX + len - Len(got) : len \in Wire!Announced(got)}
                = {PREFIX + sent[Frame].len - Len(got)}
          BY <3>4
        <4>2. PREFIX + sent[Frame].len - Len(got) >= 0  BY SMTT(30), <2>1, <2>3, <2>4
        <4>3. ~(Len(got) < PREFIX)  BY <2>1, <2>6
        <4>4. QED  BY Zenon, <4>1, <4>2, <4>3 DEF Wire!Needs
      <3>6. PREFIX + sent[Frame].len - Len(got) \in 0 .. Wire!Size(Frame) - Len(got)
            /\ (0 = PREFIX + sent[Frame].len - Len(got) <=> Len(got) = Wire!Size(Frame))
        <4>1. ASSUME NEW z \in Nat, NEW n \in 1..z
              PROVE  z - n \in 0 .. z - n /\ (0 = z - n <=> n = z)
          BY <4>1
        <4>2. QED  BY <2>3, <2>4, <4>1
      <3>7. QED  BY <2>2, <2>4, <3>5, <3>6
    <2>7. QED  BY <2>1, <2>5, <2>6
  <1>3. QED  BY <1>1, <1>2

\* What the reader completes is the message it was sent.
LEMMA DecodesTheFrame ==
    ASSUME WireInv, Wire!Complete
    PROVE  Frame \in 1..Last /\ Wire!Decoded = sent[Frame] /\ Len(got) = Wire!Size(Frame)
  <1>1. got # <<>> /\ Len(got) = Wire!Size(Frame) /\ Frame \in 1..Last
        /\ Wire!Size(Frame) >= 1
    BY AsksForTheRest DEF Wire!Complete
  <1>2. sent \in Seq(Message) /\ got \in Seq(Nat \X Nat)  BY DEF WireInv, Framed
  <1>3. Wire!Size(Frame) \in Nat  BY <1>1, <1>2, Sizes
  <1>4. \A i \in 1..Wire!Size(Frame) : got[i] = <<Frame, i>>  BY <1>1 DEF WireInv, InHand
  <1>5. got = Wire!Bytes(Frame, 1, Wire!Size(Frame))
    <2>1. got = [i \in 1..Wire!Size(Frame) |-> got[i]]  BY <1>1, <1>2
    <2>2. Wire!Bytes(Frame, 1, Wire!Size(Frame))
            = [i \in 1..Wire!Size(Frame) |-> <<Frame, i>>]
      BY <1>3 DEF Wire!Bytes
    <2>3. QED  BY <1>4, <2>1, <2>2
  <1>6. got[1][1] = Frame  BY <1>1, <1>3, <1>4
  <1>7. Frame \in DOMAIN sent  BY <1>1, <1>2 DEF Last
  <1>8. QED  BY <1>1, <1>5, <1>6, <1>7 DEF Wire!Decoded

\* The stream starts empty.
LEMMA WireStarts == Wire!Init => WireInv
  <1> SUFFICES ASSUME Wire!Init PROVE WireInv  OBVIOUS
  <1> USE ProcessesAssumption DEF Wire!Init
  <1>0. Len(wire) <= CAP /\ Len(pending_events) <= PENDING_EVENTS_CAP
    <2>1. Len(wire) = 0 /\ Len(pending_events) = 0  OBVIOUS
    <2>2. QED  BY <2>1
  <1>1. Wire!TypeOK  BY Zenon, <1>0 DEF Wire!TypeOK
  <1>2. Framed  BY DEF Framed
  <1>3. InHand  BY DEF InHand, Last
  <1>4. HangUps  BY DEF HangUps
  <1>5. Layout
    <2> DEFINE E == [f \in 0..0 |-> 0]
    <2>1. Last = 0 /\ Len(wire) = 0  BY DEF Last
    <2>2. Offsets(E)  BY <2>1 DEF Offsets
    <2>3. Placed(E)  BY <2>1 DEF Placed
    <2>4. QED  BY <2>2, <2>3 DEF Layout
  <1>6. QED  BY <1>1, <1>2, <1>3, <1>4, <1>5 DEF WireInv

\* A message is started only when the one before it is written whole, so its
\* frame begins where that one ends.
LEMMA OfferKeeps ==
    ASSUME WireInv, NEW msg \in Message, Wire!Offer(msg), asked' \in Nat
    PROVE  WireInv'
  <1>1. /\ ~Wire!Writing /\ ~down
        /\ sent' = Append(sent, msg) /\ written' = 0 /\ late' = FALSE
        /\ UNCHANGED <<wire, down, got, delivered, call, expired, result>>
        /\ UNCHANGED <<next_id, pending_events, poisoned>>
    BY DEF Wire!Offer, Wire!client
  <1>a. sent \in Seq(Message) /\ Last \in Nat  BY DEF WireInv, Framed, Last
  <1>b. PICK L \in Nat : L = Last  BY <1>a
  <1>2. sent \in Seq(Message) /\ L \in Nat /\ L = Last  BY <1>a, <1>b
  <1>3. sent' \in Seq(Message) /\ Last' = L + 1 /\ sent' # <<>>
        /\ sent'[L + 1] = msg /\ \A f \in 1..L : sent'[f] = sent[f]
    BY <1>1, <1>2 DEF Last
  <1>4. \A f \in 1..L : Wire!Size(f)' = Wire!Size(f)  BY <1>3 DEF Wire!Size
  <1>5. Wire!Size(L + 1)' = PREFIX + msg.len /\ msg.len \in Nat
        /\ Wire!Size(L + 1)' \in Nat
    BY <1>3, ProcessesAssumption DEF Wire!Size, Message
  <1>6. Wire!TypeOK'  BY Zenon, <1>1 DEF WireInv, Wire!TypeOK
  <1>7. Framed'
    <2>1. 0 <= Wire!Size(L + 1)'  BY <1>3, <1>5
    <2>2. QED  BY Zenon, <1>1, <1>3, <2>1 DEF WireInv, Framed
  <1>8. InHand'
    <2>0. Len(delivered) \in Nat  BY DEF WireInv, Framed
    <2>1. Len(delivered) <= L + 1  BY <1>2, <2>0 DEF WireInv, InHand
    <2>2. \A i \in 1..Len(delivered) : delivered[i] = sent'[i]
      BY <1>2, <1>3, <2>0 DEF WireInv, InHand
    <2>3. got # <<>> => Frame <= L + 1 /\ Len(got) <= Wire!Size(Frame)'
      <3>1. ASSUME got # <<>> PROVE Frame \in 1..L /\ Len(got) <= Wire!Size(Frame)
        BY <1>2, <2>0, <3>1 DEF WireInv, InHand, Frame
      <3>2. Frame' = Frame  BY <1>1 DEF Frame
      <3>3. ASSUME got # <<>> PROVE sent'[Frame] = sent[Frame]  BY <1>3, <3>1, <3>3
      <3>4. QED  BY <1>2, <3>1, <3>2, <3>3 DEF Wire!Size, Frame
    <2>4. Frame' = Frame  BY <1>1 DEF Frame
    <2>5. QED  BY Zenon, <1>1, <1>3, <2>1, <2>2, <2>3, <2>4 DEF WireInv, InHand
  <1>9. HangUps'  BY <1>1 DEF WireInv, HangUps
  <1>10. Layout'
    <2>1. PICK E : Offsets(E) /\ Placed(E)  BY DEF WireInv, Layout
    <2>a. PICK F : F = [f \in 0 .. L + 1 |-> IF f <= L THEN E[f]
                                           ELSE E[L] + Wire!Size(L + 1)']
      BY Zenon
    <2>2. \A f \in 0..L : F[f] = E[f] /\ E[f] \in Nat  BY <1>2, <2>1, <2>a DEF Offsets
    <2>3. F[L + 1] = E[L] + Wire!Size(L + 1)' /\ E[L] \in Nat
          /\ F \in [0 .. L + 1 -> Nat]
      BY <1>2, <1>5, <2>2, <2>a
    <2>4. Offsets(F)'
      <3>1. \A f \in 1 .. L + 1 : F[f] = F[f - 1] + Wire!Size(f)'
        <4>1. ASSUME NEW f \in 1..L PROVE F[f] = F[f - 1] + Wire!Size(f)'
          <5>1. f \in 0..L /\ f - 1 \in 0..L  BY <1>2
          <5>2. E[f] = E[f - 1] + Wire!Size(f)  BY <1>2, <2>1 DEF Offsets
          <5>3. QED  BY <1>4, <2>2, <5>1, <5>2
        <4>2. F[L + 1] = F[L + 1 - 1] + Wire!Size(L + 1)'  BY <1>2, <2>2, <2>3
        <4>3. QED  BY <1>2, <4>1, <4>2
      <3>2. \A f, g \in 0 .. L + 1 : f <= g => F[f] <= F[g]
        <4>1. \A f, g \in 0..L : f <= g => E[f] <= E[g]  BY <1>2, <2>1 DEF Offsets
        <4>2. \A f \in 0..L : E[f] <= E[L]  BY <1>2, <4>1
        <4>3. E[L] <= F[L + 1]  BY <1>5, <2>3
        <4>4. \A f \in 0..L : F[f] <= F[L + 1]
          BY <1>5, <2>2, <2>3, <4>2
        <4>5. F[L + 1] <= F[L + 1]  BY <1>2, <2>3
        <4>6. QED  BY <1>2, <2>2, <4>1, <4>4, <4>5
      <3>3. QED  BY <1>2, <1>3, <2>3, <3>1, <3>2 DEF Offsets
    <2>5. Len(delivered) \in 0..L  BY <1>2 DEF WireInv, Framed, InHand
    <2>6. E[L] = E[Len(delivered)] + Len(got) + Len(wire)
      <3>1. CASE sent = <<>>
        <4>1. L = 0 /\ Len(delivered) = 0 /\ wire = <<>> /\ got = <<>>
          BY <1>2, <2>5, <3>1 DEF WireInv, Framed, Last
        <4>2. E[0] \in Nat  BY <1>2, <2>2
        <4>3. QED  BY <4>1, <4>2
      <3>2. CASE sent # <<>>
        <4>1. L \in 1..L  BY <1>2, <3>2 DEF Last
        <4>2. Wire!Size(L) \in Nat  BY <1>2, <4>1, Sizes
        <4>3. written = Wire!Size(L)
          BY <1>1, <1>2, <3>2, <4>2 DEF WireInv, Framed, Wire!Writing, Last
        <4>4. QED  BY <1>2, <2>1, <3>2, <4>1, <4>3 DEF Offsets, Placed
      <3>3. QED  BY <3>1, <3>2
    <2>7. Placed(F)'
      <3>1. F[L + 1 - 1] + 0 = F[Len(delivered)] + Len(got) + Len(wire)
        BY <1>2, <2>2, <2>5, <2>6
      <3>2. ASSUME NEW i \in 1..Len(wire)
            PROVE  \E f \in 1 .. L + 1 : \E p \in 1..Wire!Size(f)' :
                     /\ wire[i] = <<f, p>>
                     /\ F[f - 1] + p = F[Len(delivered)] + Len(got) + i
        <4>1. PICK f \in 1..L : \E p \in 1..Wire!Size(f) :
                     /\ wire[i] = <<f, p>>
                     /\ E[f - 1] + p = E[Len(delivered)] + Len(got) + i
          BY Zenon, <1>2, <2>1 DEF Placed
        <4>2. f \in 1 .. L + 1 /\ f - 1 \in 0..L /\ Wire!Size(f)' = Wire!Size(f)
          BY <1>2, <1>4
        <4>3. F[f - 1] = E[f - 1] /\ F[Len(delivered)] = E[Len(delivered)]
          BY <2>2, <2>5, <4>2
        <4>4. QED  BY <4>1, <4>2, <4>3
      <3>3. F[Last' - 1] + written' = F[Len(delivered')] + Len(got') + Len(wire')
        BY <1>1, <1>2, <1>3, <3>1
      <3>4. \A i \in 1..Len(wire') : \E f \in 1..Last' : \E p \in 1..Wire!Size(f)' :
                /\ wire'[i] = <<f, p>>
                /\ F[f - 1] + p = F[Len(delivered')] + Len(got') + i
        BY <1>1, <1>2, <1>3, <3>2
      <3>5. QED  BY <3>3, <3>4 DEF Placed
    <2>8. QED  BY <2>4, <2>7 DEF Layout
  <1>11. QED  BY <1>6, <1>7, <1>8, <1>9, <1>10 DEF WireInv

\* The three kinds of messages have a length.
LEMMA SendsKeep ==
    ASSUME WireInv, Wire!SendHello \/ Wire!SendEvent \/ Wire!SendResponse
    PROVE  WireInv'
  <1>1. asked \in Nat /\ Len(sent) \in Nat  BY DEF WireInv, Framed
  <1>3. \E msg \in Message : Wire!Offer(msg)
    <2>1. CASE Wire!SendHello
      <3>1. PICK kind \in {"HelloAck", "HelloError", "NewerAck"} :
               Wire!Offer(Wire!Message(kind, 0, 1))
        BY <2>1 DEF Wire!SendHello
      <3>2. Wire!Message(kind, 0, 1) \in Message  BY DEF Wire!Message, Message
      <3>3. QED  BY <3>1, <3>2
    <2>2. CASE Wire!SendEvent
      <3>1. PICK len \in Lengths : Wire!Offer(Wire!Message("Event", Len(sent), len))
        BY <2>2 DEF Wire!SendEvent
      <3>2. Wire!Message("Event", Len(sent), len) \in Message
        BY <1>1, ProcessesAssumption DEF Wire!Message, Message
      <3>3. QED  BY <3>1, <3>2
    <2>3. CASE Wire!SendResponse
      <3>1. PICK len \in Lengths : Wire!Offer(Wire!Message("Response", asked, len))
        BY <2>3 DEF Wire!SendResponse
      <3>2. Wire!Message("Response", asked, len) \in Message
        BY <1>1, ProcessesAssumption DEF Wire!Message, Message
      <3>3. QED  BY <3>1, <3>2
    <2>4. QED  BY <2>1, <2>2, <2>3
  <1>4. asked' \in Nat
    BY <1>1 DEF Wire!SendHello, Wire!SendEvent, Wire!SendResponse
  <1>5. QED  BY <1>3, <1>4, OfferKeeps

\* A read takes the first n bytes and leaves the others.
LEMMA TakesTheFirst ==
    ASSUME NEW S, NEW s \in Seq(S), NEW n \in 1..Len(s)
    PROVE  /\ SubSeq(s, 1, n) \in Seq(S) /\ Len(SubSeq(s, 1, n)) = n
           /\ \A i \in 1..n : SubSeq(s, 1, n)[i] = s[i]
           /\ SubSeq(s, n + 1, Len(s)) \in Seq(S)
           /\ Len(SubSeq(s, n + 1, Len(s))) = Len(s) - n
           /\ \A i \in 1 .. Len(s) - n : SubSeq(s, n + 1, Len(s))[i] = s[n + i]
  <1>0. Len(s) \in Nat /\ n \in Nat /\ n >= 1 /\ n <= Len(s)  OBVIOUS
  <1>1. /\ SubSeq(s, 1, n) \in Seq(S) /\ Len(SubSeq(s, 1, n)) = n
        /\ \A i \in 1..n : SubSeq(s, 1, n)[i] = s[i]
    BY <1>0
  <1>2. SubSeq(s, n + 1, Len(s)) \in Seq(S) /\ Len(SubSeq(s, n + 1, Len(s))) = Len(s) - n
    BY <1>0
  <1>3. \A i \in 1 .. Len(s) - n : SubSeq(s, n + 1, Len(s))[i] = s[n + i]
    BY <1>0
  <1>4. QED  BY <1>1, <1>2, <1>3

\* The writer puts the next bytes of its frame behind those in the socket.
LEMMA WritesKeep == ASSUME WireInv, Wire!write_all_within PROVE WireInv'
  <1>1. PICK n \in 1 .. CAP - Len(wire) :
           /\ written + n <= Wire!Size(Len(sent))
           /\ wire' = wire \o Wire!Bytes(Len(sent), written + 1, written + n)
           /\ written' = written + n
    BY Zenon DEF Wire!write_all_within
  <1>2. /\ Wire!Writing /\ ~down
        /\ UNCHANGED <<sent, late, down, asked, got, delivered, call, expired, result>>
        /\ UNCHANGED <<next_id, pending_events, poisoned>>
    BY DEF Wire!write_all_within, Wire!client
  <1>3. sent \in Seq(Message) /\ sent # <<>> /\ Last \in 1..Last /\ Last \in Nat
        /\ written \in Nat /\ wire \in Seq(Nat \X Nat)
    BY <1>2 DEF WireInv, Framed, Last, Wire!Writing
  <1>4. PICK L \in Nat : L = Last  BY <1>3
  <1>5. n \in Nat /\ n >= 1 /\ Len(wire) + n <= CAP
    BY <1>3, ProcessesAssumption
  <1>6. PICK more : more = Wire!Bytes(L, written + 1, written + n)  OBVIOUS
  <1>7. /\ more \in Seq(Nat \X Nat) /\ Len(more) = n
        /\ \A i \in 1..n : more[i] = <<L, written + i>>
    <2>1. more = [i \in 1..n |-> <<L, written + i>>]
      BY <1>3, <1>5, <1>6 DEF Wire!Bytes
    <2>2. QED  BY <1>3, <1>4, <1>5, <2>1
  <1>8. wire' = wire \o more  BY <1>1, <1>4, <1>6 DEF Last
  <1>9. /\ wire' \in Seq(Nat \X Nat) /\ Len(wire') = Len(wire) + n
        /\ \A i \in 1..Len(wire) : wire'[i] = wire[i]
        /\ \A i \in 1..n : wire'[Len(wire) + i] = <<L, written + i>>
    BY <1>3, <1>5, <1>7, <1>8
  <1>10. Last' = L /\ Len(delivered') = Len(delivered) /\ Len(got') = Len(got)
    BY <1>2, <1>4 DEF Last
  <1>11. \A f : Wire!Size(f)' = Wire!Size(f)  BY <1>2 DEF Wire!Size
  <1>12. written' \in Nat /\ written' <= Wire!Size(L)
    BY <1>1, <1>3, <1>4, <1>5 DEF Last
  <1>13. Wire!TypeOK'
    BY <1>2, <1>5, <1>9, <1>12 DEF WireInv, Wire!TypeOK
  <1>14. Framed'
    <2>1. Wire!Size(Last)' = Wire!Size(L)  BY <1>2, <1>10 DEF Wire!Size
    <2>2. QED  BY <1>2, <1>3, <1>9, <1>12, <2>1 DEF WireInv, Framed
  <1>15. InHand'  BY <1>2 DEF WireInv, InHand, Frame, Last, Wire!Size
  <1>16. HangUps'  BY <1>2 DEF WireInv, HangUps
  <1>17. Layout'
    <2>1. PICK E : Offsets(E) /\ Placed(E)  BY DEF WireInv, Layout
    <2>2. Offsets(E)'  BY <1>4, <1>10, <1>11, <2>1 DEF Offsets
    <2>3. E[L - 1] + written = E[Len(delivered)] + Len(got) + Len(wire)
      BY <1>3, <1>4, <2>1 DEF Placed
    <2>4. E[L - 1] \in Nat /\ E[Len(delivered)] \in Nat /\ Len(got) \in Nat
          /\ Len(wire) \in Nat
      <3>1. L - 1 \in 0..Last  BY <1>3, <1>4
      <3>2. Len(delivered) \in 0..Last  BY <1>3 DEF WireInv, Framed, InHand
      <3>3. Len(got) \in Nat /\ Len(wire) \in Nat  BY DEF WireInv, Framed
      <3>4. QED  BY <2>1, <3>1, <3>2, <3>3 DEF Offsets
    <2>5. E[Last' - 1] + written' = E[Len(delivered')] + Len(got') + Len(wire')
      <3>1. ASSUME NEW a \in Nat, NEW v \in Nat, NEW b \in Nat, NEW g \in Nat,
                   NEW w \in Nat, a + v = b + g + w
            PROVE  a + (v + n) = b + g + (w + n)
        BY <1>5, <3>1
      <3>2. E[L - 1] + (written + n) = E[Len(delivered)] + Len(got) + (Len(wire) + n)
        <4>1. PICK a \in Nat, b \in Nat : a = E[L - 1] /\ b = E[Len(delivered)]  BY <2>4
        <4>2. a + written = b + Len(got) + Len(wire)  BY <2>3, <4>1
        <4>3. a + (written + n) = b + Len(got) + (Len(wire) + n)
          BY <1>3, <2>4, <3>1, <4>2
        <4>4. QED  BY <4>1, <4>3
      <3>3. QED  BY <1>1, <1>9, <1>10, <3>2
    <2>6. ASSUME NEW i \in 1 .. Len(wire) + n
          PROVE  \E f \in 1..L : \E p \in 1..Wire!Size(f) :
                   /\ wire'[i] = <<f, p>>
                   /\ E[f - 1] + p = E[Len(delivered)] + Len(got) + i
      <3>1. CASE i <= Len(wire)
        <4>1. i \in 1..Len(wire)  BY <2>4, <3>1
        <4>2. QED  BY Zenon, <1>4, <1>9, <2>1, <4>1 DEF Placed
      <3>2. CASE i > Len(wire)
        <4>1. PICK j \in 1..n : i = Len(wire) + j
          <5>1. i - Len(wire) \in 1..n /\ i = Len(wire) + (i - Len(wire))
            BY <1>5, <2>4, <3>2
          <5>2. QED  BY <5>1
        <4>2. wire'[i] = <<L, written + j>>  BY Zenon, <1>9, <4>1
        <4>3. Wire!Size(L) \in Nat  BY <1>3, <1>4, Sizes
        <4>4. written + j \in 1..Wire!Size(L)
          BY <1>1, <1>3, <1>4, <1>5, <4>3 DEF Last
        <4>5. E[L - 1] + (written + j) = E[Len(delivered)] + Len(got) + i
          <5>1. ASSUME NEW a \in Nat, NEW v \in Nat, NEW b \in Nat, NEW g \in Nat,
                       NEW w \in Nat, a + v = b + g + w
                PROVE  a + (v + j) = b + g + (w + j)
            BY <1>5, <5>1
          <5>2. PICK a \in Nat, b \in Nat : a = E[L - 1] /\ b = E[Len(delivered)]  BY <2>4
          <5>3. a + written = b + Len(got) + Len(wire)  BY <2>3, <5>2
          <5>4. a + (written + j) = b + Len(got) + (Len(wire) + j)
            BY SMTT(30), <1>3, <2>4, <5>1, <5>3
          <5>5. QED  BY <4>1, <5>2, <5>4
        <4>6. QED  BY <1>3, <1>4, <4>2, <4>4, <4>5
      <3>3. QED  BY <2>4, <3>1, <3>2
    <2>7. \A i \in 1..Len(wire') : \E f \in 1..Last' : \E p \in 1..Wire!Size(f)' :
              /\ wire'[i] = <<f, p>>
              /\ E[f - 1] + p = E[Len(delivered')] + Len(got') + i
      BY <1>9, <1>10, <1>11, <2>6
    <2>8. Placed(E)'  BY <2>5, <2>7 DEF Placed
    <2>9. QED  BY <2>2, <2>8 DEF Layout
  <1>18. QED  BY <1>13, <1>14, <1>15, <1>16, <1>17 DEF WireInv

\* A read takes bytes of the frame the reader is in, and of no other.
LEMMA FillKeeps == ASSUME WireInv, Wire!fill PROVE WireInv'
  <1>1. PICK need \in Wire!Needs(got) : \E m \in 1..need :
           /\ m <= Len(wire) /\ got' = got \o SubSeq(wire, 1, m)
           /\ wire' = SubSeq(wire, m + 1, Len(wire))
    BY DEF Wire!fill
  <1>2. PICK n \in 1..need :
           /\ n <= Len(wire) /\ got' = got \o SubSeq(wire, 1, n)
           /\ wire' = SubSeq(wire, n + 1, Len(wire))
    BY <1>1
  <1>3. /\ UNCHANGED <<sent, written, late, down, asked, delivered, call, expired, result>>
        /\ UNCHANGED <<next_id, pending_events, poisoned>>
    BY DEF Wire!fill, Wire!client, Wire!writer
  <1>4. /\ sent \in Seq(Message) /\ wire \in Seq(Nat \X Nat) /\ got \in Seq(Nat \X Nat)
        /\ written \in Nat /\ Len(delivered) \in 0..Last /\ Last \in Nat
        /\ Len(wire) \in Nat /\ Len(got) \in Nat /\ Len(delivered) \in Nat
    BY DEF WireInv, Framed, InHand, Last
  <1>5. need \in Nat /\ n \in Nat /\ n >= 1 /\ n <= need
        /\ (got = <<>> => need = PREFIX)
        /\ (got # <<>> => Frame \in 1..Last /\ need <= Wire!Size(Frame) - Len(got))
    <2>1. CASE got = <<>>  BY <1>1, <1>2, <2>1, AsksForTheRest, ProcessesAssumption
    <2>2. CASE got # <<>>
      <3>1. Frame \in 1..Last /\ need \in 0 .. Wire!Size(Frame) - Len(got)
        BY <1>1, <2>2, AsksForTheRest
      <3>2. Wire!Size(Frame) \in Nat  BY <1>4, <3>1, Sizes
      <3>3. QED  BY <1>2, <1>4, <2>2, <3>1, <3>2
    <2>3. QED  BY <2>1, <2>2
  <1>6. PICK E : Offsets(E) /\ Placed(E)  BY DEF WireInv, Layout
  <1>7. PICK k \in Nat : k = Len(delivered)  BY <1>4
  <1>8. E[k] \in Nat /\ Frame = k + 1  BY <1>4, <1>6, <1>7 DEF Offsets, Frame
  <1>9. k + 1 \in 1..Last /\ Len(got) + n <= Wire!Size(k + 1)
        /\ Wire!Size(k + 1) \in Nat /\ E[k + 1] = E[k] + Wire!Size(k + 1)
    <2>1. k < Last
      <3>a. PICK f \in 1..Last : \E p \in 1..Wire!Size(f) :
                E[f - 1] + p = E[k] + Len(got) + 1
        <4>1. 1 \in 1..Len(wire)  BY <1>2, <1>4, <1>5
        <4>2. QED  BY <1>6, <1>7, <4>1 DEF Placed
      <3>1. PICK p \in 1..Wire!Size(f) : E[f - 1] + p = E[k] + Len(got) + 1  BY <3>a
      <3>2. E[k] < E[f - 1] + p  BY <1>4, <1>8, <3>1
      <3>3. QED  BY <1>4, <1>6, <1>7, <3>2, FrameOfPlace
    <2>2. k + 1 \in 1..Last  BY <1>4, <2>1
    <2>3. Wire!Size(k + 1) \in Nat /\ Wire!Size(k + 1) >= PREFIX  BY <1>4, <2>2, Sizes
    <2>4. Len(got) + n <= Wire!Size(k + 1)
      <3>1. CASE got = <<>>  BY <1>4, <1>5, <2>3, <3>1, ProcessesAssumption
      <3>2. CASE got # <<>>  BY <1>4, <1>5, <1>8, <2>3, <3>2
      <3>3. QED  BY <3>1, <3>2
    <2>5. E[k + 1] = E[k + 1 - 1] + Wire!Size(k + 1)  BY <1>6, <2>2 DEF Offsets
    <2>6. QED  BY <2>2, <2>3, <2>4, <2>5
  <1>10. \A i \in 1..n : wire[i] = <<k + 1, Len(got) + i>>
    <2>1. SUFFICES ASSUME NEW i \in 1..n PROVE wire[i] = <<k + 1, Len(got) + i>>
      OBVIOUS
    <2>2. i \in 1..Len(wire)  BY <1>2, <1>4, <1>5
    <2>a. PICK f \in 1..Last : \E p \in 1..Wire!Size(f) :
             wire[i] = <<f, p>> /\ E[f - 1] + p = E[k] + Len(got) + i
      BY <1>6, <1>7, <2>2 DEF Placed
    <2>3. PICK p \in 1..Wire!Size(f) :
             wire[i] = <<f, p>> /\ E[f - 1] + p = E[k] + Len(got) + i
      BY <2>a
    <2>4. E[k] < E[f - 1] + p /\ E[f - 1] + p <= E[k + 1]
      <3>1. ASSUME NEW a \in Nat, NEW g \in Nat, NEW z \in Nat, g + n <= z
            PROVE  a < a + g + i /\ a + g + i <= a + z
        BY <1>5, <3>1
      <3>2. E[k] < E[k] + Len(got) + i /\ E[k] + Len(got) + i <= E[k] + Wire!Size(k + 1)
        BY Zenon, <1>4, <1>8, <1>9, <3>1
      <3>3. QED  BY <1>9, <2>3, <3>2
    <2>5. f = k + 1  BY Zenon, <1>4, <1>6, <1>7, <2>4, FrameOfPlace
    <2>6. p \in Int  BY <1>4, Sizes
    <2>7. p = Len(got) + i
      <3>1. ASSUME NEW a \in Nat, NEW g \in Nat, a + p = a + g + i PROVE p = g + i
        BY <1>5, <2>6, <3>1
      <3>2. E[k] + p = E[k] + Len(got) + i  BY <1>7, <2>3, <2>5
      <3>3. QED  BY Zenon, <1>4, <1>8, <3>1, <3>2
    <2>8. QED  BY <2>3, <2>5, <2>7
  <1>a. n \in 1..Len(wire)  BY <1>2, <1>4, <1>5
  <1>11. /\ got' \in Seq(Nat \X Nat) /\ Len(got') = Len(got) + n
         /\ \A i \in 1..Len(got) : got'[i] = got[i]
         /\ \A i \in 1..n : got'[Len(got) + i] = wire[i]
    <2>1. PICK taken : taken = SubSeq(wire, 1, n)  BY Zenon
    <2>2. taken \in Seq(Nat \X Nat) /\ Len(taken) = n /\ \A i \in 1..n : taken[i] = wire[i]
      BY <1>a, <1>4, <2>1, TakesTheFirst
    <2>3. got' = got \o taken  BY <1>2, <2>1
    <2>4. /\ got \o taken \in Seq(Nat \X Nat) /\ Len(got \o taken) = Len(got) + Len(taken)
          /\ \A i \in 1..Len(got) : (got \o taken)[i] = got[i]
          /\ \A i \in 1..Len(taken) : (got \o taken)[Len(got) + i] = taken[i]
      <3>1. got \in Seq(Nat \X Nat) /\ taken \in Seq(Nat \X Nat)  BY <1>4, <2>2
      <3>2. QED  BY <3>1
    <2>5. QED  BY <2>2, <2>3, <2>4
  <1>12. /\ wire' \in Seq(Nat \X Nat) /\ Len(wire') = Len(wire) - n
         /\ \A i \in 1 .. Len(wire) - n : wire'[i] = wire[n + i]
    BY Zenon, <1>a, <1>2, <1>4, TakesTheFirst
  <1>13. Last' = Last /\ Len(delivered') = Len(delivered) /\ Frame' = Frame
         /\ \A f : Wire!Size(f)' = Wire!Size(f)
    BY <1>3 DEF Last, Frame, Wire!Size
  <1>14. Wire!TypeOK'
    <2>1. Len(wire') <= CAP
      BY <1>4, <1>5, <1>12, ProcessesAssumption DEF WireInv, Wire!TypeOK
    <2>2. QED  BY <1>3, <2>1 DEF WireInv, Wire!TypeOK
  <1>15. Framed'
    <2>1. sent # <<>>  BY <1>9 DEF Last
    <2>2. written <= Wire!Size(Last)' /\ written \in Nat
      BY <1>3, <2>1 DEF WireInv, Framed, Wire!Size, Last
    <2>3. QED  BY <1>3, <1>11, <1>12, <2>1, <2>2 DEF WireInv, Framed
  <1>16. InHand'
    <2>1. \A i \in 1 .. Len(got) + n : got'[i] = <<k + 1, i>>
      <3>1. SUFFICES ASSUME NEW i \in 1 .. Len(got) + n PROVE got'[i] = <<k + 1, i>>
        OBVIOUS
      <3>2. CASE i <= Len(got)
        <4>1. i \in 1..Len(got)  BY <1>4, <1>5, <3>2
        <4>2. QED  BY Zenon, <1>8, <1>11, <4>1 DEF WireInv, InHand
      <3>3. CASE i > Len(got)
        <4>1. i - Len(got) \in 1..n /\ i = Len(got) + (i - Len(got))  BY <1>4, <1>5, <3>3
        <4>2. QED  BY Zenon, <1>10, <1>11, <4>1
      <3>4. QED  BY SMTT(30), <1>4, <1>5, <3>2, <3>3
    <2>2. Frame' <= Last' /\ Len(got') <= Wire!Size(Frame)'
      <3>1. Wire!Size(Frame)' = Wire!Size(k + 1)  BY <1>3, <1>8, <1>13 DEF Wire!Size
      <3>2. Frame' <= Last'  BY <1>8, <1>9, <1>13
      <3>3. Len(got') <= Wire!Size(k + 1)  BY Zenon, <1>9, <1>11
      <3>4. QED  BY Zenon, <3>1, <3>2, <3>3
    <2>3. QED  BY <1>3, <1>8, <1>11, <1>13, <2>1, <2>2 DEF WireInv, InHand
  <1>17. HangUps'  BY <1>3 DEF WireInv, HangUps, Wire!Writing, Wire!Size
  <1>18. Layout'
    <2>1. Offsets(E)'  BY <1>6, <1>13 DEF Offsets
    <2>2. E[Last' - 1] + written' = E[Len(delivered')] + Len(got') + Len(wire')
      <3>1. sent # <<>>  BY <1>9 DEF Last
      <3>2. E[Last - 1] + written = E[k] + Len(got) + Len(wire)
        BY <1>6, <1>7, <3>1 DEF Placed
      <3>3. ASSUME NEW b \in Nat, NEW g \in Nat, NEW w \in Nat
            PROVE  b + g + w = b + (g + n) + (w - n)
        BY <1>5
      <3>4. E[Last - 1] + written = E[k] + (Len(got) + n) + (Len(wire) - n)
        BY <1>4, <1>8, <3>2, <3>3
      <3>5. QED  BY <1>3, <1>7, <1>11, <1>12, <1>13, <3>4
    <2>3. ASSUME NEW i \in 1 .. Len(wire) - n
          PROVE  \E f \in 1..Last : \E p \in 1..Wire!Size(f) :
                   /\ wire'[i] = <<f, p>>
                   /\ E[f - 1] + p = E[k] + (Len(got) + n) + i
      <3>1. n + i \in 1..Len(wire)  BY <1>4, <1>5
      <3>2. PICK f \in 1..Last : \E p \in 1..Wire!Size(f) :
               wire[n + i] = <<f, p>> /\ E[f - 1] + p = E[k] + Len(got) + (n + i)
        BY Zenon, <1>6, <1>7, <3>1 DEF Placed
      <3>3. E[k] + Len(got) + (n + i) = E[k] + (Len(got) + n) + i
        <4>1. ASSUME NEW b \in Nat, NEW g \in Nat PROVE b + g + (n + i) = b + (g + n) + i
          BY <1>5
        <4>2. QED  BY Zenon, <1>4, <1>8, <4>1
      <3>4. QED  BY Zenon, <1>12, <3>2, <3>3
    <2>4. \A i \in 1..Len(wire') : \E f \in 1..Last' : \E p \in 1..Wire!Size(f)' :
              /\ wire'[i] = <<f, p>>
              /\ E[f - 1] + p = E[Len(delivered')] + Len(got') + i
      <3>1. E[Len(delivered')] + Len(got') = E[k] + (Len(got) + n)
            /\ Len(wire') = Len(wire) - n
        BY <1>7, <1>11, <1>12, <1>13
      <3>2. SUFFICES ASSUME NEW i \in 1..Len(wire')
                     PROVE  \E f \in 1..Last' : \E p \in 1..Wire!Size(f)' :
                              /\ wire'[i] = <<f, p>>
                              /\ E[f - 1] + p = E[Len(delivered')] + Len(got') + i
        OBVIOUS
      <3>3. PICK f \in 1..Last : \E p \in 1..Wire!Size(f) :
                   /\ wire'[i] = <<f, p>>
                   /\ E[f - 1] + p = E[k] + (Len(got) + n) + i
        BY Zenon, <2>3, <3>1
      <3>4. f \in 1..Last' /\ Wire!Size(f)' = Wire!Size(f)  BY <1>13
      <3>5. QED  BY <3>1, <3>3, <3>4
    <2>5. Placed(E)'  BY <2>2, <2>4 DEF Placed
    <2>6. QED  BY <2>1, <2>5 DEF Layout
  <1>19. QED  BY <1>14, <1>15, <1>16, <1>17, <1>18 DEF WireInv

\* A deadline, a hang-up of a writer between frames and an idle poll move no
\* byte.
LEMMA WaitsKeep ==
    ASSUME WireInv,
           \/ Wire!WriteDeadline \/ Wire!write_deadline_exceeded \/ Wire!Hangup
           \/ Wire!Poll \/ Wire!Tick
    PROVE  WireInv'
  <1>1. /\ UNCHANGED <<sent, written, wire, got, delivered>>
        /\ UNCHANGED <<asked, next_id, pending_events, poisoned, call, result>>
        /\ down => down'
    BY DEF Wire!WriteDeadline, Wire!write_deadline_exceeded, Wire!Hangup, Wire!Poll,
           Wire!Tick, Wire!fill_kept, Wire!client, Wire!writer
  <1>2. late' \in BOOLEAN /\ down' \in BOOLEAN /\ expired' \in BOOLEAN
    BY Zenon DEF Wire!WriteDeadline, Wire!write_deadline_exceeded, Wire!Hangup, Wire!Poll,
           Wire!Tick, Wire!client, Wire!writer, WireInv, Wire!TypeOK
  <1>3. Framed' /\ InHand' /\ Layout'
    <2>1. pending_events' \in Seq(Nat) /\ next_id' \in Nat /\ asked' \in Nat
      BY <1>1 DEF WireInv, Framed
    <2>2. QED  BY <1>1, <2>1, SameLayout
  <1>4. Wire!TypeOK'  BY <1>1, <1>2 DEF WireInv, Wire!TypeOK
  <1>5. HangUps'  BY <1>1 DEF WireInv, HangUps, Wire!Writing, Wire!Size
  <1>6. QED  BY <1>3, <1>4, <1>5 DEF WireInv

\* A call that gives up leaves the partial frame where it is; the end of the
\* stream is a hang-up exactly if the writer was between frames.
LEMMA EndsKeep == ASSUME WireInv, Wire!Expire \/ Wire!Eof PROVE WireInv'
  <1>1. /\ UNCHANGED <<sent, written, late, down, asked, wire, got, delivered>>
        /\ UNCHANGED <<next_id, pending_events>>
        /\ call' = "none" /\ expired' = FALSE /\ poisoned' = (call # "next_event")
    BY DEF Wire!Expire, Wire!Eof, Wire!Return, Wire!writer
  <1>2. Framed' /\ InHand' /\ Layout'
    <2>1. pending_events' \in Seq(Nat) /\ next_id' \in Nat /\ asked' \in Nat
      BY <1>1 DEF WireInv, Framed
    <2>2. QED  BY <1>1, <2>1, SameLayout
  <1>3. Wire!TypeOK'
    <2>1. poisoned' \in BOOLEAN  BY <1>1
    <2>2. QED  BY Zenon, <1>1, <2>1 DEF WireInv, Wire!TypeOK
  <1>4. HangUps'
    <2>0. Wire!Writing' = Wire!Writing  BY <1>1 DEF Wire!Writing, Wire!Size
    <2>1. CASE Wire!Expire
      <3>1. result' = "TimedOut"  BY <2>1 DEF Wire!Expire, Wire!Return
      <3>2. QED  BY <3>1 DEF HangUps
    <2>2. CASE Wire!Eof
      <3>1. /\ wire = <<>> /\ down /\ ~Wire!Complete /\ Wire!Reading
            /\ result' = IF got = <<>> THEN "Closed" ELSE "Truncated"
        BY <2>2 DEF Wire!Eof, Wire!Return
      <3>2. PICK E : Offsets(E) /\ Placed(E)  BY DEF WireInv, Layout
      <3>3. /\ sent \in Seq(Message) /\ Last \in Nat /\ written \in Nat
            /\ got \in Seq(Nat \X Nat) /\ Len(got) \in Nat
            /\ Len(delivered) \in 0..Last /\ Len(wire) = 0
        BY <3>1 DEF WireInv, Framed, InHand, Last
      <3>4. PICK k \in Nat : k = Len(delivered) /\ k \in 0..Last  BY <3>3
      <3>5. sent # <<>> =>
              /\ Last \in 1..Last /\ Last - 1 \in 0..Last
              /\ E[Last - 1] \in Nat /\ E[k] \in Nat
              /\ E[Last - 1] + written = E[k] + Len(got)
              /\ Wire!Size(Last) \in Nat
              /\ E[Last] = E[Last - 1] + Wire!Size(Last)
              /\ written <= Wire!Size(Last)
        <4> SUFFICES ASSUME sent # <<>>
                     PROVE  /\ Last \in 1..Last /\ Last - 1 \in 0..Last
                            /\ E[Last - 1] \in Nat /\ E[k] \in Nat
                            /\ E[Last - 1] + written = E[k] + Len(got)
                            /\ Wire!Size(Last) \in Nat
                            /\ E[Last] = E[Last - 1] + Wire!Size(Last)
                            /\ written <= Wire!Size(Last)
          OBVIOUS
        <4>1. Last \in 1..Last /\ Last - 1 \in 0..Last  BY <3>3 DEF Last
        <4>2. E[Last - 1] \in Nat /\ E[k] \in Nat  BY <3>2, <3>4, <4>1 DEF Offsets
        <4>3. E[Last - 1] + written = E[k] + Len(got) + 0  BY Zenon, <3>2, <3>3, <3>4 DEF Placed
        <4>4. Wire!Size(Last) \in Nat  BY <3>3, <4>1, Sizes
        <4>5. E[Last] = E[Last - 1] + Wire!Size(Last)  BY <3>2, <4>1 DEF Offsets
        <4>6. written <= Wire!Size(Last)  BY DEF WireInv, Framed
        <4>7. E[k] + Len(got) + 0 = E[k] + Len(got)  BY <3>3, <4>2
        <4>8. QED  BY <4>1, <4>2, <4>3, <4>4, <4>5, <4>6, <4>7
      <3>6. CASE got = <<>>
        <4>1. SUFFICES ASSUME Wire!Writing, written > 0 PROVE FALSE
          BY <1>1, <2>0, <3>1, <3>6 DEF HangUps
        <4>2. sent # <<>> /\ written < Wire!Size(Last)  BY <4>1 DEF Wire!Writing, Last
        <4>3. E[Last - 1] + written = E[k]  BY <3>3, <3>5, <3>6, <4>2
        <4>4. CASE k = Last  BY <3>3, <3>5, <4>2, <4>3, <4>4
        <4>5. CASE k # Last
          <5>1. k <= Last - 1  BY <3>3, <3>4, <4>5
          <5>2. E[k] <= E[Last - 1]  BY <3>2, <3>4, <3>5, <4>2, <5>1 DEF Offsets
          <5>3. QED  BY <3>3, <3>5, <4>1, <4>2, <4>3, <5>2
        <4>6. QED  BY <4>4, <4>5
      <3>7. CASE got # <<>>
        <4>1. Frame \in 1..Last /\ Len(got) \in 1..Wire!Size(Frame)
              /\ Len(got) # Wire!Size(Frame)
          BY <3>1, <3>7, AsksForTheRest DEF Wire!Complete
        <4>2. Frame = k + 1 /\ sent # <<>>  BY <3>3, <3>4, <4>1 DEF Frame, Last
        <4>3. Wire!Size(Frame) \in Nat  BY <3>3, <4>1, Sizes
        <4>4. Len(got) < Wire!Size(k + 1) /\ Len(got) > 0  BY <3>3, <4>1, <4>2, <4>3
        <4>5. E[k + 1] = E[k + 1 - 1] + Wire!Size(k + 1)
          BY <3>2, <4>1, <4>2 DEF Offsets
        <4>6. k + 1 = Last
          <5>1. SUFFICES ASSUME k + 1 # Last PROVE FALSE  OBVIOUS
          <5>2. k + 1 <= Last - 1 /\ k + 1 \in 0..Last  BY <3>3, <4>1, <4>2, <5>1
          <5>3. E[k + 1] <= E[Last - 1]  BY <3>2, <3>5, <4>2, <5>2 DEF Offsets
          <5>4. E[k + 1] = E[k] + Wire!Size(k + 1)  BY <4>5
          <5>5. PICK a \in Nat, b \in Nat, z \in Nat :
                   a = E[Last - 1] /\ b = E[k] /\ z = Wire!Size(k + 1)
            BY <3>5, <4>2, <4>3
          <5>6. a + written = b + Len(got) /\ b + z <= a /\ Len(got) < z
            BY <3>5, <4>2, <4>4, <5>3, <5>4, <5>5
          <5>7. QED  BY <3>3, <5>6
        <4>7. written = Len(got)
          <5>1. E[Last - 1] = E[k]  BY <4>6
          <5>2. QED  BY <3>3, <3>5, <4>2, <5>1
        <4>8. Wire!Writing /\ written > 0
          BY <4>2, <4>4, <4>6, <4>7 DEF Wire!Writing, Last
        <4>9. QED  BY <1>1, <2>0, <3>1, <3>7, <4>8 DEF HangUps
      <3>8. QED  BY <3>6, <3>7
    <2>3. QED  BY <2>1, <2>2
  <1>5. QED  BY <1>2, <1>3, <1>4 DEF WireInv

\* Buffering an event keeps the buffer within its bound, dropping the oldest.
LEMMA BuffersOne ==
    ASSUME NEW s \in Seq(Nat), Len(s) <= PENDING_EVENTS_CAP, NEW e \in Nat
    PROVE  LET kept == IF Len(s) >= PENDING_EVENTS_CAP THEN Tail(s) ELSE s
           IN  Append(kept, e) \in Seq(Nat) /\ Len(Append(kept, e)) <= PENDING_EVENTS_CAP
  <1>1. Len(s) \in Nat /\ PENDING_EVENTS_CAP \in Nat /\ PENDING_EVENTS_CAP >= 1
    BY ProcessesAssumption
  <1>2. CASE Len(s) >= PENDING_EVENTS_CAP
    <2>1. Tail(s) \in Seq(Nat) /\ Len(Tail(s)) = Len(s) - 1  BY <1>1, <1>2
    <2>2. QED  BY <1>1, <1>2, <2>1
  <1>3. CASE ~(Len(s) >= PENDING_EVENTS_CAP)  BY <1>1, <1>3
  <1>4. QED  BY <1>2, <1>3

\* A completed frame is delivered as the message it was, and the next starts
\* behind it.
LEMMA DeliverKeeps == ASSUME WireInv, Wire!Deliver PROVE WireInv'
  <1>1. /\ Wire!handshake \/ Wire!request_reply \/ Wire!next_event_read
        /\ delivered' = Append(delivered, Wire!Decoded) /\ got' = <<>>
        /\ UNCHANGED <<sent, written, late, down, asked, wire>>
    BY DEF Wire!Deliver, Wire!writer
  <1>2. Wire!Complete
    BY <1>1 DEF Wire!handshake, Wire!request_reply, Wire!next_event_read
  <1>3. Frame \in 1..Last /\ Wire!Decoded = sent[Frame] /\ Len(got) = Wire!Size(Frame)
    BY <1>2, DecodesTheFrame
  <1>4. /\ sent \in Seq(Message) /\ delivered \in Seq(Message) /\ Last \in Nat
        /\ pending_events \in Seq(Nat) /\ Len(pending_events) <= PENDING_EVENTS_CAP
        /\ next_id \in Nat /\ asked \in Nat /\ Len(delivered) \in 0..Last
    BY DEF WireInv, Framed, InHand, Last, Wire!TypeOK
  <1>5. Wire!Decoded \in Message /\ Wire!Decoded.id \in Nat
        /\ Wire!Decoded.kind \in {"HelloAck", "HelloError", "NewerAck", "Event", "Response"}
    <2>1. Wire!Decoded \in Message  BY <1>3, <1>4 DEF Last
    <2>2. QED  BY <2>1 DEF Message
  <1>6. pending_events' \in Seq(Nat) /\ Len(pending_events') <= PENDING_EVENTS_CAP
        /\ next_id' \in Nat /\ poisoned' \in BOOLEAN /\ expired' \in BOOLEAN
        /\ call' \in {"none", "handshake", "request", "next_event"}
        /\ result' \in {"Ok", "HandshakeRefused", "Protocol", "Transport", "Event",
                        "InvalidData", result}
    <2>0. expired \in BOOLEAN /\ poisoned \in BOOLEAN
      BY DEF WireInv, Wire!TypeOK
    <2>1. CASE Wire!handshake
      <3>1. /\ call' = "none" /\ expired' = FALSE
            /\ result' \in {"Ok", "HandshakeRefused", "Protocol"}
            /\ poisoned' = (Wire!Decoded.kind # "HelloAck")
            /\ UNCHANGED <<next_id, pending_events>>
        BY <2>1 DEF Wire!handshake, Wire!Return
      <3>2. poisoned' \in BOOLEAN  BY <3>1
      <3>3. QED  BY Zenon, <1>4, <3>1, <3>2
    <2>2. CASE Wire!next_event_read
      <3>1. /\ call' = "none" /\ expired' = FALSE
            /\ result' \in {"Event", "InvalidData"}
            /\ UNCHANGED <<next_id, pending_events, poisoned>>
        BY <2>2 DEF Wire!next_event_read, Wire!Return, Wire!client
      <3>2. QED  BY Zenon, <1>4, <2>0, <3>1
    <2>3. CASE Wire!request_reply
      <3>1. call = "request"  BY <2>3 DEF Wire!request_reply
      <3>2. \/ /\ call' = "none" /\ expired' = FALSE /\ result' = "Ok"
               /\ UNCHANGED <<next_id, pending_events, poisoned>>
            \/ /\ UNCHANGED <<call, result, expired, next_id, poisoned>>
               /\ Wire!Buffered(Wire!Decoded.id)
            \/ /\ call' = "none" /\ expired' = FALSE /\ result' = "Transport"
               /\ poisoned' = TRUE /\ UNCHANGED <<next_id, pending_events>>
        BY <2>3 DEF Wire!request_reply, Wire!Return, Wire!client
      <3>3. Wire!Buffered(Wire!Decoded.id) =>
               pending_events' \in Seq(Nat) /\ Len(pending_events') <= PENDING_EVENTS_CAP
        BY <1>4, <1>5, BuffersOne DEF Wire!Buffered
      <3>4. QED  BY Zenon, <1>4, <2>0, <3>1, <3>2, <3>3
    <2>4. QED  BY <1>1, <2>1, <2>2, <2>3
  <1>7. PICK k \in Nat : k = Len(delivered)  BY <1>4
  <1>8. Frame = k + 1 /\ k + 1 <= Last  BY <1>3, <1>4, <1>7 DEF Frame
  <1>9. /\ delivered' \in Seq(Message) /\ Len(delivered') = k + 1
        /\ delivered'[k + 1] = sent[k + 1] /\ \A i \in 1..k : delivered'[i] = delivered[i]
    <2>1. PICK m \in Message : m = Wire!Decoded  BY Zenon, <1>5
    <2>2. delivered' = Append(delivered, m) /\ delivered \in Seq(Message) /\ k = Len(delivered)
      BY Zenon, <1>1, <1>4, <1>7, <2>1
    <2>3. m = sent[k + 1]  BY Zenon, <1>3, <1>8, <2>1
    <2>4. /\ delivered' \in Seq(Message) /\ Len(delivered') = k + 1
          /\ delivered'[k + 1] = m /\ \A i \in 1..k : delivered'[i] = delivered[i]
      BY <2>2
    <2>5. QED  BY Zenon, <2>3, <2>4
  <1>10. Last' = Last /\ \A f : Wire!Size(f)' = Wire!Size(f)
    BY <1>1 DEF Last, Wire!Size
  <1>11. Wire!TypeOK'  BY <1>1, <1>6 DEF WireInv, Wire!TypeOK
  <1>12. Framed'
    <2>1. sent # <<>>  BY <1>3, <1>4 DEF Last
    <2>2. written <= Wire!Size(Last)' /\ written \in Nat
      BY <1>1, <2>1 DEF WireInv, Framed, Wire!Size, Last
    <2>3. /\ wire' = wire /\ wire \in Seq(Nat \X Nat) /\ sent' = sent /\ asked' = asked
          /\ written' = written /\ got' = <<>> /\ Last' = Last
      BY <1>1, <1>10 DEF WireInv, Framed
    <2>4. got' \in Seq(Nat \X Nat)  BY <2>3
    <2>5. written' <= Wire!Size(Last)'  BY Zenon, <2>2, <2>3
    <2>6. sent' # <<>>  BY Zenon, <2>1, <2>3
    <2>7. sent' \in Seq(Message) /\ wire' \in Seq(Nat \X Nat) /\ asked' \in Nat /\ written' \in Nat
      BY Zenon, <1>4, <2>2, <2>3
    <2>8. QED  BY Zenon, <1>6, <1>9, <2>4, <2>5, <2>6, <2>7 DEF Framed
  <1>13. InHand'
    <2>1. \A i \in 1 .. k + 1 : delivered'[i] = sent[i]
      <3>1. \A i \in 1..k : delivered[i] = sent[i]  BY <1>7 DEF WireInv, InHand
      <3>2. \A i \in 1 .. k + 1 : i \in 1..k \/ i = k + 1  BY <1>7
      <3>3. QED  BY Zenon, <1>9, <3>1, <3>2
    <2>2. got' = <<>> /\ \A i \in 1..Len(got') : FALSE  BY <1>1
    <2>3. Len(delivered') <= Last'  BY <1>8, <1>9, <1>10
    <2>4. \A i \in 1..Len(delivered') : delivered'[i] = sent'[i]  BY Zenon, <1>1, <1>9, <2>1
    <2>5. QED  BY Zenon, <2>2, <2>3, <2>4 DEF InHand
  <1>14. HangUps'
    BY Zenon, <1>1, <1>6 DEF WireInv, HangUps, Wire!Writing, Wire!Size
  <1>15. Layout'
    <2>1. PICK E : Offsets(E) /\ Placed(E)  BY DEF WireInv, Layout
    <2>2. Offsets(E)'  BY <1>10, <2>1 DEF Offsets
    <2>3. /\ E[k] \in Nat /\ E[k + 1] \in Nat /\ Len(got) \in Nat
          /\ E[k + 1] = E[k] + Len(got)
      <3>1. k + 1 \in 1..Last /\ k \in 0..Last  BY <1>4, <1>8
      <3>2. E[k + 1] = E[k + 1 - 1] + Wire!Size(k + 1)  BY <2>1, <3>1 DEF Offsets
      <3>3. E[k] \in Nat /\ E[k + 1] \in Nat  BY <2>1, <3>1 DEF Offsets
      <3>4. Len(got) \in Nat  BY DEF WireInv, Framed
      <3>5. QED  BY <1>3, <1>8, <3>2, <3>3, <3>4
    <2>4. E[Len(delivered')] + Len(got') = E[Len(delivered)] + Len(got)
      BY <1>1, <1>7, <1>9, <2>3
    <2>5. E[Last' - 1] + written' = E[Len(delivered')] + Len(got') + Len(wire')
      <3>1. sent # <<>>  BY <1>3, <1>4 DEF Last
      <3>2. E[Last - 1] + written = E[Len(delivered)] + Len(got) + Len(wire)
        BY <2>1, <3>1 DEF Placed
      <3>3. QED  BY <1>1, <1>10, <2>4, <3>2
    <2>6. \A i \in 1..Len(wire') : \E f \in 1..Last' : \E p \in 1..Wire!Size(f)' :
              /\ wire'[i] = <<f, p>>
              /\ E[f - 1] + p = E[Len(delivered')] + Len(got') + i
      <3>1. SUFFICES ASSUME NEW i \in 1..Len(wire')
                     PROVE  \E f \in 1..Last' : \E p \in 1..Wire!Size(f)' :
                              /\ wire'[i] = <<f, p>>
                              /\ E[f - 1] + p = E[Len(delivered')] + Len(got') + i
        OBVIOUS
      <3>2. PICK f \in 1..Last : \E p \in 1..Wire!Size(f) :
                   /\ wire[i] = <<f, p>>
                   /\ E[f - 1] + p = E[Len(delivered)] + Len(got) + i
        BY Zenon, <1>1, <2>1 DEF Placed
      <3>3. f \in 1..Last' /\ Wire!Size(f)' = Wire!Size(f)  BY <1>10
      <3>4. QED  BY Zenon, <1>1, <2>4, <3>2, <3>3
    <2>7. Placed(E)'  BY Zenon, <2>5, <2>6 DEF Placed
    <2>8. QED  BY <2>2, <2>7 DEF Layout
  <1>16. QED  BY <1>11, <1>12, <1>13, <1>14, <1>15 DEF WireInv

\* A new call reads on from where the last one left the reader.
LEMMA CallsKeep == ASSUME WireInv, Wire!request \/ Wire!next_event PROVE WireInv'
  <1>1. UNCHANGED <<sent, written, late, down, wire, got, delivered>>
    BY DEF Wire!request, Wire!next_event, Wire!writer
  <1>2. /\ pending_events \in Seq(Nat) /\ Len(pending_events) <= PENDING_EVENTS_CAP
        /\ next_id \in Nat /\ asked \in Nat /\ poisoned \in BOOLEAN /\ expired \in BOOLEAN
    BY DEF WireInv, Framed, Wire!TypeOK
  <1>3. /\ pending_events' \in Seq(Nat) /\ Len(pending_events') <= PENDING_EVENTS_CAP
        /\ next_id' \in Nat /\ asked' \in Nat
        /\ poisoned' \in BOOLEAN /\ expired' \in BOOLEAN
        /\ call' \in {"none", "request", "next_event"}
        /\ result' \in {"Transport", "ConnectionAborted", "Event", result}
    <2>1. CASE Wire!request
      <3>1. /\ UNCHANGED pending_events
            /\ next_id' \in {next_id, next_id + 1} /\ asked' \in {asked, next_id}
            /\ poisoned' \in {poisoned, TRUE} /\ expired' \in {expired, FALSE}
            /\ call' \in {"none", "request"} /\ result' \in {"Transport", result}
        BY Zenon, <2>1 DEF Wire!request, Wire!Return, Wire!client
      <3>2. poisoned' \in BOOLEAN /\ expired' \in BOOLEAN  BY Zenon, <1>2, <3>1
      <3>3. next_id' \in Nat /\ asked' \in Nat  BY <1>2, <3>1
      <3>4. QED  BY <1>2, <3>1, <3>2, <3>3
    <2>2. CASE Wire!next_event
      <3>1. /\ UNCHANGED <<next_id, asked, poisoned>> /\ expired' \in {expired, FALSE}
            /\ call' \in {"none", "next_event"}
            /\ result' \in {"ConnectionAborted", "Event", result}
            /\ \/ UNCHANGED pending_events
               \/ pending_events # <<>> /\ pending_events' = Tail(pending_events)
        BY Zenon, <2>2 DEF Wire!next_event, Wire!Return, Wire!client, Wire!writer
      <3>2. pending_events' \in Seq(Nat) /\ Len(pending_events') <= PENDING_EVENTS_CAP
        <4>1. ASSUME pending_events # <<>>
              PROVE  /\ Tail(pending_events) \in Seq(Nat)
                     /\ Len(Tail(pending_events)) = Len(pending_events) - 1
          BY <1>2, <4>1
        <4>2. Len(pending_events) \in Nat  BY <1>2
        <4>3. QED  BY <1>2, <3>1, <4>1, <4>2, ProcessesAssumption
      <3>3. QED  BY Zenon, <1>2, <3>1, <3>2
    <2>3. QED  BY <2>1, <2>2
  <1>4. Framed' /\ InHand' /\ Layout'  BY <1>1, <1>3, SameLayout
  <1>5. Wire!TypeOK'  BY <1>1, <1>3 DEF WireInv, Wire!TypeOK
  <1>6. HangUps'  BY Zenon, <1>1, <1>3 DEF WireInv, HangUps, Wire!Writing, Wire!Size
  <1>7. QED  BY <1>4, <1>5, <1>6 DEF WireInv

\* Every step of the daemon's writer, the reader and the caller keeps it.
LEMMA WireSteps == ASSUME WireInv, [Wire!Next]_transport PROVE WireInv'
  <1>1. CASE Wire!Next
    BY <1>1, SendsKeep, WritesKeep, WaitsKeep, FillKeeps, EndsKeep, DeliverKeeps,
       CallsKeep
       DEF Wire!Next
  <1>2. CASE UNCHANGED transport
    <2> USE <1>2 DEF transport
    <2>1. pending_events' \in Seq(Nat) /\ next_id' \in Nat /\ asked' \in Nat
      BY DEF WireInv, Framed
    <2>2. Framed' /\ InHand' /\ Layout'  BY <2>1, SameLayout
    <2>3. Wire!TypeOK'  BY DEF WireInv, Wire!TypeOK
    <2>4. HangUps'  BY Zenon DEF WireInv, HangUps, Wire!Writing, Wire!Size
    <2>5. QED  BY <2>2, <2>3, <2>4 DEF WireInv
  <1>3. QED  BY <1>1, <1>2

\* For every prefix length, socket capacity and message lengths: the reader
\* delivers the messages that were written, in order, wherever reads, polls and
\* deadlines cut them, and tells a hang-up from a cut frame (frame.rs, client.rs).
THEOREM ReaderStaysAligned == Spec => []ReadsStayAligned
  <1>1. Init => WireInv  BY Zenon, WireStarts DEF Init
  <1>2. WireInv /\ [Next]_vars => WireInv'  BY PartSteps, WireSteps
  <1>3. WireInv => ReadsStayAligned
    <2> SUFFICES ASSUME WireInv PROVE ReadsStayAligned  OBVIOUS
    <2>1. \A i \in DOMAIN delivered : delivered[i] = sent[i]
      BY DEF WireInv, Framed, InHand
    <2>2. QED  BY <2>1 DEF WireInv, HangUps, ReadsStayAligned, Wire!ReadsStayAligned
  <1>4. QED  BY <1>1, <1>2, <1>3, PTL DEF Spec

-----------------------------------------------------------------------------
(* The terminal client.                                                     *)

\* A snapshot grown older is a snapshot, of the next age.
LEMMA AgedSnapshots ==
    /\ Tui!Aged(<<>>) = <<>>
    /\ \A n \in 0..Tui!AGE_CAP :
          Tui!Older(n) \in 0..Tui!AGE_CAP /\ Tui!Aged(<<n>>) = <<Tui!Older(n)>>
    /\ \A s \in Tui!Snapshots : Tui!Aged(s) \in Tui!Snapshots
  <1>1. Tui!Aged(<<>>) = <<>>
    <2>1. DOMAIN <<>> = {}  OBVIOUS
    <2>2. QED  BY <2>1 DEF Tui!Aged
  <1>2. ASSUME NEW n \in 0..Tui!AGE_CAP
        PROVE Tui!Older(n) \in 0..Tui!AGE_CAP /\ Tui!Aged(<<n>>) = <<Tui!Older(n)>>
    <2>1. Tui!Older(n) \in 0..Tui!AGE_CAP
      BY ProcessesAssumption DEF Tui!Older, Tui!AGE_CAP
    <2>2. DOMAIN <<n>> = {1} /\ <<n>>[1] = n  OBVIOUS
    <2>3. Tui!Aged(<<n>>) = [i \in {1} |-> Tui!Older(n)]
      BY <2>2 DEF Tui!Aged
    <2>4. [i \in {1} |-> Tui!Older(n)] = <<Tui!Older(n)>>  OBVIOUS
    <2>5. QED  BY <2>1, <2>3, <2>4
  <1>3. ASSUME NEW s \in Tui!Snapshots PROVE Tui!Aged(s) \in Tui!Snapshots
    <2>1. s = <<>> \/ \E n \in 0..Tui!AGE_CAP : s = <<n>>
      BY DEF Tui!Snapshots, Tui!Optional
    <2>2. CASE s = <<>>  BY <1>1, <2>2 DEF Tui!Snapshots, Tui!Optional
    <2>3. ASSUME NEW n \in 0..Tui!AGE_CAP, s = <<n>> PROVE Tui!Aged(s) \in Tui!Snapshots
      BY <1>2, <2>3 DEF Tui!Snapshots, Tui!Optional
    <2>4. QED  BY <2>1, <2>2, <2>3
  <1>4. QED  BY <1>1, <1>2, <1>3

\* The modes of a terminal, and a try at handing back both halves.
Terminals == [raw : BOOLEAN, alternate : BOOLEAN, stuck : SUBSET {"raw", "alternate"}]

\* attempt_both leaves a mode on only where its own operation failed.
LEMMA RestoresBoth ==
    ASSUME Tui!TypeOK, NEW failed \in SUBSET {"raw", "alternate"}
    PROVE  LET t == Tui!Restored(failed, TRUE)
           IN  /\ t \in Terminals
               /\ t.raw => "raw" \in t.stuck
               /\ t.alternate => "alternate" \in t.stuck
  <1>1. (terminal.raw /\ "raw" \in failed) \in BOOLEAN
        /\ (terminal.alternate /\ ("alternate" \in failed \/ ~TRUE)) \in BOOLEAN
    OBVIOUS
  <1>2. QED  BY Zenon, <1>1 DEF Tui!Restored, Terminals

\* A failing operation is counted up to the bound.
LEMMA FaultsAreCounted ==
    ASSUME Tui!TypeOK, faults' = faults \/ (faults < MaxFaults /\ faults' = faults + 1)
    PROVE  faults' \in 0..MaxFaults
  <1>1. MaxFaults \in Nat  BY Zenon, ProcessesAssumption
  <1>2. faults \in 0..MaxFaults  BY Zenon DEF Tui!TypeOK
  <1>3. QED  BY <1>1, <1>2

\* No operation has failed yet, and the first snapshot is new.
LEMMA TuiNumbers ==
    /\ 0 \in 0..MaxFaults
    /\ 0 \in 0..Tui!AGE_CAP
    /\ <<0>> \in Tui!Snapshots
  <1>1. MaxFaults \in Nat /\ STALE_AFTER \in Nat  BY Zenon, ProcessesAssumption
  <1>2. 0 \in 0..MaxFaults  BY <1>1
  <1>3. 0 \in 0..Tui!AGE_CAP  BY <1>1 DEF Tui!AGE_CAP
  <1>4. <<0>> \in Tui!Snapshots  BY Zenon, <1>3 DEF Tui!Snapshots, Tui!Optional
  <1>5. QED  BY Zenon, <1>2, <1>3, <1>4

\* Nothing changes, and the types with it.
LEMMA TuiTypesStand == ASSUME Tui!TypeOK, UNCHANGED tui PROVE Tui!TypeOK'
  <1>1. /\ screen' = screen /\ terminal' = terminal /\ handler' = handler
        /\ signalled' = signalled /\ refresher' = refresher /\ leaving' = leaving
        /\ done' = done /\ handle' = handle /\ slot' = slot /\ state' = state
        /\ frame' = frame /\ newest' = newest /\ faults' = faults
    BY DEF tui
  <1>2. {handler, signalled, leaving, done, handle} \subseteq BOOLEAN  BY Zenon DEF Tui!TypeOK
  <1>3. {handler', signalled', leaving', done', handle'} \subseteq BOOLEAN
    BY Zenon, <1>1, <1>2
  <1>4. /\ slot' \in Tui!Snapshots /\ newest' \in Tui!Snapshots /\ faults' \in 0..MaxFaults
        /\ frame' \in {"none", "live", "stale"}
    BY Zenon, <1>1 DEF Tui!TypeOK
  <1>5. QED  BY Zenon, <1>1, <1>3, <1>4 DEF Tui!TypeOK

\* Neither mode is left on, but for a half whose restoring failed.
Handed ==
    /\ terminal.raw => "raw" \in terminal.stuck
    /\ terminal.alternate => "alternate" \in terminal.stuck

\* What setup_terminal has touched so far, and that nothing is published before
\* the refresh thread starts; a panic has run its hook, and nobody touches the
\* terminal after it.
Begun ==
    /\ screen.at \in {"start", "raw"} => ~terminal.raw
    /\ screen.at \in {"start", "raw", "screen"} => ~terminal.alternate
    /\ screen.at \in {"start", "raw", "screen", "term"} =>
          newest = <<>> /\ slot = <<>> /\ refresher.at = "none"
    /\ screen.result = "panic" => screen.at \in {"drop", "exited", "killed"} /\ Handed

TuiInv ==
    Tui!TypeOK /\ Begun /\ Tui!TerminalIsHandedBack /\ Tui!NewestIsKept

\* The handlers go in before the terminal is touched.
LEMMA install_terminate_handlerKeeps ==
    ASSUME TuiInv, Tui!install_terminate_handler PROVE TuiInv'
  <1> USE ProcessesAssumption DEF TuiInv, Tui!install_terminate_handler, Tui!Fault,
          Tui!Fine, Tui!To, Tui!Leave, Tui!workerVars, Tui!loopVars
  <1>1. Tui!TypeOK'
    <2>0. faults' = faults \/ (faults < MaxFaults /\ faults' = faults + 1)
      BY Zenon
    <2>1. faults' \in 0..MaxFaults  BY <2>0, FaultsAreCounted
    <2>2. handler' \in BOOLEAN  BY Zenon DEF Tui!TypeOK
    <2>3. QED  BY <2>1, <2>2 DEF Tui!TypeOK
  <1>2. Begun'  BY DEF Tui!TypeOK, Begun, Handed
  <1>3. Tui!TerminalIsHandedBack'
    BY DEF Tui!TypeOK, Tui!TerminalIsHandedBack, Begun, Handed
  <1>4. Tui!NewestIsKept'  BY DEF Tui!TypeOK, Tui!NewestIsKept, Begun
  <1>5. QED  BY <1>1, <1>2, <1>3, <1>4

\* Raw mode comes first, or nothing does.
LEMMA enable_raw_modeKeeps == ASSUME TuiInv, Tui!enable_raw_mode PROVE TuiInv'
  <1> USE ProcessesAssumption DEF TuiInv, Tui!enable_raw_mode, Tui!Fault, Tui!Fine,
          Tui!To, Tui!Leave, Tui!workerVars, Tui!loopVars
  <1>1. Tui!TypeOK'
    <2>0. faults' = faults \/ (faults < MaxFaults /\ faults' = faults + 1)
      BY Zenon
    <2>1. faults' \in 0..MaxFaults  BY <2>0, FaultsAreCounted
    <2>2. terminal' \in Terminals  BY ZenonT(40) DEF Tui!TypeOK, Terminals
    <2>3. QED  BY <2>1, <2>2 DEF Tui!TypeOK, Terminals
  <1>2. Begun'  BY DEF Tui!TypeOK, Begun, Handed
  <1>3. Tui!TerminalIsHandedBack'
    BY DEF Tui!TypeOK, Tui!TerminalIsHandedBack, Begun, Handed
  <1>4. Tui!NewestIsKept'  BY DEF Tui!TypeOK, Tui!NewestIsKept, Begun
  <1>5. QED  BY <1>1, <1>2, <1>3, <1>4

\* A failing second step undoes the first.
LEMMA setup_terminalKeeps == ASSUME TuiInv, Tui!setup_terminal PROVE TuiInv'
  <1> USE ProcessesAssumption DEF TuiInv, Tui!setup_terminal, Tui!Fault, Tui!Fine,
          Tui!To, Tui!Leave, Tui!workerVars, Tui!loopVars
  <1>1. Tui!TypeOK'
    <2>0. faults' = faults \/ (faults < MaxFaults /\ faults' = faults + 1)
      BY Zenon
    <2>1. faults' \in 0..MaxFaults  BY <2>0, FaultsAreCounted
    <2>2. terminal' \in Terminals  BY Zenon DEF Tui!TypeOK, Terminals
    <2>3. QED  BY <2>1, <2>2 DEF Tui!TypeOK, Terminals
  <1>2. Begun'  BY DEF Tui!TypeOK, Begun, Handed
  <1>3. Tui!TerminalIsHandedBack'
    BY DEF Tui!TypeOK, Tui!TerminalIsHandedBack, Begun, Handed
  <1>4. Tui!NewestIsKept'  BY DEF Tui!TypeOK, Tui!NewestIsKept, Begun
  <1>5. QED  BY <1>1, <1>2, <1>3, <1>4

\* Nothing was published before the refresh thread starts.
LEMMA RefreshWorker_startKeeps == ASSUME TuiInv, Tui!RefreshWorker_start PROVE TuiInv'
  <1> USE ProcessesAssumption DEF TuiInv, Tui!RefreshWorker_start, Tui!Fault,
          Tui!Fine, Tui!To, Tui!Leave, Tui!workerVars, Tui!loopVars
  <1>1. Tui!TypeOK'
    <2>1. state' \in [some : BOOLEAN, age : 0..Tui!AGE_CAP]  BY DEF Tui!AGE_CAP
    <2>2. refresher' \in [at : {"none", "fetch", "publish", "wait", "gone"},
                         fetched : Tui!Snapshots]
      BY DEF Tui!TypeOK
    <2>3. handle' \in BOOLEAN  OBVIOUS
    <2>4. QED  BY <2>1, <2>2, <2>3 DEF Tui!TypeOK
  <1>2. Begun'  BY DEF Tui!TypeOK, Begun, Handed
  <1>3. Tui!TerminalIsHandedBack'
    BY DEF Tui!TypeOK, Tui!TerminalIsHandedBack, Begun, Handed
  <1>4. Tui!NewestIsKept'  BY DEF Tui!TypeOK, Tui!NewestIsKept, Begun
  <1>5. QED  BY <1>1, <1>2, <1>3, <1>4

\* A terminal that cannot be wrapped is restored.
LEMMA with_options_failsKeeps == ASSUME TuiInv, Tui!with_options_fails PROVE TuiInv'
  <1> USE ProcessesAssumption DEF TuiInv, Tui!with_options_fails, Tui!Restored,
          Tui!Fault, Tui!Fine, Tui!To, Tui!Leave, Tui!workerVars, Tui!loopVars
  <1>1. Tui!TypeOK'
    <2>0. faults' = faults \/ (faults < MaxFaults /\ faults' = faults + 1)
      BY Zenon
    <2>1. faults' \in 0..MaxFaults  BY Zenon, <2>0, FaultsAreCounted
    <2>2. terminal' \in Terminals  BY Zenon, RestoresBoth
    <2>3. QED  BY Zenon, <2>1, <2>2 DEF Tui!TypeOK, Terminals
  <1>2. Begun'  BY Zenon DEF Tui!TypeOK, Begun, Handed
  <1>3. Tui!TerminalIsHandedBack'  BY Zenon, RestoresBoth DEF Tui!TerminalIsHandedBack
  <1>4. Tui!NewestIsKept'  BY Zenon DEF Tui!TypeOK, Tui!NewestIsKept, Begun
  <1>5. QED  BY Zenon, <1>1, <1>2, <1>3, <1>4

\* What is taken from the slot is what the loop holds.
LEMMA drainKeeps == ASSUME TuiInv, Tui!drain PROVE TuiInv'
  <1> USE ProcessesAssumption DEF TuiInv, Tui!drain, Tui!Fault, Tui!Fine, Tui!To,
          Tui!Leave, Tui!workerVars, Tui!loopVars
  <1>1. Tui!TypeOK'
    <2>1. CASE slot = <<>>  BY <2>1 DEF Tui!TypeOK
    <2>2. CASE slot # <<>>
      <3>1. PICK n \in 0..Tui!AGE_CAP : slot = <<n>>
        BY <2>2 DEF Tui!TypeOK, Tui!Snapshots, Tui!Optional
      <3>2. state' = [some |-> TRUE, age |-> n] /\ slot' = <<>> /\ screen' = screen
        BY <2>2, <3>1
      <3>3. state' \in [some : BOOLEAN, age : 0..Tui!AGE_CAP] /\ slot' \in Tui!Snapshots
        BY <3>2 DEF Tui!Snapshots, Tui!Optional
      <3>4. QED  BY <3>2, <3>3 DEF Tui!TypeOK
    <2>3. QED  BY <2>1, <2>2
  <1>2. Begun'  BY DEF Tui!TypeOK, Begun, Handed
  <1>3. Tui!TerminalIsHandedBack'
    BY DEF Tui!TypeOK, Tui!TerminalIsHandedBack, Begun, Handed
  <1>4. Tui!NewestIsKept'
    <2>1. CASE slot = <<>>  BY <2>1 DEF Tui!NewestIsKept
    <2>2. CASE slot # <<>>
      <3>1. PICK n \in 0..Tui!AGE_CAP : slot = <<n>>
        BY <2>2 DEF Tui!TypeOK, Tui!Snapshots, Tui!Optional
      <3>2. state' = [some |-> TRUE, age |-> n] /\ slot' = <<>> /\ newest' = newest
        BY <2>2, <3>1
      <3>3. newest # <<>> => newest = <<n>>  BY <2>2, <3>1 DEF Tui!NewestIsKept
      <3>4. QED  BY <3>2, <3>3 DEF Tui!NewestIsKept
    <2>3. QED  BY <2>1, <2>2
  <1>5. QED  BY <1>1, <1>2, <1>3, <1>4

\* A termination restores before the shutdown.
LEMMA termination_checkKeeps == ASSUME TuiInv, Tui!termination_check PROVE TuiInv'
  <1> USE ProcessesAssumption DEF TuiInv, Tui!termination_check, Tui!restore,
          Tui!Restored, Tui!Fault, Tui!Fine, Tui!To, Tui!Leave, Tui!workerVars, Tui!loopVars
  <1>1. Tui!TypeOK'
    <2>0. faults' = faults \/ (faults < MaxFaults /\ faults' = faults + 1)
      BY Zenon
    <2>1. faults' \in 0..MaxFaults  BY <2>0, FaultsAreCounted
    <2>2. terminal' \in Terminals
      <3>1. terminal \in Terminals  BY DEF Tui!TypeOK, Terminals
      <3> HIDE DEF Tui!Restored
      <3>2. QED  BY Zenon, <3>1, RestoresBoth
    <2>3. \/ screen' = [screen EXCEPT !.at = "shutdown"]
          \/ screen' = [screen EXCEPT !.at = "draw"]
      OBVIOUS
    <2>4. UNCHANGED <<handler, signalled, leaving, done, handle, refresher, slot,
                      newest, state, frame>>
      OBVIOUS
    <2> HIDE DEF Tui!termination_check
    <2>5. QED  BY <2>1, <2>2, <2>3, <2>4 DEF Tui!TypeOK, Terminals
  <1>2. Begun'  BY DEF Tui!TypeOK, Begun, Handed
  <1>3. Tui!TerminalIsHandedBack'
    BY DEF Tui!TypeOK, Tui!TerminalIsHandedBack, Begun, Handed
  <1>4. Tui!NewestIsKept'  BY DEF Tui!TypeOK, Tui!NewestIsKept, Begun
  <1>5. QED  BY <1>1, <1>2, <1>3, <1>4

\* A panic in render restores by the hook.
LEMMA drawKeeps == ASSUME TuiInv, Tui!draw PROVE TuiInv'
  <1> USE ProcessesAssumption DEF TuiInv, Tui!draw, Tui!view, Tui!restore,
          Tui!Restored, Tui!Fault, Tui!Fine, Tui!To, Tui!Leave, Tui!workerVars, Tui!loopVars
  <1>1. Tui!TypeOK'
    <2>0. faults' = faults \/ (faults < MaxFaults /\ faults' = faults + 1)
      BY Zenon
    <2>1. faults' \in 0..MaxFaults  BY <2>0, FaultsAreCounted
    <2>2. terminal' \in Terminals  BY Zenon, RestoresBoth DEF Tui!TypeOK, Terminals
    <2>3. \/ screen' = [screen EXCEPT !.at = "poll"]
          \/ screen' = [at |-> "shutdown", result |-> "error"]
          \/ screen' = [at |-> "drop", result |-> "panic"]
      OBVIOUS
    <2>4. frame' \in {frame, "live", "stale"}  OBVIOUS
    <2>5. UNCHANGED <<handler, signalled, leaving, done, handle, refresher, slot, newest, state>>
      OBVIOUS
    <2> HIDE DEF Tui!draw
    <2>6. QED  BY <2>1, <2>2, <2>3, <2>4, <2>5 DEF Tui!TypeOK, Terminals
  <1>2. Begun'
    <2>1. CASE screen' = [at |-> "drop", result |-> "panic"]
      <3>1. Handed'  BY <2>1, RestoresBoth DEF Handed, Tui!TypeOK
      <3>2. QED  BY <2>1, <3>1 DEF Begun
    <2>2. CASE \/ screen' = [screen EXCEPT !.at = "poll"]
               \/ screen' = [at |-> "shutdown", result |-> "error"]
      BY <2>2 DEF Tui!TypeOK, Begun
    <2>3. QED  BY <2>1, <2>2
  <1>3. Tui!TerminalIsHandedBack'
    BY DEF Tui!TypeOK, Tui!TerminalIsHandedBack, Begun, Handed
  <1>4. Tui!NewestIsKept'  BY DEF Tui!TypeOK, Tui!NewestIsKept, Begun
  <1>5. QED  BY <1>1, <1>2, <1>3, <1>4

\* A poll leaves both halves alone.
LEMMA pollKeeps == ASSUME TuiInv, Tui!poll PROVE TuiInv'
  <1> USE ProcessesAssumption DEF TuiInv, Tui!poll, Tui!Fault, Tui!Fine, Tui!To,
          Tui!Leave, Tui!workerVars, Tui!loopVars
  <1>1. Tui!TypeOK'  BY DEF Tui!TypeOK
  <1>2. Begun'  BY DEF Tui!TypeOK, Begun, Handed
  <1>3. Tui!TerminalIsHandedBack'
    BY DEF Tui!TypeOK, Tui!TerminalIsHandedBack, Begun, Handed
  <1>4. Tui!NewestIsKept'  BY DEF Tui!TypeOK, Tui!NewestIsKept, Begun
  <1>5. QED  BY <1>1, <1>2, <1>3, <1>4

\* The shutdown leaves the terminal alone.
LEMMA shutdownKeeps == ASSUME TuiInv, Tui!shutdown PROVE TuiInv'
  <1> USE ProcessesAssumption DEF TuiInv, Tui!shutdown, Tui!Fault, Tui!Fine, Tui!To,
          Tui!Leave, Tui!workerVars, Tui!loopVars
  <1>1. Tui!TypeOK'  BY ZenonT(40) DEF Tui!TypeOK
  <1>2. Begun'  BY DEF Tui!TypeOK, Begun, Handed
  <1>3. Tui!TerminalIsHandedBack'
    BY DEF Tui!TypeOK, Tui!TerminalIsHandedBack, Begun, Handed
  <1>4. Tui!NewestIsKept'  BY DEF Tui!TypeOK, Tui!NewestIsKept, Begun
  <1>5. QED  BY <1>1, <1>2, <1>3, <1>4

\* The last restore is of both halves.
LEMMA MainRestoresKeeps == ASSUME TuiInv, Tui!MainRestores PROVE TuiInv'
  <1> USE ProcessesAssumption DEF TuiInv, Tui!MainRestores, Tui!restore, Tui!Restored,
          Tui!Fault, Tui!Fine, Tui!To, Tui!Leave, Tui!workerVars, Tui!loopVars
  <1>1. Tui!TypeOK'
    <2>0. faults' = faults \/ (faults < MaxFaults /\ faults' = faults + 1)
      BY Zenon
    <2>1. faults' \in 0..MaxFaults  BY <2>0, FaultsAreCounted
    <2>2. terminal' \in Terminals  BY RestoresBoth DEF Tui!TypeOK, Terminals
    <2>3. QED  BY <2>1, <2>2 DEF Tui!TypeOK, Terminals
  <1>2. Begun'  BY DEF Tui!TypeOK, Begun, Handed
  <1>3. Tui!TerminalIsHandedBack'  BY RestoresBoth DEF Tui!TerminalIsHandedBack
  <1>4. Tui!NewestIsKept'  BY DEF Tui!TypeOK, Tui!NewestIsKept, Begun
  <1>5. QED  BY <1>1, <1>2, <1>3, <1>4

\* A fetch publishes nothing yet.
LEMMA fetch_snapshotKeeps == ASSUME TuiInv, Tui!fetch_snapshot PROVE TuiInv'
  <1> USE ProcessesAssumption DEF TuiInv, Tui!fetch_snapshot, Tui!Fault, Tui!Fine,
          Tui!To, Tui!Leave, Tui!workerVars, Tui!loopVars
  <1>1. Tui!TypeOK'
    <2>1. <<0>> \in Tui!Snapshots  BY Zenon, TuiNumbers
    <2>2. refresher' \in [at : {"none", "fetch", "publish", "wait", "gone"},
                         fetched : Tui!Snapshots]
      BY Zenon, <2>1
    <2>3. QED  BY Zenon, <2>2 DEF Tui!TypeOK
  <1>2. Begun'  BY Zenon DEF Tui!TypeOK, Begun, Handed
  <1>3. Tui!TerminalIsHandedBack'
    BY Zenon DEF Tui!TypeOK, Tui!TerminalIsHandedBack, Begun, Handed
  <1>4. Tui!NewestIsKept'  BY Zenon DEF Tui!TypeOK, Tui!NewestIsKept, Begun
  <1>5. QED  BY <1>1, <1>2, <1>3, <1>4

\* What is published is the newest.
LEMMA publishKeeps == ASSUME TuiInv, Tui!publish PROVE TuiInv'
  <1> USE ProcessesAssumption DEF TuiInv, Tui!publish, Tui!Fault, Tui!Fine, Tui!To,
          Tui!Leave, Tui!workerVars, Tui!loopVars
  <1>1. Tui!TypeOK'
    <2>1. <<>> \in Tui!Snapshots  BY Zenon DEF Tui!Snapshots, Tui!Optional
    <2>2. refresher' \in [at : {"none", "fetch", "publish", "wait", "gone"},
                         fetched : Tui!Snapshots]
      BY <2>1
    <2>3. refresher.fetched \in Tui!Snapshots  BY Zenon DEF Tui!TypeOK
    <2>4. QED  BY Zenon, <2>2, <2>3 DEF Tui!TypeOK
  <1>2. Begun'  BY Zenon DEF Tui!TypeOK, Begun, Handed
  <1>3. Tui!TerminalIsHandedBack'
    BY Zenon DEF Tui!TypeOK, Tui!TerminalIsHandedBack, Begun, Handed
  <1>4. Tui!NewestIsKept'  BY Zenon DEF Tui!TypeOK, Tui!NewestIsKept, Begun
  <1>5. QED  BY Zenon, <1>1, <1>2, <1>3, <1>4

\* A round leaves the slot alone.
LEMMA NextRoundKeeps == ASSUME TuiInv, Tui!NextRound PROVE TuiInv'
  <1> USE ProcessesAssumption DEF TuiInv, Tui!NextRound, Tui!Fault, Tui!Fine, Tui!To,
          Tui!Leave, Tui!workerVars, Tui!loopVars
  <1>1. Tui!TypeOK'  BY DEF Tui!TypeOK
  <1>2. Begun'  BY DEF Tui!TypeOK, Begun, Handed
  <1>3. Tui!TerminalIsHandedBack'
    BY DEF Tui!TypeOK, Tui!TerminalIsHandedBack, Begun, Handed
  <1>4. Tui!NewestIsKept'  BY DEF Tui!TypeOK, Tui!NewestIsKept, Begun
  <1>5. QED  BY <1>1, <1>2, <1>3, <1>4

\* A signal touches no terminal mode.
LEMMA record_terminationKeeps == ASSUME TuiInv, Tui!record_termination PROVE TuiInv'
  <1> USE ProcessesAssumption DEF TuiInv, Tui!record_termination, Tui!Alive,
          Tui!Fault, Tui!Fine, Tui!To, Tui!Leave, Tui!workerVars, Tui!loopVars
  <1>1. Tui!TypeOK'  BY Zenon DEF Tui!TypeOK
  <1>2. Begun'  BY DEF Tui!TypeOK, Begun, Handed
  <1>3. Tui!TerminalIsHandedBack'
    BY DEF Tui!TypeOK, Tui!TerminalIsHandedBack, Begun, Handed
  <1>4. Tui!NewestIsKept'  BY DEF Tui!TypeOK, Tui!NewestIsKept, Begun
  <1>5. QED  BY <1>1, <1>2, <1>3, <1>4

\* Everything recorded ages alike.
LEMMA TickKeeps == ASSUME TuiInv, Tui!Tick PROVE TuiInv'
  <1> USE ProcessesAssumption DEF TuiInv, Tui!Tick, Tui!Alive, Tui!Fault, Tui!Fine,
          Tui!To, Tui!Leave, Tui!workerVars, Tui!loopVars
  <1>1. Tui!TypeOK'
    <2>1. slot' \in Tui!Snapshots /\ newest' \in Tui!Snapshots
      BY AgedSnapshots DEF Tui!TypeOK
    <2>2. refresher' \in [at : {"none", "fetch", "publish", "wait", "gone"},
                         fetched : Tui!Snapshots]
      BY AgedSnapshots DEF Tui!TypeOK
    <2>3. state' \in [some : BOOLEAN, age : 0..Tui!AGE_CAP]
      BY Zenon, AgedSnapshots DEF Tui!TypeOK
    <2>4. UNCHANGED <<screen, frame, terminal, handler, signalled, leaving, done, handle, faults>>
      OBVIOUS
    <2> HIDE DEF Tui!Tick
    <2>5. QED  BY Zenon, <2>1, <2>2, <2>3, <2>4 DEF Tui!TypeOK
  <1>2. Begun'
    <2>1. refresher'.at = refresher.at  BY DEF Tui!TypeOK
    <2>2. newest = <<>> => newest' = <<>>  BY AgedSnapshots
    <2>3. slot = <<>> => slot' = <<>>  BY AgedSnapshots
    <2>4. UNCHANGED <<screen, terminal>>  OBVIOUS
    <2> HIDE DEF Tui!Tick
    <2>5. QED  BY Zenon, <2>1, <2>2, <2>3, <2>4 DEF Begun, Handed
  <1>3. Tui!TerminalIsHandedBack'
    BY DEF Tui!TypeOK, Tui!TerminalIsHandedBack, Begun, Handed
  <1>4. Tui!NewestIsKept'
    <2>1. newest' = Tui!Aged(newest) /\ slot' = Tui!Aged(slot)
          /\ state'.some = state.some /\ state'.age = Tui!Older(state.age)
          /\ state.age \in 0..Tui!AGE_CAP
          /\ slot \in Tui!Snapshots /\ newest \in Tui!Snapshots
      BY DEF Tui!TypeOK
    <2> HIDE DEF Tui!Tick
    <2>2. CASE newest = <<>>  BY Zenon, <2>1, <2>2, AgedSnapshots DEF Tui!NewestIsKept
    <2>3. CASE newest # <<>> /\ slot # <<>>
      <3>1. newest = slot  BY <2>3 DEF Tui!NewestIsKept
      <3>2. PICK n \in 0..Tui!AGE_CAP : slot = <<n>>
        BY <2>1, <2>3 DEF Tui!Snapshots, Tui!Optional
      <3>3. slot' = <<Tui!Older(n)>>  BY Zenon, <2>1, <3>2, AgedSnapshots
      <3>4. <<Tui!Older(n)>> # <<>>  OBVIOUS
      <3>5. QED  BY Zenon, <2>1, <3>1, <3>3, <3>4 DEF Tui!NewestIsKept
    <2>4. CASE newest # <<>> /\ slot = <<>>
      <3>1. state.some /\ newest = <<state.age>>  BY <2>4 DEF Tui!NewestIsKept
      <3>2. newest' = <<state'.age>> /\ slot' = <<>>  BY Zenon, <2>1, <2>4, <3>1, AgedSnapshots
      <3>3. QED  BY Zenon, <2>1, <3>1, <3>2 DEF Tui!NewestIsKept
    <2>5. QED  BY <2>2, <2>3, <2>4
  <1>5. QED  BY <1>1, <1>2, <1>3, <1>4

\* The client starts with the terminal as it found it.
LEMMA TuiStarts == Tui!Init => TuiInv
  <1> SUFFICES ASSUME Tui!Init PROVE TuiInv  OBVIOUS
  <1> USE ProcessesAssumption DEF Tui!Init
  <1>a. <<>> \in Tui!Snapshots  BY Zenon DEF Tui!Snapshots, Tui!Optional
  <1>b. refresher \in [at : {"none", "fetch", "publish", "wait", "gone"},
                      fetched : Tui!Snapshots]
    BY Zenon, <1>a
  <1>c. state \in [some : BOOLEAN, age : 0..Tui!AGE_CAP] /\ terminal \in Terminals
    <2>1. 0 \in 0..Tui!AGE_CAP  BY Zenon, TuiNumbers
    <2>2. state \in [some : BOOLEAN, age : 0..Tui!AGE_CAP]  BY Zenon, <2>1
    <2>3. terminal \in Terminals  BY Zenon DEF Terminals
    <2>4. QED  BY Zenon, <2>2, <2>3
  <1>d. faults \in 0..MaxFaults  BY Zenon, TuiNumbers
  <1>1. Tui!TypeOK  BY Zenon, <1>a, <1>b, <1>c, <1>d DEF Tui!TypeOK, Terminals
  <1>2. Begun /\ Tui!TerminalIsHandedBack /\ Tui!NewestIsKept
    BY Zenon DEF Begun, Handed, Tui!TerminalIsHandedBack, Tui!NewestIsKept
  <1>3. QED  BY Zenon, <1>1, <1>2 DEF TuiInv

\* Every step of both threads, a signal and the clock keep it.
LEMMA TuiSteps == ASSUME TuiInv, [Tui!Next]_tui PROVE TuiInv'
  <1>1. CASE Tui!MainNext
    BY <1>1, install_terminate_handlerKeeps, enable_raw_modeKeeps,
       setup_terminalKeeps, RefreshWorker_startKeeps, with_options_failsKeeps,
       drainKeeps, termination_checkKeeps, drawKeeps, pollKeeps, shutdownKeeps,
       MainRestoresKeeps DEF Tui!MainNext
  <1>2. CASE Tui!WorkerNext
    BY <1>2, fetch_snapshotKeeps, publishKeeps, NextRoundKeeps DEF Tui!WorkerNext
  <1>3. CASE Tui!record_termination \/ Tui!Tick
    BY <1>3, record_terminationKeeps, TickKeeps
  <1>4. CASE UNCHANGED tui
    <2> USE <1>4 DEF tui, TuiInv
    <2>1. Tui!TypeOK'  BY Zenon, TuiTypesStand
    <2>2. Begun' /\ Tui!TerminalIsHandedBack'
      BY Zenon DEF Begun, Handed, Tui!TerminalIsHandedBack
    <2>3. Tui!NewestIsKept'  BY DEF Tui!NewestIsKept
    <2>4. QED  BY <2>1, <2>2, <2>3
  <1>5. QED  BY <1>1, <1>2, <1>3, <1>4 DEF Tui!Next

\* Whatever fails or panics, and for every staleness bound: a client that has
\* ended has handed the terminal back, and the slot between its threads never
\* loses the newest snapshot (tui main.rs restore, SnapshotSlot).
THEOREM TerminalComesBack == Spec => []DashboardIsTidy
  <1>1. Init => TuiInv  BY Zenon, TuiStarts DEF Init
  <1>2. TuiInv /\ [Next]_vars => TuiInv'  BY PartSteps, TuiSteps
  <1>3. TuiInv => DashboardIsTidy  BY DEF TuiInv, DashboardIsTidy
  <1>4. QED  BY <1>1, <1>2, <1>3, PTL DEF Spec
=============================================================================

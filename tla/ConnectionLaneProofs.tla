------------------------ MODULE ConnectionLaneProofs ------------------------
(***************************************************************************)
(* The lane's safety, for any set of callers and uids and any number of     *)
(* connections: one tunnel, one owner, and teardowns that are final.        *)
(***************************************************************************)
EXTENDS ConnectionLane, TLAPS

\* The labels of the teardown the three calls share.
Teardown == {"retire", "transition", "stop", "join"}

\* The labels at which a caller is inside the window it armed.
Inside == Teardown \cup {"terminal", "clear", "release"}
          \cup {"recheck", "setup", "failed", "install"}

Busy(t) == pc[t] \in Inside

Tears(t, k) == pc[t] \in Teardown /\ job[t] = k

Running(k) == pump[k] \notin {"none", "exited"}

\* One caller at a time is inside a window, its own flag is up, and it has
\* emptied the lane.
Windows ==
    /\ \A s, t \in Callers : Busy(s) /\ Busy(t) => s = t
    /\ \A t \in Callers : Busy(t) =>
          /\ active = None /\ ~dropped
          /\ \/ op[t] = "connect" /\ reconnecting /\ uid[t] \in Uids
             \/ op[t] = "disconnect" /\ disconnecting
             \/ op[t] = "drain" /\ drain_in_progress

\* Where a caller is tells which call it is in, and a drain has raised its flag.
Labels ==
    \A t \in Callers :
        /\ pc[t] \in {"recheck", "setup", "failed", "install"} => op[t] = "connect"
        /\ pc[t] \in {"terminal", "clear"} => op[t] = "disconnect"
        /\ pc[t] \in {"drain", "release"} => op[t] = "drain"
        /\ pc[t] \in {"drain", "release", "drained"} \/ op[t] = "drain" => draining
        /\ pc[t] = "drain" => ~dropped
        /\ pc[t] \in Teardown \cup {"install"} => job[t] = started /\ job[t] # None

\* Only the connection started last has a pump that runs or a tunnel that is up.
Newest ==
    \A k \in Conns :
        /\ pump[k] # "none" \/ engine[k] # "none" => k <= started
        /\ Running(k) \/ engine[k] = "live" => k = started

\* Whose handle is where: a filled slot has a pump that looks at it, the
\* installed connection's stays filled until its pump claims it, and a teardown
\* has emptied it.
Slots ==
    /\ \A k \in Conns :
          /\ slot[k] => pump[k] \in {"loop", "publish", "claim"}
          /\ active = k /\ pump[k] \in {"loop", "publish", "claim"} => slot[k]
    /\ active # None => Running(active) /\ ~dropped
    /\ \A t \in Callers :
          /\ pc[t] \in Teardown => pump[started] # "none"
          /\ pc[t] \in Teardown \ {"retire"} => ~slot[started]

\* While the lane exists, a pump that runs is the installed connection's or
\* somebody will join it.
Attended ==
    ~dropped => \A k \in Conns : Running(k) =>
        active = k \/ \E t \in Callers : Tears(t, k)

\* Somebody will stop a tunnel that is up: who installs it, its pump, or the
\* teardown that got the handle.
LiveIsHeld ==
    \A k \in Conns : engine[k] = "live" =>
        \/ \E t \in Callers : pc[t] = "install" /\ job[t] = k
        \/ slot[k] \/ pump[k] = "closing"
        \/ \E t \in Callers : pc[t] \in {"transition", "stop"} /\ job[t] = k /\ retired[t]

\* Past the join nothing is up; before the install no pump runs.
Settled ==
    \A t \in Callers :
        /\ Busy(t) /\ pc[t] \notin Teardown \cup {"install"} => \A k \in Conns : Down(k)
        /\ pc[t] = "install" =>
              /\ \A k \in Conns : ~Running(k)
              /\ pump[started] = "none"

\* What the core shows when the last connection has ended.
Shown ==
    /\ \A k \in Conns : pump[k] = "retire" /\ active = k => core = "Disconnected"
    /\ \A t \in Callers : pc[t] \in {"failed", "clear"} => core = "Disconnected"
    /\ ~draining /\ ~dropped /\ active = None /\ (\A t \in Callers : ~Busy(t))
          => core = "Disconnected"

\* After a drain has returned.
Drained ==
    (\E t \in Callers : pc[t] = "drained") =>
        /\ active = None /\ \A t \in Callers : ~Busy(t)
        /\ \A k \in Conns : Down(k)

\* What the two safety statements rest on: neither is inductive by itself.
LaneInv ==
    /\ TypeOK /\ OwnerTracksLane /\ Windows /\ Labels
    /\ Newest /\ Slots /\ Attended /\ LiveIsHeld /\ Settled
    /\ Shown /\ Drained

\* A lane that is empty while nobody is inside a window has nothing up.
LEMMA EmptyLaneIsDown ==
    ASSUME LaneInv, ~dropped, active = None, \A t \in Callers : ~Busy(t)
    PROVE \A k \in Conns : Down(k)
  <1>1. \A k \in Conns : ~Running(k)
    BY DEF LaneInv, Attended, Tears, Busy, Inside, None, Conns
  <1>2. \A k \in Conns : engine[k] # "live"
    BY <1>1 DEF LaneInv, LiveIsHeld, Slots, Running, Busy, Inside, Teardown
  <1>3. QED  BY <1>1, <1>2 DEF Down, Running

\* Nobody is inside a window when no flag is up.
LEMMA NoFlagNobodyInside ==
    ASSUME LaneInv, ~reconnecting, ~disconnecting, ~drain_in_progress
    PROVE \A t \in Callers : ~Busy(t)
  BY DEF LaneInv, Windows

\* connect takes the lane over only when no flag is up, so nobody else is inside.
LEMMA ConnectKeeps ==
    ASSUME LaneInv, NEW t \in Callers, NEW u \in Uids, Connect(t, u)
    PROVE LaneInv'
  <1> USE LaneAssumption DEF LaneInv, TypeOK, None, Conns, Connect, Enter, Goto, At,
            gate_owner, connect_refusal, lane, conns, pumps, callers
  <1>1. TypeOK'  BY DEF VpnStates, EngineConnectionStates
  <1>2. OwnerTracksLane'  BY DEF OwnerTracksLane
  <1>3. Windows'  BY DEF Windows, Labels, Busy, Inside, Teardown
  <1>4. Labels'  BY DEF Windows, Labels, Newest, Slots, Running, Busy, Inside, Teardown
  <1>5. Newest'  BY DEF Newest, Running
  <1>6. Slots'
    BY DEF Windows, Labels, Newest, Slots, Settled, Running, Down, Busy, Inside,
       Teardown
  <1>7. Attended'
    BY DEF Windows, Labels, Attended, Slots, Tears, Running, Busy, Inside, Teardown
  <1>8. LiveIsHeld'  BY DEF LiveIsHeld, Teardown
  <1>9. Settled'
    <2>1. \A s \in Callers : ~Busy(s)
      BY NoFlagNobodyInside, <1>3 DEF Windows, Labels
    <2>2. active = None => \A j \in Conns : Down(j)
      BY <2>1, EmptyLaneIsDown
    <2>3. QED  BY <2>1, <2>2 DEF Settled, Down, Running, Busy, Inside, Teardown
  <1>10. Shown'  BY DEF Shown, Busy, Inside, Teardown
  <1>11. Drained'
    BY DEF Windows, Labels, Slots, Drained, Running, Down, Busy, Inside, Teardown
  <1>12. QED  BY <1>1, <1>2, <1>3, <1>4, <1>5, <1>6, <1>7, <1>8, <1>9, <1>10, <1>11

\* disconnect arms its window only when it took a connection.
LEMMA DisconnectKeeps ==
    ASSUME LaneInv, NEW t \in Callers, NEW u \in Uids, Disconnect(t, u)
    PROVE LaneInv'
  <1> USE LaneAssumption DEF LaneInv, TypeOK, None, Conns, Disconnect, Enter, Goto,
            At, gate_owner, disconnect_refusal, lane, conns, pumps, callers
  <1>1. TypeOK'  BY DEF VpnStates, EngineConnectionStates
  <1>2. OwnerTracksLane'  BY DEF OwnerTracksLane
  <1>3. Windows'
    <2>1. CASE active = None  BY <2>1 DEF Windows, Busy, Inside, Teardown
    <2>2. CASE active # None
      <3>1. disconnecting'  BY Zenon, <2>2
      <3>2. \A s \in Callers : ~Busy(s)  BY DEF Windows, Labels
      <3>3. QED  BY <2>2, <3>1, <3>2 DEF Windows, Busy, Inside, Teardown
    <2>3. QED  BY <2>1, <2>2
  <1>4. Labels'  BY DEF Windows, Labels, Newest, Slots, Running, Busy, Inside, Teardown
  <1>5. Newest'  BY DEF Newest, Running
  <1>6. Slots'
    BY DEF Windows, Labels, Newest, Slots, Settled, Running, Down, Busy, Inside,
       Teardown
  <1>7. Attended'  BY DEF Attended, Tears, Running, Teardown
  <1>8. LiveIsHeld'  BY DEF LiveIsHeld, Teardown
  <1>9. Settled'  BY DEF Settled, Running, Down, Busy, Inside, Teardown
  <1>10. Shown'  BY DEF Shown, Busy, Inside, Teardown
  <1>11. Drained'  BY DEF Drained, Down, Busy, Inside, Teardown
  <1>12. QED  BY <1>1, <1>2, <1>3, <1>4, <1>5, <1>6, <1>7, <1>8, <1>9, <1>10, <1>11

\* drain only raises its flag here.
LEMMA DrainKeeps == ASSUME LaneInv, NEW t \in Callers, Drain(t) PROVE LaneInv'
  <1> USE LaneAssumption DEF LaneInv, TypeOK, None, Conns, Drain, Enter, Goto, At,
            lane, conns, pumps, callers
  <1>1. TypeOK'  BY DEF VpnStates, EngineConnectionStates
  <1>2. OwnerTracksLane'  BY DEF OwnerTracksLane
  <1>3. Windows'  BY DEF Windows, Busy, Inside, Teardown
  <1>4. Labels'  BY DEF Labels, Teardown
  <1>5. Newest'  BY DEF Newest, Running
  <1>6. Slots'  BY DEF Slots, Running, Teardown
  <1>7. Attended'  BY Zenon DEF Attended, Tears, Running, Teardown
  <1>8. LiveIsHeld'  BY Zenon DEF LiveIsHeld, Teardown
  <1>9. Settled'  BY DEF Settled, Running, Down, Busy, Inside, Teardown
  <1>10. Shown'  BY DEF Shown, Busy, Inside, Teardown
  <1>11. Drained'  BY DEF Drained, Down, Busy, Inside, Teardown
  <1>12. QED  BY <1>1, <1>2, <1>3, <1>4, <1>5, <1>6, <1>7, <1>8, <1>9, <1>10, <1>11

\* The pass that takes the lane finds no window, and an empty lane is down.
LEMMA DrainTakesKeeps == ASSUME LaneInv, NEW t \in Callers, DrainTakes(t) PROVE LaneInv'
  <1> USE LaneAssumption DEF LaneInv, TypeOK, None, Conns, DrainTakes, Goto, At,
            drain_waits, lane, conns, pumps, callers
  <1>1. TypeOK'  BY DEF VpnStates, EngineConnectionStates
  <1>2. OwnerTracksLane'  BY DEF OwnerTracksLane
  <1>3. Windows'
    <2>1. CASE active = None  BY <2>1 DEF Windows, Busy, Inside, Teardown
    <2>2. CASE active # None
      <3>1. drain_in_progress'  BY Zenon, <2>2
      <3>2. \A s \in Callers : ~Busy(s)  BY NoFlagNobodyInside
      <3>3. QED  BY <2>2, <3>1, <3>2 DEF Windows, Labels, Slots, Busy, Inside, Teardown
    <2>3. QED  BY <2>1, <2>2
  <1>4. Labels'  BY DEF Windows, Labels, Newest, Slots, Running, Busy, Inside, Teardown
  <1>5. Newest'  BY DEF Newest, Running
  <1>6. Slots'
    BY DEF Windows, Labels, Newest, Slots, Settled, Running, Down, Busy, Inside,
       Teardown
  <1>7. Attended'  BY DEF Attended, Tears, Running, Teardown
  <1>8. LiveIsHeld'  BY Zenon DEF LiveIsHeld, Teardown
  <1>9. Settled'  BY DEF Settled, Running, Down, Busy, Inside, Teardown
  <1>10. Shown'  BY DEF Shown, Busy, Inside, Teardown
  <1>11. Drained'
    <2>1. \A s \in Callers : ~Busy(s)  BY NoFlagNobodyInside
    <2>2. CASE active = None
      <3>1. \A k \in Conns : Down(k)  BY <2>1, <2>2, EmptyLaneIsDown DEF Labels
      <3>2. QED  BY <2>1, <2>2, <3>1 DEF Drained, Down, Busy, Inside, Teardown
    <2>3. CASE active # None  BY <2>1, <2>3 DEF Drained, Busy, Inside, Teardown
    <2>4. QED  BY <2>2, <2>3
  <1>12. QED  BY <1>1, <1>2, <1>3, <1>4, <1>5, <1>6, <1>7, <1>8, <1>9, <1>10, <1>11

\* The handle goes from the slot to the teardown that will stop the tunnel.
LEMMA RetireKeeps == ASSUME LaneInv, NEW t \in Callers, Retire(t) PROVE LaneInv'
  <1> USE LaneAssumption DEF LaneInv, TypeOK, None, Conns, Retire, Goto, At, lane,
            conns, pumps, callers
  <1>1. TypeOK'  BY DEF Windows, Labels, Busy, Inside, Teardown
  <1>2. OwnerTracksLane'  BY DEF OwnerTracksLane
  <1>3. Windows'  BY DEF Windows, Busy, Inside, Teardown
  <1>4. Labels'  BY DEF Labels, Teardown
  <1>5. Newest'  BY DEF Newest, Running
  <1>6. Slots'  BY DEF Slots, Labels, Windows, Running, Busy, Inside, Teardown
  <1>7. Attended'  BY DEF Attended, Tears, Running, Teardown
  <1>8. LiveIsHeld'
    <2>1. CASE op[t] = "drain"
      BY <2>1 DEF LiveIsHeld, Windows, Labels, Newest, Busy, Inside, Teardown
    <2>2. CASE op[t] # "drain"
      BY SMTT(30), <2>2 DEF LiveIsHeld, Windows, Labels, Newest, Busy, Inside, Teardown
    <2>3. QED  BY <2>1, <2>2
  <1>9. Settled'  BY DEF Settled, Running, Down, Busy, Inside, Teardown
  <1>10. Shown'  BY DEF Shown, Busy, Inside, Teardown
  <1>11. Drained'  BY DEF Drained, Down, Busy, Inside, Teardown
  <1>12. QED  BY <1>1, <1>2, <1>3, <1>4, <1>5, <1>6, <1>7, <1>8, <1>9, <1>10, <1>11

\* From retire to stop the teardown keeps what it took from the slot.
LEMMA TransitionHolds ==
    ASSUME TypeOK, LiveIsHeld, NEW t \in Callers, PublishTransition(t)
    PROVE LiveIsHeld'
  <1>1. /\ pc[t] = "transition" /\ pc' = [pc EXCEPT ![t] = "stop"]
        /\ UNCHANGED <<engine, slot, pump, job, retired>>
    BY Zenon DEF PublishTransition, At, Goto, conns, pumps
  <1>2. pc \in [Callers -> {pc[s] : s \in Callers}]  BY DEF TypeOK
  <1>3. \A s \in Callers : /\ pc[s] = "install" => pc'[s] = "install"
                           /\ pc[s] \in {"transition", "stop"} => pc'[s] \in {"transition", "stop"}
    BY <1>1, <1>2
  <1>4. ASSUME NEW k \in Conns, engine[k] = "live"
        PROVE \/ \E s \in Callers : pc'[s] = "install" /\ job[s] = k
              \/ slot[k] \/ pump[k] = "closing"
              \/ \E s \in Callers : pc'[s] \in {"transition", "stop"} /\ job[s] = k /\ retired[s]
    <2>1. CASE \E s \in Callers : pc[s] = "install" /\ job[s] = k  BY <1>3, <2>1
    <2>2. CASE slot[k] \/ pump[k] = "closing"  BY <2>2
    <2>3. CASE \E s \in Callers : pc[s] \in {"transition", "stop"} /\ job[s] = k /\ retired[s]
      BY <1>3, <2>3
    <2>4. QED  BY Zenon, <1>4, <2>1, <2>2, <2>3 DEF LiveIsHeld
  <1>5. engine' = engine /\ slot' = slot /\ pump' = pump /\ job' = job /\ retired' = retired
    BY Zenon, <1>1
  <1>6. QED  BY <1>4, <1>5 DEF LiveIsHeld

\* The transition is published from inside the window.
LEMMA PublishTransitionKeeps ==
    ASSUME LaneInv, NEW t \in Callers, PublishTransition(t)
    PROVE LaneInv'
  <1> USE LaneAssumption DEF LaneInv, TypeOK, None, Conns, PublishTransition, Goto,
            At, lane, conns, pumps, callers
  <1>1. TypeOK'  BY DEF VpnStates, EngineConnectionStates
  <1>2. OwnerTracksLane'  BY DEF OwnerTracksLane
  <1>3. Windows'  BY DEF Windows, Busy, Inside, Teardown
  <1>4. Labels'  BY DEF Labels, Teardown
  <1>5. Newest'  BY DEF Newest, Running
  <1>6. Slots'  BY DEF Slots, Running, Teardown
  <1>7. Attended'  BY DEF Attended, Tears, Running, Teardown
  <1>8. LiveIsHeld'  BY Zenon, TransitionHolds
  <1>9. Settled'  BY DEF Settled, Running, Down, Busy, Inside, Teardown
  <1>10. Shown'  BY DEF Windows, Labels, Slots, Shown, Running, Busy, Inside, Teardown
  <1>11. Drained'  BY DEF Drained, Down, Busy, Inside, Teardown
  <1>12. QED  BY <1>1, <1>2, <1>3, <1>4, <1>5, <1>6, <1>7, <1>8, <1>9, <1>10, <1>11

\* The tunnel of the teardown is no longer up, whoever had the handle.
LEMMA StopEngineKeeps == ASSUME LaneInv, NEW t \in Callers, StopEngine(t) PROVE LaneInv'
  <1> USE LaneAssumption DEF LaneInv, TypeOK, None, Conns, StopEngine, Goto, At, lane,
            conns, pumps, callers
  <1>1. TypeOK'  BY Zenon DEF VpnStates, EngineConnectionStates
  <1>2. OwnerTracksLane'  BY DEF OwnerTracksLane
  <1>3. Windows'  BY DEF Windows, Busy, Inside, Teardown
  <1>4. Labels'  BY DEF Labels, Teardown
  <1>5. Newest'
    BY DEF Windows, Labels, Newest, Settled, Running, Down, Busy, Inside, Teardown
  <1>6. Slots'  BY DEF Slots, Running, Teardown
  <1>7. Attended'  BY DEF Attended, Tears, Running, Teardown
  <1>8. LiveIsHeld'
    BY DEF Windows, Labels, Newest, Slots, Settled, LiveIsHeld, Running, Down, Busy,
       Inside, Teardown
  <1>9. Settled'  BY DEF Settled, Running, Down, Busy, Inside, Teardown
  <1>10. Shown'  BY DEF Shown, Busy, Inside, Teardown
  <1>11. Drained'  BY DEF Drained, Down, Busy, Inside, Teardown
  <1>12. QED  BY <1>1, <1>2, <1>3, <1>4, <1>5, <1>6, <1>7, <1>8, <1>9, <1>10, <1>11

\* Past the join nothing is up: the one pump that ran has exited.
LEMMA JoinPumpKeeps == ASSUME LaneInv, NEW t \in Callers, JoinPump(t) PROVE LaneInv'
  <1> USE LaneAssumption DEF LaneInv, TypeOK, None, Conns, JoinPump, Goto, At, lane,
            conns, pumps, callers
  <1>1. TypeOK'  BY DEF Windows, Labels, Busy, Inside, Teardown
  <1>2. OwnerTracksLane'  BY DEF OwnerTracksLane
  <1>3. Windows'  BY DEF Windows, Busy, Inside, Teardown
  <1>4. Labels'  BY DEF Windows, Labels, Busy, Inside, Teardown
  <1>5. Newest'  BY DEF Newest, Running
  <1>6. Slots'  BY DEF Slots, Running, Teardown
  <1>7. Attended'  BY DEF Attended, Tears, Running, Teardown
  <1>8. LiveIsHeld'  BY DEF LiveIsHeld, Teardown
  <1>9. Settled'
    <2>1. \A k \in Conns : ~Running(k)
      BY DEF Newest, Labels, Running, Teardown
    <2>2. \A k \in Conns : engine[k] # "live"
      <3>1. \A s \in Callers : pc[s] \notin {"install", "transition", "stop"}
        BY DEF Windows, Busy, Inside, Teardown
      <3>2. QED  BY Zenon, <2>1, <3>1 DEF LiveIsHeld, Slots, Running
    <2>3. QED  BY <2>1, <2>2 DEF Settled, Windows, Down, Running, Busy, Inside, Teardown
  <1>10. Shown'  BY DEF Windows, Labels, Slots, Shown, Running, Busy, Inside, Teardown
  <1>11. Drained'
    BY DEF Windows, Labels, Slots, Drained, Running, Down, Busy, Inside, Teardown
  <1>12. QED  BY Zenon, <1>1, <1>2, <1>3, <1>4, <1>5, <1>6, <1>7, <1>8, <1>9, <1>10, <1>11

\* The terminal state is published before the window closes.
LEMMA PublishTerminalKeeps ==
    ASSUME LaneInv, NEW t \in Callers, PublishTerminal(t)
    PROVE LaneInv'
  <1> USE LaneAssumption DEF LaneInv, TypeOK, None, Conns, PublishTerminal, Goto, At,
            lane, conns, pumps, callers
  <1>1. TypeOK'  BY DEF VpnStates, EngineConnectionStates
  <1>2. OwnerTracksLane'  BY DEF OwnerTracksLane
  <1>3. Windows'  BY DEF Windows, Busy, Inside, Teardown
  <1>4. Labels'  BY DEF Labels, Teardown
  <1>5. Newest'  BY DEF Newest, Running
  <1>6. Slots'  BY DEF Slots, Running, Teardown
  <1>7. Attended'  BY Zenon DEF Attended, Tears, Running, Teardown
  <1>8. LiveIsHeld'  BY DEF LiveIsHeld, Teardown
  <1>9. Settled'  BY DEF Settled, Running, Down, Busy, Inside, Teardown
  <1>10. Shown'  BY DEF Shown, Busy, Inside, Teardown
  <1>11. Drained'  BY DEF Drained, Down, Busy, Inside, Teardown
  <1>12. QED  BY <1>1, <1>2, <1>3, <1>4, <1>5, <1>6, <1>7, <1>8, <1>9, <1>10, <1>11

\* The window closes on a lane that is empty and shows so.
LEMMA ClearWindowKeeps == ASSUME LaneInv, NEW t \in Callers, ClearWindow(t) PROVE LaneInv'
  <1> USE LaneAssumption DEF LaneInv, TypeOK, None, Conns, ClearWindow, Goto, At,
            lane, conns, pumps, callers
  <1>1. TypeOK'  BY Zenon DEF VpnStates, EngineConnectionStates
  <1>2. OwnerTracksLane'  BY DEF OwnerTracksLane
  <1>3. Windows'  BY DEF Windows, Busy, Inside, Teardown
  <1>4. Labels'  BY DEF Labels, Teardown
  <1>5. Newest'  BY DEF Newest, Running
  <1>6. Slots'  BY DEF Slots, Running, Teardown
  <1>7. Attended'  BY Zenon DEF Attended, Tears, Running, Teardown
  <1>8. LiveIsHeld'  BY DEF LiveIsHeld, Teardown
  <1>9. Settled'  BY DEF Settled, Running, Down, Busy, Inside, Teardown
  <1>10. Shown'  BY DEF Shown, Busy, Inside, Teardown
  <1>11. Drained'  BY DEF Drained, Down, Busy, Inside, Teardown
  <1>12. QED  BY <1>1, <1>2, <1>3, <1>4, <1>5, <1>6, <1>7, <1>8, <1>9, <1>10, <1>11

\* The caller was inside no window any more.
LEMMA DisconnectReturnsKeeps ==
    ASSUME LaneInv, NEW t \in Callers, DisconnectReturns(t)
    PROVE LaneInv'
  <1> USE LaneAssumption DEF LaneInv, TypeOK, None, Conns, DisconnectReturns, Return,
            Goto, At, lane, conns, pumps, callers
  <1>1. TypeOK'  BY DEF VpnStates, EngineConnectionStates
  <1>2. OwnerTracksLane'  BY DEF OwnerTracksLane
  <1>3. Windows'  BY DEF Windows, Busy, Inside, Teardown
  <1>4. Labels'  BY DEF Labels, Teardown
  <1>5. Newest'  BY DEF Newest, Running
  <1>6. Slots'  BY DEF Slots, Running, Teardown
  <1>7. Attended'  BY Zenon DEF Attended, Tears, Running, Teardown
  <1>8. LiveIsHeld'  BY DEF LiveIsHeld, Teardown
  <1>9. Settled'  BY DEF Settled, Running, Down, Busy, Inside, Teardown
  <1>10. Shown'  BY DEF Shown, Busy, Inside, Teardown
  <1>11. Drained'  BY DEF Drained, Down, Busy, Inside, Teardown
  <1>12. QED  BY <1>1, <1>2, <1>3, <1>4, <1>5, <1>6, <1>7, <1>8, <1>9, <1>10, <1>11

\* The first drain to end leaves everything down for the others.
LEMMA DrainReleasesKeeps ==
    ASSUME LaneInv, NEW t \in Callers, DrainReleases(t)
    PROVE LaneInv'
  <1> USE LaneAssumption DEF LaneInv, TypeOK, None, Conns, DrainReleases, Goto, At,
            lane, conns, pumps, callers
  <1>1. TypeOK'  BY Zenon DEF VpnStates, EngineConnectionStates
  <1>2. OwnerTracksLane'  BY DEF OwnerTracksLane
  <1>3. Windows'  BY DEF Windows, Busy, Inside, Teardown
  <1>4. Labels'  BY DEF Labels, Teardown
  <1>5. Newest'  BY DEF Newest, Running
  <1>6. Slots'  BY DEF Slots, Running, Teardown
  <1>7. Attended'  BY Zenon DEF Attended, Tears, Running, Teardown
  <1>8. LiveIsHeld'  BY DEF LiveIsHeld, Teardown
  <1>9. Settled'  BY DEF Settled, Running, Down, Busy, Inside, Teardown
  <1>10. Shown'  BY DEF Windows, Labels, Slots, Shown, Running, Busy, Inside, Teardown
  <1>11. Drained'
    BY DEF Windows, Labels, Newest, Slots, Attended, Settled, LiveIsHeld, Tears,
       Running, Down, Drained, Busy, Inside, Teardown
  <1>12. QED  BY <1>1, <1>2, <1>3, <1>4, <1>5, <1>6, <1>7, <1>8, <1>9, <1>10, <1>11

\* A connect that met a drain gives its window back.
LEMMA RecheckRefusesKeeps ==
    ASSUME LaneInv, NEW t \in Callers, RecheckRefuses(t)
    PROVE LaneInv'
  <1> USE LaneAssumption DEF LaneInv, TypeOK, None, Conns, RecheckRefuses, Return,
            Goto, At, lane, conns, pumps, callers
  <1>1. TypeOK'  BY Zenon DEF VpnStates, EngineConnectionStates
  <1>2. OwnerTracksLane'  BY DEF OwnerTracksLane
  <1>3. Windows'  BY DEF Windows, Busy, Inside, Teardown
  <1>4. Labels'  BY DEF Labels, Teardown
  <1>5. Newest'  BY DEF Newest, Running
  <1>6. Slots'  BY DEF Slots, Running, Teardown
  <1>7. Attended'  BY Zenon DEF Attended, Tears, Running, Teardown
  <1>8. LiveIsHeld'  BY DEF LiveIsHeld, Teardown
  <1>9. Settled'  BY DEF Settled, Running, Down, Busy, Inside, Teardown
  <1>10. Shown'  BY DEF Shown, Busy, Inside, Teardown
  <1>11. Drained'  BY DEF Drained, Down, Busy, Inside, Teardown
  <1>12. QED  BY <1>1, <1>2, <1>3, <1>4, <1>5, <1>6, <1>7, <1>8, <1>9, <1>10, <1>11

\* The recheck changes the owner slot, which was empty.
LEMMA RecheckPassesKeeps ==
    ASSUME LaneInv, NEW t \in Callers, RecheckPasses(t)
    PROVE LaneInv'
  <1> USE LaneAssumption DEF LaneInv, TypeOK, None, Conns, RecheckPasses, Goto, At,
            lane, conns, pumps, callers
  <1>1. TypeOK'  BY DEF VpnStates, EngineConnectionStates
  <1>2. OwnerTracksLane'  BY DEF OwnerTracksLane, Windows, Labels, Busy, Inside, Teardown
  <1>3. Windows'  BY DEF Windows, Busy, Inside, Teardown
  <1>4. Labels'  BY DEF Labels, Teardown
  <1>5. Newest'  BY DEF Newest, Running
  <1>6. Slots'  BY DEF Slots, Running, Teardown
  <1>7. Attended'  BY Zenon DEF Attended, Tears, Running, Teardown
  <1>8. LiveIsHeld'  BY Zenon DEF LiveIsHeld, Teardown
  <1>9. Settled'  BY DEF Settled, Running, Down, Busy, Inside, Teardown
  <1>10. Shown'  BY DEF Shown, Busy, Inside, Teardown
  <1>11. Drained'  BY DEF Drained, Down, Busy, Inside, Teardown
  <1>12. QED  BY <1>1, <1>2, <1>3, <1>4, <1>5, <1>6, <1>7, <1>8, <1>9, <1>10, <1>11

\* A tunnel starts only when none is up.
LEMMA EngineConnectsKeeps ==
    ASSUME LaneInv, NEW t \in Callers, EngineConnects(t)
    PROVE LaneInv'
  <1> USE LaneAssumption DEF LaneInv, TypeOK, None, Conns, EngineConnects, Goto, At,
            lane, conns, pumps, callers
  <1>1. TypeOK'  BY DEF VpnStates, EngineConnectionStates
  <1>2. OwnerTracksLane'  BY DEF OwnerTracksLane
  <1>3. Windows'  BY DEF Windows, Busy, Inside, Teardown
  <1>4. Labels'  BY DEF Windows, Labels, Busy, Inside, Teardown
  <1>5. Newest'
    BY SMTT(30) DEF Windows, Labels, Newest, Settled, Running, Down, Busy, Inside, Teardown
  <1>6. Slots'  BY DEF Slots, Labels, Windows, Running, Busy, Inside, Teardown
  <1>7. Attended'  BY Zenon DEF Attended, Tears, Running, Teardown
  <1>8. LiveIsHeld'
    <2>1. pc'[t] = "install" /\ job'[t] = started + 1  OBVIOUS
    <2>2. \A k \in Conns : engine[k] # "live"
      BY Zenon DEF Settled, Down, Busy, Inside, Teardown
    <2>3. QED  BY <2>1, <2>2 DEF LiveIsHeld
  <1>9. Settled'
    BY DEF Windows, Labels, Newest, Settled, Running, Down, Busy, Inside, Teardown
  <1>10. Shown'  BY DEF Shown, Busy, Inside, Teardown
  <1>11. Drained'  BY DEF Drained, Down, Busy, Inside, Teardown
  <1>12. QED  BY <1>1, <1>2, <1>3, <1>4, <1>5, <1>6, <1>7, <1>8, <1>9, <1>10, <1>11

\* A failed start shows the terminal state.
LEMMA EngineRefusesKeeps ==
    ASSUME LaneInv, NEW t \in Callers, EngineRefuses(t)
    PROVE LaneInv'
  <1> USE LaneAssumption DEF LaneInv, TypeOK, None, Conns, EngineRefuses, Goto, At,
            state_after_failure, lane, conns, pumps, callers
  <1>1. TypeOK'  BY DEF VpnStates, EngineConnectionStates
  <1>2. OwnerTracksLane'  BY DEF OwnerTracksLane
  <1>3. Windows'  BY DEF Windows, Busy, Inside, Teardown
  <1>4. Labels'  BY DEF Labels, Teardown
  <1>5. Newest'  BY DEF Newest, Running
  <1>6. Slots'  BY DEF Slots, Running, Teardown
  <1>7. Attended'  BY Zenon DEF Attended, Tears, Running, Teardown
  <1>8. LiveIsHeld'  BY DEF LiveIsHeld, Teardown
  <1>9. Settled'  BY DEF Settled, Running, Down, Busy, Inside, Teardown
  <1>10. Shown'  BY DEF Shown, Busy, Inside, Teardown
  <1>11. Drained'  BY DEF Drained, Down, Busy, Inside, Teardown
  <1>12. QED  BY <1>1, <1>2, <1>3, <1>4, <1>5, <1>6, <1>7, <1>8, <1>9, <1>10, <1>11

\* The window of a failed start closes on a lane that shows so.
LEMMA ConnectFailsKeeps ==
    ASSUME LaneInv, NEW t \in Callers, ConnectFails(t)
    PROVE LaneInv'
  <1> USE LaneAssumption DEF LaneInv, TypeOK, None, Conns, ConnectFails, Return, Goto,
            At, lane, conns, pumps, callers
  <1>1. TypeOK'  BY Zenon DEF VpnStates, EngineConnectionStates
  <1>2. OwnerTracksLane'  BY DEF OwnerTracksLane
  <1>3. Windows'  BY DEF Windows, Busy, Inside, Teardown
  <1>4. Labels'  BY DEF Labels, Teardown
  <1>5. Newest'  BY DEF Newest, Running
  <1>6. Slots'  BY DEF Slots, Running, Teardown
  <1>7. Attended'  BY Zenon DEF Attended, Tears, Running, Teardown
  <1>8. LiveIsHeld'  BY DEF LiveIsHeld, Teardown
  <1>9. Settled'  BY DEF Settled, Running, Down, Busy, Inside, Teardown
  <1>10. Shown'  BY DEF Shown, Busy, Inside, Teardown
  <1>11. Drained'  BY DEF Drained, Down, Busy, Inside, Teardown
  <1>12. QED  BY <1>1, <1>2, <1>3, <1>4, <1>5, <1>6, <1>7, <1>8, <1>9, <1>10, <1>11

\* The installed connection's pump starts in its loop: what the core shows is
\* not its claim yet.
LEMMA InstallShows ==
    ASSUME TypeOK, Labels, Shown, NEW t \in Callers, Install(t)
    PROVE Shown'
  <1>1. PICK k \in Conns : k = job[t] /\ k # None
    BY DEF TypeOK, Labels, Install, At, None, Conns
  <1>2. /\ pump' = [pump EXCEPT ![k] = "loop"] /\ active' = k
        /\ pc' = [pc EXCEPT ![t] = "idle"] /\ UNCHANGED core
    BY Zenon, <1>1 DEF Install, Return, Goto
  <1>3. pump'[k] = "loop"  BY <1>1, <1>2 DEF TypeOK
  <1>4. \A s \in Callers : pc'[s] \in {"failed", "clear"} => pc[s] \in {"failed", "clear"}
    BY <1>2 DEF TypeOK
  <1>5. QED  BY <1>1, <1>2, <1>3, <1>4 DEF Shown

\* Install ends the only window there was.
LEMMA InstallEndsWindow ==
    ASSUME TypeOK, Windows, NEW t \in Callers, Install(t)
    PROVE ~dropped /\ \A s \in Callers : ~Busy(s)'
  <1>1. pc[t] = "install" /\ pc' = [pc EXCEPT ![t] = "idle"]
    BY Zenon DEF Install, At, Return, Goto
  <1>2. Busy(t)  BY <1>1 DEF Busy, Inside
  <1>3. ~dropped  BY Zenon, <1>2 DEF Windows
  <1>4. ASSUME NEW s \in Callers PROVE ~(pc'[s] \in Inside)
    <2>1. CASE s = t
      <3>1. pc'[s] = "idle"  BY <1>1, <2>1 DEF TypeOK
      <3>2. QED  BY <3>1 DEF Inside, Teardown
    <2>2. CASE s # t
      <3>1. pc'[s] = pc[s]  BY <1>1, <2>2 DEF TypeOK
      <3>2. ~Busy(s)  BY Zenon, <1>2, <2>2 DEF Windows
      <3>3. QED  BY Zenon, <3>1, <3>2 DEF Busy
    <2>3. QED  BY Zenon, <2>1, <2>2
  <1>5. QED  BY Zenon, <1>3, <1>4 DEF Busy

\* Install fills the slot of the pump it starts.
LEMMA InstallSlots ==
    ASSUME TypeOK, Windows, Labels, Slots, NEW t \in Callers, Install(t)
    PROVE Slots'
  <1>1. PICK k \in Conns : k = job[t] /\ k # None
    BY DEF TypeOK, Labels, Install, At, None, Conns
  <1>2. /\ pump' = [pump EXCEPT ![k] = "loop"] /\ slot' = [slot EXCEPT ![k] = TRUE]
        /\ active' = k /\ UNCHANGED <<dropped, started>>
    BY Zenon, <1>1 DEF Install
  <1>3. /\ pump'[k] = "loop" /\ slot'[k]
        /\ \A j \in Conns : j # k => pump'[j] = pump[j] /\ slot'[j] = slot[j]
    BY <1>2 DEF TypeOK
  <1>4. \A j \in Conns : /\ slot'[j] => pump'[j] \in {"loop", "publish", "claim"}
                         /\ active' = j /\ pump'[j] \in {"loop", "publish", "claim"} => slot'[j]
    BY <1>2, <1>3 DEF Slots
  <1>5. ~dropped /\ \A s \in Callers : ~Busy(s)'  BY Zenon, InstallEndsWindow
  <1>6. active' # None => Running(active)' /\ ~dropped'  BY <1>2, <1>3, <1>5 DEF Running
  <1>7. \A s \in Callers : ~(pc'[s] \in Teardown)  BY Zenon, <1>5 DEF Busy, Inside
  <1>8. QED  BY Zenon, <1>4, <1>6, <1>7 DEF Slots

\* The new connection gets its owner, its slot and its pump together.
LEMMA InstallKeeps == ASSUME LaneInv, NEW t \in Callers, Install(t) PROVE LaneInv'
  <1> USE LaneAssumption DEF LaneInv, TypeOK, None, Conns, Install, Return, Goto, At,
            lane, conns, pumps, callers
  <1>1. TypeOK'  BY Zenon DEF VpnStates, EngineConnectionStates
  <1>2. OwnerTracksLane'  BY DEF OwnerTracksLane, Windows, Labels, Busy, Inside, Teardown
  <1>3. Windows'  BY DEF Windows, Busy, Inside, Teardown
  <1>4. Labels'  BY DEF Labels, Teardown
  <1>5. Newest'
    BY DEF Windows, Labels, Newest, Settled, Running, Down, Busy, Inside, Teardown
  <1>6. Slots'  BY Zenon, InstallSlots
  <1>7. Attended'
    BY DEF Windows, Labels, Attended, Slots, Tears, Running, Busy, Inside, Teardown
  <1>8. LiveIsHeld'  BY SMTT(30) DEF LiveIsHeld, Teardown
  <1>9. Settled'
    <2>1. \A s \in Callers : ~Busy(s)'  BY Zenon, InstallEndsWindow
    <2>2. QED  BY Zenon, <2>1 DEF Settled, Busy, Inside
  <1>10. Shown'  BY Zenon, InstallShows
  <1>11. Drained'  BY DEF Drained, Down, Busy, Inside, Teardown
  <1>12. QED  BY <1>1, <1>2, <1>3, <1>4, <1>5, <1>6, <1>7, <1>8, <1>9, <1>10, <1>11

\* A tunnel that dies by itself is one fewer.
LEMMA EngineDiesKeeps == ASSUME LaneInv, NEW k \in Conns, EngineDies(k) PROVE LaneInv'
  <1> USE LaneAssumption DEF LaneInv, TypeOK, None, Conns, EngineDies, lane, conns,
            pumps, callers
  <1>1. TypeOK'  BY DEF VpnStates, EngineConnectionStates
  <1>2. OwnerTracksLane'  BY DEF OwnerTracksLane
  <1>3. Windows'  BY DEF Windows, Busy, Inside, Teardown
  <1>4. Labels'  BY DEF Labels, Teardown
  <1>5. Newest'  BY DEF Newest, Running
  <1>6. Slots'  BY DEF Slots, Running, Teardown
  <1>7. Attended'  BY DEF Attended, Tears, Running, Teardown
  <1>8. LiveIsHeld'  BY ZenonT(40) DEF LiveIsHeld, Teardown
  <1>9. Settled'  BY DEF Settled, Running, Down, Busy, Inside, Teardown
  <1>10. Shown'  BY DEF Shown, Busy, Inside, Teardown
  <1>11. Drained'  BY DEF Drained, Down, Busy, Inside, Teardown
  <1>12. QED  BY <1>1, <1>2, <1>3, <1>4, <1>5, <1>6, <1>7, <1>8, <1>9, <1>10, <1>11

\* A pump that exits was told to by a teardown.
LEMMA PumpExitsKeeps == ASSUME LaneInv, NEW k \in Conns, PumpExits(k) PROVE LaneInv'
  <1> USE LaneAssumption DEF LaneInv, TypeOK, None, Conns, PumpExits, PumpGoto, lane,
            conns, pumps, callers
  <1>1. TypeOK'  BY DEF VpnStates, EngineConnectionStates
  <1>2. OwnerTracksLane'  BY DEF OwnerTracksLane
  <1>3. Windows'  BY DEF Windows, Busy, Inside, Teardown
  <1>4. Labels'  BY DEF Labels, Teardown
  <1>5. Newest'  BY DEF Newest, Running
  <1>6. Slots'  BY DEF Slots, Running, Teardown
  <1>7. Attended'  BY DEF Attended, Tears, Running, Teardown
  <1>8. LiveIsHeld'  BY DEF LiveIsHeld, Teardown
  <1>9. Settled'  BY DEF Settled, Running, Down, Busy, Inside, Teardown
  <1>10. Shown'  BY DEF Shown, Busy, Inside, Teardown
  <1>11. Drained'  BY DEF Drained, Down, Busy, Inside, Teardown
  <1>12. QED  BY <1>1, <1>2, <1>3, <1>4, <1>5, <1>6, <1>7, <1>8, <1>9, <1>10, <1>11

\* Dequeuing touches the pump alone.
LEMMA PumpDequeuesKeeps == ASSUME LaneInv, NEW k \in Conns, PumpDequeues(k) PROVE LaneInv'
  <1> USE LaneAssumption DEF LaneInv, TypeOK, None, Conns, PumpDequeues, PumpGoto,
            lane, conns, pumps, callers
  <1>1. TypeOK'  BY DEF VpnStates, EngineConnectionStates
  <1>2. OwnerTracksLane'  BY DEF OwnerTracksLane
  <1>3. Windows'  BY DEF Windows, Busy, Inside, Teardown
  <1>4. Labels'  BY DEF Labels, Teardown
  <1>5. Newest'  BY DEF Newest, Running
  <1>6. Slots'  BY DEF Slots, Running, Teardown
  <1>7. Attended'  BY DEF Attended, Tears, Running, Teardown
  <1>8. LiveIsHeld'  BY DEF LiveIsHeld, Teardown
  <1>9. Settled'  BY DEF Settled, Running, Down, Busy, Inside, Teardown
  <1>10. Shown'  BY DEF Shown, Busy, Inside, Teardown
  <1>11. Drained'  BY DEF Drained, Down, Busy, Inside, Teardown
  <1>12. QED  BY Zenon, <1>1, <1>2, <1>3, <1>4, <1>5, <1>6, <1>7, <1>8, <1>9, <1>10, <1>11

\* A pump publishes a live state only for the installed connection.
LEMMA PumpPublishesKeeps ==
    ASSUME LaneInv, NEW k \in Conns, PumpPublishes(k)
    PROVE LaneInv'
  <1> USE LaneAssumption DEF LaneInv, TypeOK, None, Conns, PumpPublishes, PumpGoto,
            published, map_vpn_state, lane, conns, pumps, callers
  <1>1. TypeOK'  BY DEF VpnStates, EngineConnectionStates
  <1>2. OwnerTracksLane'  BY DEF OwnerTracksLane
  <1>3. Windows'  BY DEF Windows, Busy, Inside, Teardown
  <1>4. Labels'  BY DEF Labels, Teardown
  <1>5. Newest'  BY DEF Newest, Running
  <1>6. Slots'  BY DEF Slots, Running, Teardown
  <1>7. Attended'  BY DEF Attended, Tears, Running, Teardown
  <1>8. LiveIsHeld'  BY ZenonT(40) DEF LiveIsHeld, Teardown
  <1>9. Settled'  BY Zenon DEF Settled, Running, Down, Busy, Inside, Teardown
  <1>10. Shown'
    <2>1. CASE slot[k]
      <3>1. pump'[k] = "loop" /\ (active = k \/ dropped \/ \E t \in Callers : Busy(t))
        BY Zenon, <2>1 DEF Attended, Running, Tears, Busy, Inside
      <3>2. \A j \in Conns : pump'[j] # "retire"
        BY Zenon, <3>1 DEF Newest, Running
      <3>3. \A t \in Callers : pc[t] \notin {"failed", "clear"}
        BY Zenon DEF Settled, Down, Busy, Inside, Teardown
      <3>4. QED  BY <3>1, <3>2, <3>3 DEF Shown, Busy
    <2>2. CASE ~slot[k]  BY <2>2 DEF Shown, Busy
    <2>3. QED  BY <2>1, <2>2
  <1>11. Drained'  BY Zenon DEF Drained, Down, Busy, Inside, Teardown
  <1>12. QED  BY Zenon, <1>1, <1>2, <1>3, <1>4, <1>5, <1>6, <1>7, <1>8, <1>9, <1>10, <1>11

\* Seeing the end touches the pump alone.
LEMMA PumpSeesEndKeeps == ASSUME LaneInv, NEW k \in Conns, PumpSeesEnd(k) PROVE LaneInv'
  <1> USE LaneAssumption DEF LaneInv, TypeOK, None, Conns, PumpSeesEnd, PumpGoto,
            lane, conns, pumps, callers
  <1>1. TypeOK'  BY DEF VpnStates, EngineConnectionStates
  <1>2. OwnerTracksLane'  BY DEF OwnerTracksLane
  <1>3. Windows'  BY DEF Windows, Busy, Inside, Teardown
  <1>4. Labels'  BY DEF Labels, Teardown
  <1>5. Newest'  BY Zenon DEF Newest, Running
  <1>6. Slots'  BY DEF Slots, Running, Teardown
  <1>7. Attended'  BY DEF Attended, Tears, Running, Teardown
  <1>8. LiveIsHeld'  BY ZenonT(40) DEF LiveIsHeld, Teardown
  <1>9. Settled'  BY Zenon DEF Settled, Running, Down, Busy, Inside, Teardown
  <1>10. Shown'  BY DEF Shown, Busy, Inside, Teardown
  <1>11. Drained'  BY Zenon DEF Drained, Down, Busy, Inside, Teardown
  <1>12. QED  BY Zenon, <1>1, <1>2, <1>3, <1>4, <1>5, <1>6, <1>7, <1>8, <1>9, <1>10, <1>11

\* A pump that closes its connection moves on without touching a slot.
LEMMA PumpMovesSlots ==
    ASSUME TypeOK, Labels, Slots, NEW k \in Conns, NEW label \in {"terminal", "retire"},
           pump[k] \in {"closing", "terminal"}, pump' = [pump EXCEPT ![k] = label],
           UNCHANGED <<active, dropped, started, slot, pc>>
    PROVE Slots'
  <1>1. pump'[k] = label /\ \A j \in Conns : j # k => pump'[j] = pump[j]  BY DEF TypeOK
  <1>2. ~slot[k]  BY DEF Slots
  <1>3. \A j \in Conns : /\ slot'[j] => pump'[j] \in {"loop", "publish", "claim"}
                         /\ active' = j /\ pump'[j] \in {"loop", "publish", "claim"} => slot'[j]
    BY <1>1, <1>2 DEF Slots
  <1>4. active' # None => Running(active)' /\ ~dropped'  BY <1>1 DEF Slots, Running, TypeOK
  <1>5. \A s \in Callers : pc[s] \in Teardown => started \in Conns
    BY DEF TypeOK, Labels, Conns, None
  <1>6. \A s \in Callers : pc'[s] \in Teardown => pump'[started'] # "none"
    BY <1>1, <1>5 DEF Slots
  <1>7. \A s \in Callers : pc'[s] \in Teardown \ {"retire"} => ~slot'[started']
    BY Zenon DEF Slots
  <1>8. QED  BY Zenon, <1>3, <1>4, <1>6, <1>7 DEF Slots

\* A pump that retires leaves the lane to whoever else is installed.
LEMMA PumpRetiresSlots ==
    ASSUME TypeOK, Labels, Slots, NEW k \in Conns, PumpRetires(k)
    PROVE Slots'
  <1>1. /\ pump[k] = "retire" /\ pump' = [pump EXCEPT ![k] = "exited"]
        /\ active' = IF active = k THEN None ELSE active
        /\ UNCHANGED <<dropped, started, slot, pc>>
    BY Zenon DEF PumpRetires, retire_lane, PumpGoto, conns, callers
  <1>2. pump'[k] = "exited" /\ \A j \in Conns : j # k => pump'[j] = pump[j]  BY <1>1 DEF TypeOK
  <1>3. \A j \in Conns : active' = j => active = j /\ j # k  BY <1>1 DEF Conns, None
  <1>4. ~slot[k]  BY <1>1 DEF Slots
  <1>5. \A j \in Conns : /\ slot'[j] => pump'[j] \in {"loop", "publish", "claim"}
                         /\ active' = j /\ pump'[j] \in {"loop", "publish", "claim"} => slot'[j]
    BY <1>1, <1>2, <1>3, <1>4 DEF Slots
  <1>6. active' # None => active' \in Conns /\ active' # k /\ active' = active
    BY <1>1 DEF TypeOK
  <1>7. active' # None => Running(active)' /\ ~dropped'  BY <1>1, <1>2, <1>6 DEF Slots, Running
  <1>8. \A s \in Callers : pc[s] \in Teardown => started \in Conns
    BY DEF TypeOK, Labels, Conns, None
  <1>9. \A s \in Callers : pc'[s] \in Teardown => pump'[started'] # "none"
    BY <1>1, <1>2, <1>8 DEF Slots
  <1>10. \A s \in Callers : pc'[s] \in Teardown \ {"retire"} => ~slot'[started']
    BY Zenon, <1>1 DEF Slots
  <1>11. QED  BY Zenon, <1>5, <1>7, <1>9, <1>10 DEF Slots

\* A handle that leaves the slot is with the pump that took it.
LEMMA PumpClaimsHolds ==
    ASSUME TypeOK, LiveIsHeld, NEW k \in Conns, PumpClaims(k)
    PROVE LiveIsHeld'
  <1>1. /\ pump[k] = "claim"
        /\ pump' = [pump EXCEPT ![k] = IF slot[k] THEN "closing" ELSE "exited"]
        /\ slot' = [slot EXCEPT ![k] = FALSE]
        /\ UNCHANGED <<engine, pc, job, retired>>
    BY Zenon DEF PumpClaims, PumpGoto, callers
  <1>2. \A j \in Conns : j # k => pump'[j] = pump[j] /\ slot'[j] = slot[j]  BY <1>1 DEF TypeOK
  <1>3. slot[k] => pump'[k] = "closing"  BY <1>1 DEF TypeOK
  <1>4. \A j \in Conns : slot[j] \/ pump[j] = "closing" => slot'[j] \/ pump'[j] = "closing"
    BY <1>1, <1>2, <1>3
  <1>5. QED  BY Zenon, <1>1, <1>4 DEF LiveIsHeld

\* The handle goes from the slot to the pump, or the pump yields.
LEMMA PumpClaimsKeeps == ASSUME LaneInv, NEW k \in Conns, PumpClaims(k) PROVE LaneInv'
  <1> USE LaneAssumption DEF LaneInv, TypeOK, None, Conns, PumpClaims, PumpGoto, lane,
            conns, pumps, callers
  <1>1. TypeOK'  BY DEF VpnStates, EngineConnectionStates
  <1>2. OwnerTracksLane'  BY DEF OwnerTracksLane
  <1>3. Windows'  BY DEF Windows, Busy, Inside, Teardown
  <1>4. Labels'  BY DEF Labels, Teardown
  <1>5. Newest'  BY DEF Newest, Running
  <1>6. Slots'  BY DEF Slots, Running, Teardown
  <1>7. Attended'  BY DEF Attended, Tears, Running, Teardown
  <1>8. LiveIsHeld'  BY Zenon, PumpClaimsHolds
  <1>9. Settled'  BY Zenon DEF Settled, Running, Down, Busy, Inside, Teardown
  <1>10. Shown'  BY DEF Shown, Busy, Inside, Teardown
  <1>11. Drained'  BY DEF Drained, Down, Busy, Inside, Teardown
  <1>12. QED  BY Zenon, <1>1, <1>2, <1>3, <1>4, <1>5, <1>6, <1>7, <1>8, <1>9, <1>10, <1>11

\* The pump that claimed the handle stops the tunnel.
LEMMA PumpStopsKeeps == ASSUME LaneInv, NEW k \in Conns, PumpStops(k) PROVE LaneInv'
  <1> USE LaneAssumption DEF LaneInv, TypeOK, None, Conns, PumpStops, PumpGoto, lane,
            conns, pumps, callers
  <1>1. TypeOK'  BY DEF VpnStates, EngineConnectionStates
  <1>2. OwnerTracksLane'  BY DEF OwnerTracksLane
  <1>3. Windows'  BY DEF Windows, Busy, Inside, Teardown
  <1>4. Labels'  BY DEF Labels, Teardown
  <1>5. Newest'  BY DEF Newest, Running
  <1>6. Slots'  BY Zenon, PumpMovesSlots
  <1>7. Attended'  BY DEF Attended, Tears, Running, Teardown
  <1>8. LiveIsHeld'  BY DEF LiveIsHeld, Teardown
  <1>9. Settled'  BY DEF Settled, Running, Down, Busy, Inside, Teardown
  <1>10. Shown'  BY DEF Shown, Busy, Inside, Teardown
  <1>11. Drained'  BY DEF Drained, Down, Busy, Inside, Teardown
  <1>12. QED  BY Zenon, <1>1, <1>2, <1>3, <1>4, <1>5, <1>6, <1>7, <1>8, <1>9, <1>10, <1>11

\* The pump shows the terminal state before it clears the lane.
LEMMA PumpTerminalKeeps == ASSUME LaneInv, NEW k \in Conns, PumpTerminal(k) PROVE LaneInv'
  <1> USE LaneAssumption DEF LaneInv, TypeOK, None, Conns, PumpTerminal, PumpGoto,
            lane, conns, pumps, callers
  <1>1. TypeOK'  BY DEF VpnStates, EngineConnectionStates
  <1>2. OwnerTracksLane'  BY DEF OwnerTracksLane
  <1>3. Windows'  BY DEF Windows, Busy, Inside, Teardown
  <1>4. Labels'  BY DEF Labels, Teardown
  <1>5. Newest'  BY Zenon DEF Newest, Running
  <1>6. Slots'  BY Zenon, PumpMovesSlots
  <1>7. Attended'  BY DEF Attended, Tears, Running, Teardown
  <1>8. LiveIsHeld'  BY DEF LiveIsHeld, Teardown
  <1>9. Settled'  BY Zenon DEF Settled, Running, Down, Busy, Inside, Teardown
  <1>10. Shown'  BY DEF Shown, Busy, Inside, Teardown
  <1>11. Drained'  BY Zenon DEF Drained, Down, Busy, Inside, Teardown
  <1>12. QED  BY Zenon, <1>1, <1>2, <1>3, <1>4, <1>5, <1>6, <1>7, <1>8, <1>9, <1>10, <1>11

\* The lane is cleared of this pump's connection only.
LEMMA PumpRetiresKeeps == ASSUME LaneInv, NEW k \in Conns, PumpRetires(k) PROVE LaneInv'
  <1> USE LaneAssumption DEF LaneInv, TypeOK, None, Conns, PumpRetires, PumpGoto,
            retire_lane, lane, conns, pumps, callers
  <1>1. TypeOK'  BY DEF VpnStates, EngineConnectionStates
  <1>2. OwnerTracksLane'  BY DEF OwnerTracksLane
  <1>3. Windows'  BY DEF Windows, Busy, Inside, Teardown
  <1>4. Labels'  BY DEF Labels, Teardown
  <1>5. Newest'  BY DEF Newest, Running
  <1>6. Slots'  BY Zenon, PumpRetiresSlots
  <1>7. Attended'  BY DEF Attended, Tears, Running, Teardown
  <1>8. LiveIsHeld'  BY ZenonT(40) DEF LiveIsHeld, Teardown
  <1>9. Settled'  BY DEF Settled, Running, Down, Busy, Inside, Teardown
  <1>10. Shown'  BY DEF Shown, Busy, Inside, Teardown
  <1>11. Drained'  BY DEF Drained, Down, Busy, Inside, Teardown
  <1>12. QED  BY Zenon, <1>1, <1>2, <1>3, <1>4, <1>5, <1>6, <1>7, <1>8, <1>9, <1>10, <1>11

\* A lane is dropped with nobody inside a window.
LEMMA DropLaneKeeps == ASSUME LaneInv, DropLane PROVE LaneInv'
  <1> USE LaneAssumption DEF LaneInv, TypeOK, None, Conns, DropLane, lane, conns,
            pumps, callers
  <1>1. TypeOK'  BY DEF VpnStates, EngineConnectionStates
  <1>2. OwnerTracksLane'  BY DEF OwnerTracksLane
  <1>3. Windows'  BY Zenon DEF Windows, Busy, Inside, Teardown
  <1>4. Labels'  BY DEF Labels, Teardown
  <1>5. Newest'  BY DEF Newest, Running
  <1>6. Slots'  BY DEF Slots, Running, Teardown
  <1>7. Attended'  BY DEF Attended, Tears, Running, Teardown
  <1>8. LiveIsHeld'  BY DEF LiveIsHeld, Teardown
  <1>9. Settled'  BY DEF Settled, Running, Down, Busy, Inside, Teardown
  <1>10. Shown'  BY DEF Shown, Busy, Inside, Teardown
  <1>11. Drained'  BY DEF Drained, Down, Busy, Inside, Teardown
  <1>12. QED  BY Zenon, <1>1, <1>2, <1>3, <1>4, <1>5, <1>6, <1>7, <1>8, <1>9, <1>10, <1>11

\* The pump of a dropped lane closes the tunnel it finds.
LEMMA PumpFindsLaneDroppedKeeps ==
    ASSUME LaneInv, NEW k \in Conns, PumpFindsLaneDropped(k)
    PROVE LaneInv'
  <1> USE LaneAssumption DEF LaneInv, TypeOK, None, Conns, PumpFindsLaneDropped,
            PumpGoto, lane, conns, pumps, callers
  <1>1. TypeOK'  BY DEF VpnStates, EngineConnectionStates
  <1>2. OwnerTracksLane'  BY DEF OwnerTracksLane
  <1>3. Windows'  BY DEF Windows, Busy, Inside, Teardown
  <1>4. Labels'  BY DEF Labels, Teardown
  <1>5. Newest'  BY DEF Newest, Running
  <1>6. Slots'  BY DEF Slots, Running, Teardown
  <1>7. Attended'  BY DEF Attended, Tears, Running, Teardown
  <1>8. LiveIsHeld'  BY DEF LiveIsHeld, Teardown
  <1>9. Settled'  BY DEF Settled, Running, Down, Busy, Inside, Teardown
  <1>10. Shown'  BY DEF Shown, Busy, Inside, Teardown
  <1>11. Drained'  BY DEF Drained, Down, Busy, Inside, Teardown
  <1>12. QED  BY Zenon, <1>1, <1>2, <1>3, <1>4, <1>5, <1>6, <1>7, <1>8, <1>9, <1>10, <1>11

-----------------------------------------------------------------------------
\* The lane starts empty, with nobody inside.
LEMMA LaneInit == Init => LaneInv
  <1> SUFFICES ASSUME Init PROVE LaneInv  OBVIOUS
  <1> USE DEF Init, None
  <1>1. TypeOK
    <2>1. started \in 0..MaxConns  BY LaneAssumption
    <2>2. QED  BY Zenon, <2>1 DEF TypeOK, VpnStates, EngineConnectionStates
  <1>2. OwnerTracksLane /\ Windows /\ Labels
    BY DEF OwnerTracksLane, Windows, Labels, Busy, Inside, Teardown
  <1>3. Newest /\ Slots /\ Attended /\ LiveIsHeld /\ Settled
    BY DEF Newest, Slots, Attended, LiveIsHeld, Settled, Running, Busy, Inside,
       Teardown, Conns
  <1>4. Shown /\ Drained  BY DEF Shown, Drained
  <1>5. QED  BY <1>1, <1>2, <1>3, <1>4 DEF LaneInv

\* Every step of a caller, a pump, an engine and the lane's end preserves it.
LEMMA LaneStep == LaneInv /\ [Next]_vars => LaneInv'
  <1> SUFFICES ASSUME LaneInv, [Next]_vars PROVE LaneInv'  OBVIOUS
  <1>1. ASSUME NEW t \in Callers, NEW u \in Uids, Connect(t, u) \/ Disconnect(t, u)
        PROVE LaneInv'
    BY <1>1, ConnectKeeps, DisconnectKeeps
  <1>2. ASSUME NEW t \in Callers, Drain(t) PROVE LaneInv'
    BY <1>2, DrainKeeps
  <1>3. ASSUME NEW t \in Callers, CallStep(t) PROVE LaneInv'
    BY <1>3, DrainTakesKeeps, RetireKeeps, PublishTransitionKeeps, StopEngineKeeps,
       JoinPumpKeeps, PublishTerminalKeeps, ClearWindowKeeps, DisconnectReturnsKeeps,
       DrainReleasesKeeps, RecheckRefusesKeeps, RecheckPassesKeeps, EngineConnectsKeeps,
       EngineRefusesKeeps, ConnectFailsKeeps, InstallKeeps
    DEF CallStep
  <1>4. ASSUME NEW k \in Conns,
               EngineDies(k) \/ PumpDequeues(k) \/ PumpSeesEnd(k) \/ PumpFindsLaneDropped(k)
        PROVE LaneInv'
    BY <1>4, EngineDiesKeeps, PumpDequeuesKeeps, PumpSeesEndKeeps,
       PumpFindsLaneDroppedKeeps
  <1>5. ASSUME NEW k \in Conns, PumpEnds(k) PROVE LaneInv'
    BY <1>5, PumpPublishesKeeps, PumpExitsKeeps, PumpClaimsKeeps, PumpStopsKeeps,
       PumpTerminalKeeps, PumpRetiresKeeps
    DEF PumpEnds
  <1>6. CASE DropLane  BY <1>6, DropLaneKeeps
  <1>7. CASE UNCHANGED vars
    <2> USE <1>7 DEF vars, lane, conns, pumps, callers, LaneInv
    <2>1. TypeOK' /\ OwnerTracksLane'  BY DEF TypeOK, OwnerTracksLane
    <2>2. Windows' /\ Labels'  BY Zenon DEF Windows, Labels, Busy
    <2>3. Newest' /\ Slots'  BY DEF Newest, Slots, Running
    <2>4. Attended'  BY Zenon DEF Attended, Tears, Running
    <2>5. LiveIsHeld'  BY Zenon DEF LiveIsHeld
    <2>6. Settled'  BY Zenon DEF Settled, Busy, Running, Down
    <2>7. Shown' /\ Drained'  BY Zenon DEF Shown, Drained, Busy, Down
    <2>8. QED  BY <2>1, <2>2, <2>3, <2>4, <2>5, <2>6, <2>7
  <1>8. QED  BY <1>1, <1>2, <1>3, <1>4, <1>5, <1>6, <1>7 DEF Next

\* The inductive invariant holds throughout (apps/daemon/src/connect.rs, every
\* hold of the lane and slot mutexes).
THEOREM LaneInvariant == Spec => []LaneInv
  BY LaneInit, LaneStep, PTL DEF Spec

\* For any number of callers, uids and connections, at most one tunnel is up, the
\* owner slot is taken exactly while a connection is installed, and an idle empty
\* lane reads Disconnected (connect, disconnect, drain and the pumps of connect.rs).
THEOREM TunnelHasOneOwner == Spec => []OneTunnelOneOwner
  <1>1. LaneInv => OneTunnelOneOwner
    BY DEF LaneInv, OneTunnelOneOwner, OneTunnel, Newest, Shown,
       IdleLaneReadsDisconnected,
       Busy, Inside, Teardown
  <1>2. QED  BY <1>1, LaneInvariant, PTL

\* Only a disconnect of an empty lane and the close of its window report Ok.
LEMMA OkSteps ==
    ASSUME LaneInv, [Next]_vars, NEW t \in Callers, pc[t] # "ok", pc'[t] = "ok"
    PROVE ClearWindow(t) \/ \E u \in Uids : Disconnect(t, u)
  <1> USE DEF LaneInv, TypeOK, Goto, At, Enter, Return
  <1>1. ASSUME NEW s \in Callers, NEW u \in Uids, Connect(s, u) PROVE FALSE
    BY <1>1 DEF Connect
  <1>2. ASSUME NEW s \in Callers, NEW u \in Uids, Disconnect(s, u) PROVE s = t
    BY <1>2 DEF Disconnect
  <1>3. ASSUME NEW s \in Callers, Drain(s) PROVE FALSE
    BY <1>3 DEF Drain
  <1>4. ASSUME NEW s \in Callers, CallStep(s) PROVE ClearWindow(t)
    <2>1. CASE DrainTakes(s) \/ DrainReleases(s)
      BY <2>1 DEF DrainTakes, DrainReleases
    <2>2. CASE Retire(s) \/ PublishTransition(s) \/ StopEngine(s)
      BY <2>2 DEF Retire, PublishTransition, StopEngine
    <2>3. CASE JoinPump(s)
      BY <2>3 DEF JoinPump, Windows, Busy, Inside, Teardown
    <2>4. CASE PublishTerminal(s) \/ DisconnectReturns(s)
      BY Zenon, <2>4 DEF PublishTerminal, DisconnectReturns
    <2>5. CASE ClearWindow(s)
      <3>1. s = t  BY <2>5 DEF ClearWindow
      <3>2. QED  BY <2>5, <3>1
    <2>6. CASE RecheckRefuses(s) \/ RecheckPasses(s)
      BY <2>6 DEF RecheckRefuses, RecheckPasses
    <2>7. CASE EngineConnects(s) \/ EngineRefuses(s) \/ ConnectFails(s) \/ Install(s)
      BY ZenonT(40), <2>7 DEF EngineConnects, EngineRefuses, ConnectFails, Install
    <2>8. QED
      BY <1>4, <2>1, <2>2, <2>3, <2>4, <2>5, <2>6, <2>7 DEF CallStep
  <1>5. ASSUME NEW k \in Conns,
               \/ EngineDies(k) \/ PumpDequeues(k) \/ PumpSeesEnd(k)
               \/ PumpEnds(k) \/ PumpFindsLaneDropped(k)
        PROVE UNCHANGED pc
    BY Zenon, <1>5 DEF EngineDies, PumpDequeues, PumpSeesEnd, PumpFindsLaneDropped, PumpEnds,
       PumpPublishes, PumpExits, PumpClaims, PumpStops, PumpTerminal, PumpRetires, callers
  <1>6. CASE DropLane \/ UNCHANGED vars
    BY Zenon, <1>6 DEF DropLane, vars, callers
  <1>7. QED  BY <1>1, <1>2, <1>3, <1>4, <1>5, <1>6 DEF Next

\* The core is told something only by a caller inside its window or by a pump
\* that runs, and a live state only by a pump whose slot is filled.
LEMMA CoreSteps ==
    ASSUME LaneInv, [Next]_vars, core' # core
    PROVE \/ /\ \E t \in Callers : Busy(t)
             /\ core' \in {"Disconnecting", "Disconnected"}
          \/ \E k \in Conns :
                /\ Running(k)
                /\ core' = "Disconnected" \/ (slot[k] /\ pump[k] = "publish")
  <1>1. ASSUME NEW t \in Callers, NEW u \in Uids,
               Connect(t, u) \/ Disconnect(t, u) \/ Drain(t)
        PROVE FALSE
    BY <1>1 DEF Connect, Disconnect, Drain
  <1>2. ASSUME NEW t \in Callers, CallStep(t)
        PROVE Busy(t) /\ core' \in {"Disconnecting", "Disconnected"}
    <2>1. CASE PublishTransition(t) \/ PublishTerminal(t) \/ EngineRefuses(t)
      BY <2>1 DEF PublishTransition, PublishTerminal, EngineRefuses, state_after_failure,
         At, Busy, Inside, Teardown
    <2>2. QED
      BY <1>2, <2>1 DEF CallStep, DrainTakes, Retire, StopEngine, JoinPump, ClearWindow,
         DisconnectReturns, DrainReleases, RecheckRefuses, RecheckPasses, EngineConnects,
         ConnectFails, Install
  <1>3. ASSUME NEW t \in Callers, Drain(t) PROVE FALSE
    BY <1>3 DEF Drain
  <1>4. ASSUME NEW k \in Conns,
               EngineDies(k) \/ PumpDequeues(k) \/ PumpSeesEnd(k) \/ PumpFindsLaneDropped(k)
        PROVE FALSE
    BY Zenon, <1>4 DEF EngineDies, PumpDequeues, PumpSeesEnd, PumpFindsLaneDropped
  <1>5. ASSUME NEW k \in Conns, PumpEnds(k)
        PROVE Running(k) /\ (core' = "Disconnected" \/ (slot[k] /\ pump[k] = "publish"))
    BY <1>5 DEF PumpEnds, PumpPublishes, published, PumpExits, PumpClaims, PumpStops,
       PumpTerminal, PumpRetires, Running
  <1>6. CASE DropLane \/ UNCHANGED vars  BY <1>6 DEF DropLane, vars
  <1>7. QED  BY Zenon, <1>1, <1>2, <1>3, <1>4, <1>5, <1>6 DEF Next

\* For any number of callers, uids and connections, what a drain or a disconnect
\* has torn down stays down, nothing is published after a drain, and Disconnecting
\* gives way to a live state only through the newest connection's own pump.
THEOREM TeardownsAreFinal == Spec => TeardownIsFinal
  <1>1. ASSUME LaneInv, LaneInv', [Next]_vars
        PROVE [/\ DrainLeavesNothing' /\ DisconnectOkMeansDown
               /\ NoEventAfterDrain /\ DisconnectingNeverReverts]_vars
    <2>1. DrainLeavesNothing'
      BY Zenon, <1>1 DEF LaneInv, Drained, DrainLeavesNothing
    <2>2. ASSUME NEW t \in Callers, pc[t] # "ok", pc'[t] = "ok", NEW k \in Conns
          PROVE engine'[k] # "live"
      <3>1. CASE \E u \in Uids : Disconnect(t, u)
        <4>1. active = None /\ ~dropped /\ UNCHANGED engine
          <5>1. /\ ~dropped /\ UNCHANGED engine
                /\ pc' = [pc EXCEPT ![t] = IF active = None THEN "ok" ELSE "retire"]
            BY Zenon, <3>1 DEF Disconnect, Enter, Goto, conns
          <5>2. pc'[t] = IF active = None THEN "ok" ELSE "retire"
            BY Zenon, <1>1, <5>1 DEF LaneInv, TypeOK
          <5>3. QED  BY <2>2, <5>1, <5>2
        <4>2. \A s \in Callers : ~Busy(s)
          BY Zenon, <1>1, <3>1 DEF Disconnect, disconnect_refusal, LaneInv, Windows, Labels
        <4>3. QED  BY Zenon, <1>1, <4>1, <4>2, EmptyLaneIsDown DEF Down
      <3>2. CASE ClearWindow(t)
        BY Zenon, <1>1, <3>2 DEF ClearWindow, At, LaneInv, Settled, Busy, Inside, Teardown,
           Down, conns
      <3>3. QED  BY <1>1, <2>2, <3>1, <3>2, OkSteps
    <2>3. NoEventAfterDrain
      BY Zenon, <1>1, CoreSteps DEF NoEventAfterDrain, LaneInv, Drained, Down, Running
    <2>4. DisconnectingNeverReverts
      BY <1>1, CoreSteps DEF DisconnectingNeverReverts, LaneInv, Newest
    <2>5. QED  BY <2>1, <2>2, <2>3, <2>4 DEF DisconnectOkMeansDown
  <1>2. QED  BY <1>1, LaneInvariant, PTL DEF Spec, TeardownIsFinal

=============================================================================

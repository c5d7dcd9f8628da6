----------------------------- MODULE NetSession -----------------------------
(***************************************************************************)
(* The network side of a connection (crates/net/src): session.rs's connect  *)
(* and disconnect sequences over the kill switch (kill_switch.rs), the      *)
(* route transaction and its rollback (route_txn.rs) and the resolver       *)
(* (dns.rs), with permanent mode (permanent.rs) and drift repair.           *)
(*                                                                         *)
(* Every netlink, netfilter or file call is a step, may fail, and other     *)
(* managers of the host act between steps. The process may stop anywhere:   *)
(* the kernel then drops the TUN and what hangs on it, and keeps rules and  *)
(* nftables. The tree has no caller of these sequences yet; the one assumed *)
(* here numbers its connects, keeps the generation and the tables of the    *)
(* last one that returned Ok, and passes them to the next call.             *)
(***************************************************************************)
EXTENDS Integers, FiniteSets, Sequences, Functions

CONSTANTS
    RtTables,        \* the lines of /etc/iproute2/rt_tables
    Squatted,        \* table ids another manager may come to use
    MaxGeneration,   \* bound: connects the caller makes
    MaxMeddling,     \* bound: steps of other managers
    MaxTrouble       \* bound: those steps and the calls that fail, together

VARIABLES
    rules,       \* the live rules of ProtonWire's shapes: the copies there are of each
    routes,      \* the live routes of ProtonWire's shapes
    nft,         \* the nftables tables named protonwire
    resolv,      \* /etc/resolv.conf: whose content, and its inode
    linked,      \* resolved has ProtonWire's servers on the link
    squat,       \* table ids other managers' rules and routes use
    mode,        \* PermanentMode: "on" or "permanent"
    kept,        \* the caller's record: generation and tables
    session,     \* the SessionState the caller holds
    pc,          \* the next step of the sequence in progress
    job,         \* the locals of that sequence
    outcome,     \* how the caller's last call ended
    generation,  \* the generation of the caller's last apply
    meddled,     \* steps other managers have taken
    errors       \* calls that have failed

-----------------------------------------------------------------------------
(* Which routing tables ProtonWire owns (tables.rs), the rules and routes   *)
(* of a full-tunnel session (route_drift.rs), and the batched operations    *)
(* that install them. A rule or a route is the record the code sends; a     *)
(* name in rt_tables is one of the three canonical names, which are the     *)
(* kinds, or "other".                                                       *)

KERNEL_RESERVED_MAX == 255
KERNEL_MAIN == 254

\* TableKind::ALL, in plan order. A kind also stands for its canonical name.
Kinds == <<"main", "bypass", "lan">>

preferred_id == [main |-> 51820, bypass |-> 51821, lan |-> 51822]

PreferredIds == {preferred_id[k] : k \in DOMAIN preferred_id}

NoRecord == [main |-> 0, bypass |-> 0, lan |-> 0]

-----------------------------------------------------------------------------
(* Surveying and planning. A survey has the names of rt_tables, the ids     *)
(* live rules and routes use, those of them whose rules lie in ProtonWire's *)
(* priority band, and the daemon's own record of an earlier run.            *)

\* A line of rt_tables that is no entry has id 0; a later entry overrides.
parse_rt_tables(lines) ==
    LET last(id) == CHOOSE i \in DOMAIN lines :
                        /\ lines[i].id = id
                        /\ \A j \in DOMAIN lines : lines[j].id = id => j <= i
    IN [id \in {line.id : line \in Range(lines)} \ {0} |-> lines[last(id)].name]

claimable_Unsurveyed(id, survey, claimed) ==
    /\ id > KERNEL_RESERVED_MAX
    /\ id \notin DOMAIN survey.named
    /\ id \notin claimed

claimable(id, survey, claimed) ==
    /\ id > KERNEL_RESERVED_MAX
    /\ id \notin DOMAIN survey.named
    /\ id \notin survey.occupied
    /\ id \notin claimed

free(id, survey, claimed) ==
    claimable(id, survey, claimed) /\ id \notin PreferredIds

\* The scan above the preferred id meets each taken or preferred id at most
\* once, so it ends one past their number at the latest.
Scanned(above, survey, claimed) ==
    LET taken == DOMAIN survey.named \cup survey.occupied \cup claimed
    IN above + 1 .. above + 1 + Cardinality(taken \cup PreferredIds)

FirstFree(above, survey, claimed) ==
    CHOOSE id \in Scanned(above, survey, claimed) :
        /\ free(id, survey, claimed)
        /\ \A lower \in above + 1 .. id - 1 : ~free(lower, survey, claimed)

\* resolve, first part: the daemon's record is evidence for its id of kind
\* unless another name, an unproven occupant or the record itself denies it.
Reclaimable(kind, survey, claimed) ==
    LET id == survey.persisted[kind] IN
    /\ survey.persisted # NoRecord
    /\ id \in DOMAIN survey.named => survey.named[id] = kind
    /\ id > KERNEL_RESERVED_MAX /\ id \notin claimed
    /\ \A other \in Range(Kinds) \ {kind} : survey.persisted[other] # id
    /\ \/ id \notin survey.occupied
       \/ id \in survey.occupied_by_us
       \/ id \in DOMAIN survey.named /\ survey.named[id] = kind

resolve(kind, survey, claimed) ==
    IF Reclaimable(kind, survey, claimed) THEN survey.persisted[kind]
    ELSE IF claimable(preferred_id[kind], survey, claimed) THEN preferred_id[kind]
    ELSE FirstFree(preferred_id[kind], survey, claimed)

plan_tables(survey) ==
    LET main == resolve("main", survey, {})
        bypass == resolve("bypass", survey, {main})
        lan == resolve("lan", survey, {main, bypass})
    IN [main |-> main, bypass |-> bypass, lan |-> lan]

ids(plan) == {plan[k] : k \in DOMAIN plan}

-----------------------------------------------------------------------------
(* Rules, routes and the operations on them.                                *)

FULL_TUNNEL_RULE_PRIORITY == 31700
BYPASS_RULE_PRIORITY == FULL_TUNNEL_RULE_PRIORITY - 1

Rule(table, priority, mark, family, action) ==
    [table |-> table, priority |-> priority, fwmark |-> mark,
     family |-> family, action |-> action]

Route(table, family) == [table |-> table, dest |-> family]

Op(verb, spec) == [verb |-> verb, spec |-> spec]

IsRule(op) == op.verb \in {"AddRule", "DelRule"}

inverse(op) ==
    LET swap == [AddRule |-> "DelRule", DelRule |-> "AddRule",
                 AddRoute |-> "DelRoute", DelRoute |-> "AddRoute"]
    IN [op EXCEPT !.verb = swap[op.verb]]

\* RouteTransaction::op refuses what is neither in a planned table, nor the
\* bypass rule into the kernel's main table, nor a rule with no table.
Admitted(op, plan) ==
    \/ op.spec.table \in ids(plan)
    \/ IsRule(op) /\ op.spec.table = KERNEL_MAIN /\ op.spec.fwmark # 0
    \/ IsRule(op) /\ op.spec.action = "Blackhole" /\ op.spec.table = 0

desired_ops(plan, mark, ipv6, armed) ==
    LET bypass(family) ==
            Op("AddRule", Rule(KERNEL_MAIN, BYPASS_RULE_PRIORITY, mark,
                               family, "ToTable"))
        tunnel(family) ==
            << Op("AddRule", Rule(plan.main, FULL_TUNNEL_RULE_PRIORITY, 0,
                                  family, "ToTable")),
               Op("AddRoute", Route(plan.main, family)) >>
        blackhole ==
            Op("AddRule", Rule(0, FULL_TUNNEL_RULE_PRIORITY + 1, 0, "V6",
                               "Blackhole"))
    IN (IF mark # 0 THEN << bypass("V4"), bypass("V6") >> ELSE <<>>)
       \o tunnel("V4")
       \o (CASE ipv6 = "Tunnelled" -> tunnel("V6")
             [] ipv6 = "Blocked" /\ ~armed -> << blackhole >>
             [] OTHER -> <<>>)

\* Iterator::filter: the operations that are in `these', in their order.
Filtered(ops, these) ==
    LET left[n \in 0 .. Len(ops)] ==
            IF n = 0 THEN <<>>
            ELSE IF ops[n] \in these THEN Append(left[n - 1], ops[n])
            ELSE left[n - 1]
    IN  left[Len(ops)]

repair_ops(desired, present) ==
    Filtered(desired, Range(desired) \ Range(present))

\* cleanup_ops: what the session added and is still there, inverted.
cleanup_ops(installed, present) ==
    LET added == Filtered(installed,
                          {op \in present : op.verb \in {"AddRule", "AddRoute"}})
    IN [i \in DOMAIN added |-> inverse(added[i])]

-----------------------------------------------------------------------------
(* The state.                                                               *)

MARK == 33

net == <<rules, routes>>
dns == <<resolv, linked>>
caller == <<mode, kept, session, generation>>
vars == <<net, nft, dns, squat, caller, pc, job, outcome, meddled, errors>>

FOREIGN == 99    \* a marker generation ProtonWire never issued

NoFile == [content |-> "none", inode |-> 0]

NoSession == [plan |-> NoRecord, ipv6 |-> "none", installed |-> <<>>,
              evidence |-> NoFile, backend |-> "none"]

NoJob == [plan |-> NoRecord, ipv6 |-> "none", dns |-> "none", todo |-> <<>>,
          applied |-> <<>>, undo |-> <<>>, stuck |-> FALSE, before |-> {},
          evidence |-> NoFile, backend |-> "none"]

Init ==
    /\ rules = <<>> /\ routes = {} /\ nft = {} /\ squat = {}
    /\ resolv = [content |-> "original", inode |-> 1] /\ linked = FALSE
    /\ mode \in {"on", "permanent"}
    /\ kept = [generation |-> 0, tables |-> NoRecord]
    /\ session = NoSession /\ outcome = "none"
    /\ pc = "idle" /\ job = NoJob
    /\ generation = 0 /\ meddled = 0 /\ errors = 0

-----------------------------------------------------------------------------
(* What the steps share.                                                    *)

Fail == errors + meddled < MaxTrouble /\ errors' = errors + 1

Fine == UNCHANGED errors

\* find_rule and find_route: the full shape of the specification matches.
Present(op) ==
    IF IsRule(op) THEN op.spec \in DOMAIN rules ELSE op.spec \in routes

More(spec) ==
    [s \in DOMAIN rules \cup {spec} |->
        IF s # spec THEN rules[s] ELSE IF s \in DOMAIN rules THEN rules[s] + 1 ELSE 1]

Less(spec, copies) ==
    IF rules[spec] > copies THEN [rules EXCEPT ![spec] = @ - copies]
    ELSE Restrict(rules, DOMAIN rules \ {spec})

Loop_Once == 1

\* DelRule's loop: at most three copies of the rule go.
Loop == 3

\* RtnetlinkExecutor::exec when every call succeeds: the host afterwards and
\* whether it changed.
Done(op) ==
    LET copies == rules[op.spec]
        host == CASE op.verb = "AddRule" /\ ~Present(op) ->
                         <<More(op.spec), routes>>
                  [] op.verb = "DelRule" /\ Present(op) ->
                         <<Less(op.spec, IF copies < Loop THEN copies ELSE Loop), routes>>
                  [] op.verb = "AddRoute" -> <<rules, routes \cup {op.spec}>>
                  [] op.verb = "DelRoute" -> <<rules, routes \ {op.spec}>>
                  [] OTHER -> <<rules, routes>>
    IN [host |-> host, changed |-> host # <<rules, routes>>]

\* exec when a call fails: only DelRule has changed anything by then, when
\* the failing call is not its first.
Failed(op) ==
    IF op.verb = "DelRule" /\ Present(op)
    THEN {<<Less(op.spec, j), routes>> :
              j \in {k \in 1 .. Loop - 1 : k <= rules[op.spec]}}
         \cup {<<rules, routes>>}
    ELSE {<<rules, routes>>}

\* decide_live over the tables named protonwire: there is one, and its
\* markers are exactly the generation the caller vouches for.
Lookalike(prior) ==
    \/ Cardinality(nft) > 1
    \/ \E table \in nft : table.markers # {prior} \/ prior = 0

Switch(gen) == [family |-> "inet", markers |-> {gen}]

Armed(gen) == Switch(gen) \in nft

survey ==
    [named |-> parse_rt_tables(RtTables),
     occupied |-> squat \cup {r.table : r \in DOMAIN rules}
                        \cup {r.table : r \in routes},
     occupied_by_us |->
         {r.table : r \in {x \in DOMAIN rules :
             x.priority \in BYPASS_RULE_PRIORITY .. FULL_TUNNEL_RULE_PRIORITY}},
     persisted |-> kept.tables]

Return(how) == pc' = "idle" /\ job' = NoJob /\ outcome' = how

Becomes(host) == rules' = host[1] /\ routes' = host[2]

Go(step) == pc' = step /\ UNCHANGED outcome

-----------------------------------------------------------------------------
(* connect: plan, arm the switch, commit the routes, then the resolver.     *)

Connect(ipv6, servers) ==
    /\ pc = "idle" /\ generation < MaxGeneration
    /\ generation' = generation + 1
    /\ pc' = "plan" /\ outcome' = "none"
    /\ job' = [NoJob EXCEPT !.ipv6 = ipv6, !.dns = servers]
    /\ UNCHANGED <<net, nft, dns, squat, mode, kept, session, meddled, errors>>

plan_with ==
    /\ pc = "plan"
    /\ \/ /\ Fine /\ Go("arm")
          /\ job' = [job EXCEPT !.plan = plan_tables(survey)]
       \/ Fail /\ Return("failed")
    /\ UNCHANGED <<net, nft, dns, squat, caller, meddled>>

\* kill_switch::apply up to its batch, which replaces the table in one go.
Arm ==
    /\ pc = "arm"
    /\ \/ /\ ~Lookalike(kept.generation) /\ Fine
          /\ nft' = {Switch(generation)}
          /\ Go("probe") /\ UNCHANGED job
       \/ /\ Lookalike(kept.generation) /\ Fine
          /\ Return("failed") /\ UNCHANGED nft
       \/ Fail /\ Return("failed") /\ UNCHANGED nft
    /\ UNCHANGED <<net, dns, squat, caller, meddled>>

\* The rest of apply: validate, then the enforcement probe. A failure leaves
\* the table installed. Then desired_ops is checked against the plan.
Probe ==
    LET desired == desired_ops(job.plan, MARK, job.ipv6, TRUE) IN
    /\ pc = "probe"
    /\ \/ /\ nft = {Switch(generation)} /\ Fine
          /\ \A i \in DOMAIN desired : Admitted(desired[i], job.plan)
          /\ Go("commit")
          /\ job' = [job EXCEPT !.todo = desired,
                                !.before = {op \in Range(desired) : Present(op)}]
       \/ /\ \/ nft # {Switch(generation)} /\ Fine
             \/ Fail
             \/ /\ \E i \in DOMAIN desired : ~Admitted(desired[i], job.plan)
                /\ Fine
          /\ Return("failed")
    /\ UNCHANGED <<net, nft, dns, squat, caller, meddled>>

\* The route commit failed and is rolled back: the switch of this attempt is
\* removed, whatever that call returns.
GiveUp ==
    /\ pc = "rollback" /\ job.undo = <<>>
    /\ \/ /\ Fine
          /\ nft' = IF Lookalike(generation) THEN nft ELSE {}
       \/ Fail /\ UNCHANGED nft
    /\ Return("failed")
    /\ UNCHANGED <<net, dns, squat, caller, meddled>>

Established(evidence, backend) ==
    /\ session' = [plan |-> job.plan, ipv6 |-> job.ipv6, installed |-> job.applied,
                   evidence |-> evidence, backend |-> backend]
    /\ kept' = [generation |-> generation, tables |-> job.plan]
    /\ Return("connected")

\* The resolver: nothing to do, systemd-resolved's two commands, or the file.
ApplyDns ==
    /\ pc = "dns"
    /\ \E backend \in {"resolved", "file"} :
          \/ /\ job.dns = "none" /\ Fine /\ UNCHANGED linked
             /\ Established(NoFile, backend)
          \/ /\ job.dns # "none" /\ backend = "resolved" /\ Fine
             /\ linked' = TRUE
             /\ Established(NoFile, backend)
          \/ /\ job.dns # "none"
             /\ \/ backend = "file" /\ Fine /\ UNCHANGED linked
                \/ backend = "resolved" /\ Fail /\ linked' \in {linked, TRUE}
             /\ job' = [job EXCEPT !.backend = backend]
             /\ Go("capture") /\ UNCHANGED <<session, kept>>
    /\ UNCHANGED <<net, nft, resolv, squat, mode, generation, meddled>>

capture_resolv_conf ==
    /\ pc = "capture"
    /\ \/ /\ resolv # NoFile /\ Fine
          /\ job' = [job EXCEPT !.evidence = resolv]
          /\ Go("replace")
       \/ resolv = NoFile /\ Fine /\ Return("failed")
       \/ Fail /\ Return("failed")
    /\ UNCHANGED <<net, nft, dns, squat, caller, meddled>>

\* A file created beside the current one takes any inode not in use.
FreshInode == (1 .. 3) \ {resolv.inode}

\* Write beside the file and rename over it.
apply_resolv_conf ==
    /\ pc = "replace"
    /\ \/ /\ Fine
          /\ \E inode \in FreshInode :
                resolv' = [content |-> "ours", inode |-> inode]
          /\ Established(job.evidence, job.backend)
       \/ Fail /\ Return("failed") /\ UNCHANGED <<resolv, session, kept>>
    /\ UNCHANGED <<net, nft, linked, squat, mode, generation, meddled>>

-----------------------------------------------------------------------------
(* RouteTransaction::apply, one operation a step, for connect ("commit"),   *)
(* disconnect ("uncommit") and drift repair ("repair").                     *)

rollbackOf == [commit |-> "rollback", uncommit |-> "unrollback", repair |-> "unrepair"]

Applying == pc \in DOMAIN rollbackOf

Exec ==
    /\ Applying /\ job.todo # <<>>
    /\ LET op == Head(job.todo) done == Done(op) IN
       \/ /\ Fine /\ Becomes(done.host)
          /\ job' = [job EXCEPT !.todo = Tail(@),
                                !.applied = IF done.changed THEN Append(@, op) ELSE @]
          /\ Go(pc)
       \/ /\ Fail /\ \E after \in Failed(op) : Becomes(after)
          /\ job' = [job EXCEPT !.todo = <<>>,
                                !.undo = [i \in DOMAIN job.applied |->
                                    inverse(job.applied[Len(job.applied) + 1 - i])]]
          /\ Go(rollbackOf[pc])
    /\ UNCHANGED <<nft, dns, squat, caller, meddled>>

Undo ==
    /\ pc \in {rollbackOf[p] : p \in DOMAIN rollbackOf} /\ job.undo # <<>>
    /\ LET op == Head(job.undo) IN
       \/ /\ Fine /\ Becomes(Done(op).host)
          /\ job' = [job EXCEPT !.undo = Tail(@)]
       \/ /\ Fail /\ \E after \in Failed(op) : Becomes(after)
          /\ job' = [job EXCEPT !.undo = Tail(@), !.stuck = TRUE]
    /\ Go(pc)
    /\ UNCHANGED <<nft, dns, squat, caller, meddled>>

Applied ==
    /\ Applying /\ job.todo = <<>>
    /\ \/ pc = "commit" /\ Go("dns") /\ UNCHANGED job
       \/ pc = "uncommit" /\ Go("disarm") /\ UNCHANGED job
       \/ pc = "repair" /\ Return("repaired")
    /\ UNCHANGED <<net, nft, dns, squat, caller, meddled, errors>>

RolledBack ==
    /\ pc \in {"unrollback", "unrepair"} /\ job.undo = <<>>
    /\ Return("failed")
    /\ UNCHANGED <<net, nft, dns, squat, caller, meddled, errors>>

-----------------------------------------------------------------------------
(* disconnect: the resolver back, the session's routes out, then the switch *)
(* unless it is permanent.                                                  *)

\* revert_resolv_conf: a file that is gone is written anew; one with another
\* inode than the captured one is refused; either way disconnect goes on.
RevertedFile ==
    IF resolv = NoFile
    THEN {[content |-> session.evidence.content, inode |-> i] : i \in FreshInode}
    ELSE IF resolv.inode # session.evidence.inode THEN {resolv}
    ELSE {[resolv EXCEPT !.content = session.evidence.content]}

Disconnect ==
    /\ pc = "idle" /\ session # NoSession
    /\ \/ /\ session.evidence # NoFile /\ Fine
          /\ resolv' \in RevertedFile /\ UNCHANGED linked
       \/ /\ session.evidence = NoFile /\ Fine
          /\ linked' = (linked /\ session.backend # "resolved")
          /\ UNCHANGED resolv
       \/ Fail /\ UNCHANGED dns
    /\ pc' = "cleanup" /\ outcome' = "none" /\ job' = NoJob
    /\ UNCHANGED <<net, nft, squat, caller, meddled>>

Cleanup ==
    /\ pc = "cleanup"
    /\ \/ /\ Fine /\ Go("uncommit")
          /\ job' = [NoJob EXCEPT !.plan = session.plan,
                                  !.todo = cleanup_ops(session.installed,
                                               {op \in Range(session.installed) : Present(op)})]
       \/ Fail /\ Return("failed")
    /\ UNCHANGED <<net, nft, dns, squat, caller, meddled>>

\* kill_switch::remove, unless the switch is to stay.
Disarm ==
    /\ pc = "disarm"
    /\ \/ /\ mode = "permanent" \/ nft = {} \/ ~Lookalike(kept.generation)
          /\ Fine
          /\ nft' = IF mode = "permanent" THEN nft ELSE {}
          /\ session' = NoSession
          /\ Return("disconnected")
       \/ /\ mode # "permanent" /\ Fine
          /\ Lookalike(kept.generation)
          /\ Return("failed") /\ UNCHANGED <<nft, session>>
       \/ /\ mode # "permanent" /\ Fail
          /\ Return("failed") /\ UNCHANGED <<nft, session>>
    /\ UNCHANGED <<net, dns, squat, mode, kept, generation, meddled>>

\* Drift: the desired state that has gone missing is put back.
Repair ==
    LET desired == desired_ops(session.plan, MARK, session.ipv6, TRUE)
        present == Filtered(desired, {op \in Range(desired) : Present(op)})
    IN
    /\ pc = "idle" /\ session # NoSession
    /\ \/ /\ Fine
          /\ repair_ops(desired, present) # <<>>
          /\ job' = [NoJob EXCEPT !.plan = session.plan,
                                  !.todo = repair_ops(desired, present)]
          /\ pc' = "repair" /\ outcome' = "none"
       \/ Fail /\ Return("failed")
    /\ UNCHANGED <<net, nft, dns, squat, caller, meddled>>

\* apply_early_firewall, at boot and with no record to vouch for a table. Its
\* probe leaves by loopback, which the rules accept (KillSwitch), so the call
\* installs the table and returns an error: there is no generation to record.
EarlyFirewall ==
    /\ pc = "idle" /\ mode = "permanent"
    /\ generation = 0 /\ ~Lookalike(0)
    /\ generation' = 1
    /\ nft' = {Switch(1)}
    /\ Return("failed")
    /\ UNCHANGED <<net, dns, squat, mode, kept, session, meddled, errors>>

\* remove_early_firewall: the explicit disable.
Disable ==
    /\ pc = "idle" /\ mode = "permanent" /\ session = NoSession
    /\ nft = {} \/ ~Lookalike(kept.generation)
    /\ nft' = {} /\ mode' = "on"
    /\ UNCHANGED <<net, dns, squat, kept, session, generation, pc, job, outcome,
                   meddled, errors>>

-----------------------------------------------------------------------------
(* The rest of the host.                                                    *)

\* The process stops: the TUN goes, its routes and its link's servers too.
Crash ==
    /\ generation > 0
    /\ routes' = {} /\ linked' = FALSE
    /\ session' = NoSession /\ Return("none")
    /\ UNCHANGED <<rules, nft, resolv, squat, mode, kept, generation, meddled, errors>>

Meddle ==
    /\ meddled < MaxMeddling /\ errors + meddled < MaxTrouble
    /\ meddled' = meddled + 1

Squat ==
    /\ Meddle
    /\ \E id \in Squatted \ squat : squat' = squat \cup {id}
    /\ UNCHANGED <<net, nft, dns, caller, pc, job, outcome, errors>>

\* A rule or a route of the session disappears, or a rule appears twice.
Drift ==
    /\ Meddle
    /\ \/ \E spec \in DOMAIN rules :
             /\ rules' \in {Less(spec, 1), More(spec)}
             /\ UNCHANGED routes
       \/ \E spec \in routes : routes' = routes \ {spec} /\ UNCHANGED rules
    /\ UNCHANGED <<nft, dns, squat, caller, pc, job, outcome, errors>>

\* Another table of the same name, with no marker or with a strange one.
Imitate ==
    /\ Meddle
    /\ \E markers \in {{}, {FOREIGN}} :
          nft' = nft \cup {[family |-> IF nft = {} THEN "inet" ELSE "ip",
                            markers |-> markers]}
    /\ UNCHANGED <<net, dns, squat, caller, pc, job, outcome, errors>>

\* Another manager replaces the resolver file, or removes it.
Resolve ==
    /\ Meddle
    /\ \/ \E inode \in FreshInode : resolv' = [content |-> "foreign", inode |-> inode]
       \/ resolv' = NoFile
    /\ UNCHANGED <<net, nft, linked, squat, caller, pc, job, outcome, errors>>

Next ==
    \/ \E ipv6 \in {"Tunnelled", "Blocked"}, servers \in {"none", "proton"} :
          Connect(ipv6, servers)
    \/ plan_with \/ Arm \/ Probe \/ Exec \/ Undo \/ Applied \/ RolledBack \/ GiveUp
    \/ ApplyDns \/ capture_resolv_conf \/ apply_resolv_conf
    \/ Disconnect \/ Cleanup \/ Disarm \/ Repair \/ EarlyFirewall \/ Disable
    \/ Crash \/ Squat \/ Drift \/ Imitate \/ Resolve

Spec == Init /\ [][Next]_vars

-----------------------------------------------------------------------------
(* The properties.                                                          *)

\* connect adds a rule or a route only behind the switch of its own attempt:
\* between the first route and the last no packet has a way around.
ArmedBeforeRouted ==
    pc = "commit" /\ (\/ DOMAIN rules' \ DOMAIN rules # {}
                      \/ routes' \ routes # {})
        => Armed(generation)

\* A connect whose route commit failed, and whose rollback met no error,
\* leaves of its desired state only what the host had before: the rollback
\* replays what the attempt changed and nothing else.
FailedCommitIsUndone ==
    pc = "rollback" /\ outcome' = "failed" /\ ~job.stuck
        => \A op \in Range(desired_ops(job.plan, MARK, job.ipv6, TRUE)) :
                  Present(op) => op \in job.before

\* A disconnect that returns Ok has removed every rule, copies included, and
\* every route its session installed, and ProtonWire's switch unless it is
\* permanent, over any number of failed attempts before it.
DisconnectOkLeavesNothing ==
    outcome' = "disconnected" /\ pc = "disarm"
        => /\ \A op \in Range(session.installed) : ~Present(op)
           /\ mode = "on" => \A gen \in 1 .. generation : ~Armed(gen)'

\* The plan never takes a table only another manager uses, nor one twice,
\* and a table with the session's own leftovers keeps its place in the plan.
PlanKeepsToOwnTables ==
    pc = "plan" /\ pc' = "arm"
        => /\ \A id \in ids(job'.plan) :
                 id \in squat => id \in {r.table : r \in DOMAIN rules}
           /\ Cardinality(ids(job'.plan)) = 3
           /\ \A r \in DOMAIN rules :
                 r.table = kept.tables.main => job'.plan.main = r.table
=============================================================================

----------------------------- MODULE Decisions -----------------------------
(***************************************************************************)
(* The daemon's pure decisions, asked one question at a time: a behaviour   *)
(* puts one question and the code answers it. What is checked of an answer  *)
(* is stated without the code's own order of tests.                         *)
(***************************************************************************)
EXTENDS SelectionPlane

CONSTANTS Catalogs, WireTargets, ModifierSets, Configs, Accounts, Locations,
          Latency, Draws, Shown

VARIABLES family, question, answer

vars == <<family, question, answer>>

Commands == INSTANCE CommandLine
Policies == INSTANCE PolicyReference
Wires == INSTANCE WireReference WITH TIME_MAX <- 6, CEILING <- 4
Permits == INSTANCE KillSwitch
    WITH WIDTH <- [v4 |-> 2, v6 |-> 3], BITS <- 2, PROBE_DESTINATION <- <<3, 0>>
Gates == INSTANCE GateReference

Pending == <<>>
Given == answer[1]

AsksSelection ==
    \/ \E catalog \in Catalogs, target \in WireTargets, mods \in ModifierSets,
          config \in Configs, account \in Accounts, location \in Locations :
         question = [kind |-> "select", catalog |-> catalog, target |-> target,
                     mods |-> mods, config |-> config, account |-> account,
                     location |-> location]
    \/ \E catalog \in Catalogs, config \in Configs, account \in Accounts,
          location \in Locations :
         question = [kind |-> "list", catalog |-> catalog, config |-> config,
                     account |-> account, location |-> location]
    \/ \E catalog \in Catalogs, config \in Configs, account \in Accounts, id \in Shown :
         question = [kind |-> "show", catalog |-> catalog, config |-> config,
                     account |-> account, location |-> "", id |-> id]

Init ==
    /\ answer = Pending
    /\ \/ family = "selection" /\ AsksSelection
       \/ family = "command" /\ Commands!Asks(question)
       \/ family = "policy" /\ Policies!Asks(question)
       \/ family = "wire" /\ Wires!Asks(question)
       \/ family = "permit" /\ Permits!Asks(question)
       \/ family = "gate" /\ Gates!Asks(question)

Asked(kind) == answer = Pending /\ family = "selection" /\ question.kind = kind

Select ==
    /\ Asked("select")
    /\ answer' = <<resolve_select(question.target, question.mods, question.config,
                                 question.catalog, question.account,
                                 question.location, Latency, Draws)>>
    /\ UNCHANGED <<family, question>>

GroupsList ==
    /\ Asked("list")
    /\ answer' = <<groups_catalog(question.config, question.catalog, question.account,
                                  question.location)>>
    /\ UNCHANGED <<family, question>>

GroupShow ==
    /\ Asked("show")
    /\ answer' = <<group_details(question.id, question.config, question.catalog,
                                 question.account, question.location)>>
    /\ UNCHANGED <<family, question>>

Answers(name, Answer(_)) ==
    /\ answer = Pending /\ family = name
    /\ answer' = <<Answer(question)>>
    /\ UNCHANGED <<family, question>>

RunCommand == Answers("command", Commands!Answer)
LoadPolicy == Answers("policy", Policies!Answer)
ReadWire == Answers("wire", Wires!Answer)
RenderPermits == Answers("permit", Permits!Answer)
PassGate == Answers("gate", Gates!Answer)

Next ==
    \/ Select \/ GroupsList \/ GroupShow
    \/ RunCommand \/ LoadPolicy \/ ReadWire \/ RenderPermits \/ PassGate

Spec == Init /\ [][Next]_vars

Answered(kind) == family = "selection" /\ question.kind = kind /\ answer # Pending

-----------------------------------------------------------------------------
(* Selection.                                                               *)

\* What the target asks of a server.
Reaches(s, t) ==
    IF is_exact(t) THEN matches_exact(t, s)
    ELSE /\ ~is_gateway(s)
         /\ IF t.kind = "SecureCore"
            THEN s.entry # s.exit /\ t.arg.exit \in {"", s.exit} /\ t.arg.entry \in {"", s.entry}
            ELSE s.entry = s.exit /\ "SecureCore" \notin s.features
         /\ t.kind = "Country" => s.exit = t.arg
         /\ t.kind = "Countries" => s.exit \in t.arg
         /\ t.kind = "City" => s.city # <<>> /\ s.city[1] = t.arg[1]

\* The server meets the request, whatever the order the filters run in.
Eligible(s, request, account) ==
    LET c == request.constraints
        up == {p \in s.physicals : p.online}
    IN /\ account.tier # Unset => s.tier <= account.tier
       /\ s.status = "online" /\ up # {}
       /\ c.required_protocol # "" => \E p \in up : c.required_protocol \in p.protocols
       /\ Reaches(s, request.target)
       /\ s.exit \notin c.excluded_countries \cup c.excluded_exit_countries
       /\ s.entry \notin c.excluded_entry_countries
       /\ s.name \notin c.excluded_servers
       /\ c.exclude_physical_country => s.exit # c.physical_country
       /\ c.required_features \subseteq s.features

\* The server has the data the policy ranks by.
Measured(s, policy) ==
    LET weighs(k) == policy.mode = "Balanced" /\ policy.weights[k] > 0
    IN /\ (policy.mode = "LowestLoad" \/ weighs("load")) => s.load # Unset
       /\ (policy.mode = "Latency" \/ weighs("latency")) => s.id \in DOMAIN Latency

\* Every server of an answer meets the request the core was asked, every
\* eligible server with the data its policy needs is in it, once, and the
\* report accounts for all the others (select, FR-22).
AnswerIsExactlyTheEligible ==
    Answered("select") /\ Given.code = "" =>
        LET wanted == {s \in ToSet(question.catalog) :
                        /\ Eligible(s, Given.request, question.account)
                        /\ Measured(s, Given.request.policy)}
        IN /\ ToSet(Given.ranked) = wanted
           /\ Len(Given.ranked) = Cardinality(wanted)
           /\ Given.report.survivors = Len(Given.ranked)
           /\ Given.report.considered
                = Given.report.survivors
                  + MapThenSumSet(LAMBDA k : Given.report.stages[k], ToSet(STAGES))

\* The server selected is the best of the ranking under the policy asked for,
\* and ties go to the lower id, so that equal requests get equal answers
\* (rank_official, rank_lowest_load, rank_lowest_latency).
WinnerIsBest ==
    Answered("select") /\ Given.code = "" =>
        LET mode == Given.request.policy.mode
            value(s) == CASE mode = "LowestLoad" -> s.load
                          [] mode = "Latency" -> Latency[s.id]
                          [] OTHER -> s.score
            best == Given.ranked[1]
        IN mode \in {"Official", "LowestLoad", "Latency"} /\ Len(Given.ranked) > 1 =>
             \A i \in 2 .. Len(Given.ranked) :
                LET other == Given.ranked[i] IN
                \/ value(best) < value(other)
                \/ value(best) = value(other)
                   /\ (mode = "Official" \/ best.id < other.id)

\* A free or unknown account gets nothing the plan gates: no named location,
\* no gateway, no random draw, and no server whose name or feature was asked
\* for as Secure Core, P2P or Tor, however the request spells it.
PlanGatesHold ==
    Answered("select") /\ Given.code = "" =>
        LET target == question.target
            account == question.account
            winner == Given.ranked[1]
        IN /\ ~Paid(account) =>
                /\ ~NamesLocation(target)
                /\ Given.request.policy.mode # "Random"
                /\ Given.request.target.kind \notin {"Country", "Countries", "SecureCore"}
                   \/ target.kind = "Group"
                /\ {"P2p", "Tor", "SecureCore"}
                    \cap (question.mods.required_features
                          \cup question.mods.optional_features) = {}
                /\ is_standard_fleet(winner)
           /\ is_gateway(winner) => account.business = "yes"

\* What an answer says of itself is what happened: the physical country it
\* reports is the one the filter ran with, the stages it lists account for
\* every server that is not ranked, a latency is reported exactly when the
\* policy weighed one, a group's default policy is the catalog's, and the
\* feature difference is what the winner lacks of the options asked for
\* (resolve, FR-23T).
ProvenanceIsTrue ==
    Answered("select") /\ Given.code = "" =>
        LET told == Given.result[1]
            c == Given.request.constraints
            winner == Given.ranked[1]
            config == question.config
        IN /\ c.exclude_physical_country =>
                /\ told.physical_country[1].country = c.physical_country
                /\ told.winner.exit_country # told.physical_country[1].country
           /\ told.hard_filters.stages = <<>> <=> Len(Given.ranked) = Len(question.catalog)
           /\ told.winner.signals.latency_ms # <<>> <=>
                (told.selector.policy = "Latency"
                 \/ (told.selector.policy = "Balanced" /\ config.weights.latency > 0))
           /\ told.group # <<>> /\ told.group[1].policy_provenance = "catalog-default" =>
                told.selector.policy \in {"Official", "Random"}
           /\ told.feature_difference
                = question.mods.optional_features \ winner.features
           /\ told.requested_features \ winner.features \subseteq told.feature_difference

\* A group that is listed or shown as available is one that selecting does
\* not refuse for the plan or for want of a server, and the other way round
\* (group_availability and resolve, over one snapshot).
AvailabilityAgrees ==
    LET served(f) == f.err = "" /\ f.survivors # <<>>
        selectable(gated) ==
            /\ gated.code = ""
            /\ served(filter_candidates(question.catalog, gated.request,
                                        AccountContext(question.account)))
        agrees(group) ==
            group.availability.available <=>
                selectable(gate(Target("Group", group.id), NoModifiers, question.config,
                                question.catalog, question.account, question.location))
    IN /\ Answered("list") => \A i \in DOMAIN Given : agrees(Given[i])
       /\ Answered("show") => (Given.code = "" => agrees(Given.group.summary))

\* The answer to a select is right: the eligible servers and no others, the
\* best first, nothing the plan gates, and a true account of the choice; and
\* what is listed as available is what a select would not refuse
\* (core/src/selection.rs, the daemon's selection service).
SelectionIsRight ==
    /\ AnswerIsExactlyTheEligible /\ WinnerIsBest /\ PlanGatesHold /\ ProvenanceIsTrue
    /\ AvailabilityAgrees

-----------------------------------------------------------------------------
(* The other families.                                                      *)

AllRight(name, Right(_, _)) == family = name /\ answer # Pending => Right(question, Given)

\* A command of the CLI exits as the daemon answered, drops none of its
\* arguments, and talks to root's daemon only (apps/cli, crates/client,
\* ipc/src/client.rs, the daemon's request handler).
CommandsAreHonest == AllRight("command", Commands!Right)

\* Configuration comes from files only root can have written, a user's
\* overlay keeps within the user's authority, and no anchor or alias reaches
\* the YAML parser (store/src/config, fs_trust.rs, yaml.rs).
PolicyIsTrusted == AllRight("policy", Policies!Right)

\* What is read at the daemon's edges is what was said there: stores and
\* credentials, entitlements, locations and catalogs, pacing, cooldowns, and
\* the peers of a connection request (store, api and protocol crates).
WireIsRead == AllRight("wire", Wires!Right)

\* The chain a kill switch renders lets out exactly what its policy permits,
\* and the uplink it is armed for is the managing service's
\* (net/src/kill_switch.rs, adapters.rs).
PermitsAreExact == AllRight("permit", Permits!Right)

\* A change or a release passes a gate exactly when it should (xtask).
GatesAreExact == AllRight("gate", Gates!Right)
=============================================================================

--------------------------- MODULE SelectionPlane ---------------------------
(***************************************************************************)
(* From a select request to the core's question: the group catalog and its  *)
(* resolver (crates/core/src/groups.rs), and the gates, merges and refusal  *)
(* codes the daemon puts around the core (apps/daemon/src/selection.rs).    *)
(*                                                                         *)
(* A request is a wire target with its modifiers. An account is the         *)
(* entitlement snapshot: composed, its plan, its tier, whether it is a      *)
(* business, and the plan-gated features it allows ("yes", "no", "none").   *)
(***************************************************************************)
EXTENDS Selection

CONSTANT CountryRegion    \* the M49 region of each country that has one

-----------------------------------------------------------------------------
(* The group catalog.                                                       *)

GroupEntry(id, origin, entitlement, target, policy, protocol, overrides) ==
    [id |-> id, origin |-> origin, entitlement |-> entitlement, target |-> target,
     ranking_policy |-> policy, protocol_override |-> protocol,
     allowed_ranking_overrides |-> overrides]

FastestGroup(excluding) == [kind |-> "Fastest", excluding |-> excluding]

ProtonGroup(name, entitlement, target, policy, protocol) ==
    GroupEntry(name, "Proton", entitlement, target, policy, protocol, {})

ProtonGroups ==
    << ProtonGroup("fastest-country", "PlanDependent", FastestGroup(FALSE),
                   "ProtonScore", ""),
       ProtonGroup("fastest-excluding-my-country", "PlanDependent",
                   FastestGroup(TRUE), "ProtonScore", ""),
       ProtonGroup("random-country", "PlanDependent", [kind |-> "Random"],
                   "RandomCountryThenServer", ""),
       ProtonGroup("streaming-us", "TargetAndFeatureDependent",
                   [kind |-> "FastestInCountry", country |-> "US"],
                   "ProtonScore", "WireguardUdp"),
       ProtonGroup("gaming", "TargetAndFeatureDependent", FastestGroup(FALSE),
                   "ProtonScore", ""),
       ProtonGroup("anti-censorship", "TargetAndFeatureDependent",
                   FastestGroup(TRUE), "ProtonScore", "Stealth"),
       ProtonGroup("max-security", "TargetAndFeatureDependent",
                   [kind |-> "SecureCore", entry |-> "fastest", exit |-> "fastest"],
                   "ProtonScore", ""),
       ProtonGroup("work-school", "TargetAndFeatureDependent", FastestGroup(FALSE),
                   "ProtonScore", "Stealth") >>

Regions == << "africa", "asia", "europe", "north-america", "south-america", "oceania" >>

RegionalGroups ==
    [i \in DOMAIN Regions |->
        GroupEntry(Regions[i], "Protonwire", "PaidLocationSelection",
                   [kind |-> "FastestInRegion", region |-> Regions[i]],
                   "ProtonScore", "", {"Balanced", "Load", "Latency"})]

all_groups == ProtonGroups \o RegionalGroups

region_countries(region) == {c \in DOMAIN CountryRegion : CountryRegion[c] = region}

\* GroupRankingPolicy::parse: the policy each word of the catalog names.
PolicyWord == [balanced |-> "Balanced", load |-> "Load", latency |-> "Latency"]

\* PhysicalCountrySources::resolve, and physical_country_over's choice.
physical_country_over(explicit, config, cached) ==
    IF explicit # "" THEN explicit ELSE IF config # "" THEN config ELSE cached

to_selection_policy(policy, weights) ==
    LET mode == [ProtonScore |-> "Official", Balanced |-> "Balanced",
                 Load |-> "LowestLoad", Latency |-> "Latency",
                 RandomCountryThenServer |-> "Random"]
    IN Policy(mode[policy], weights)

routed_side(word) == IF word = "fastest" THEN "" ELSE word

\* The refusal of a request-time ranking word, by group.
OverrideRefusal(group, by) ==
    FirstHit(<< <<by \in FORBIDDEN_RANKING_SIGNALS, "UnsupportedRankingSignal">>,
                <<by # "" /\ group.origin = "Proton", "RankingOverrideForbidden">>,
                <<by # "" /\ by \notin DOMAIN PolicyWord, "RankingOverrideNotDeclared">>,
                <<by \in DOMAIN PolicyWord
                  /\ PolicyWord[by] \notin group.allowed_ranking_overrides,
                  "RankingOverrideNotDeclared">> >>)

GroupSelection(group, policy, physical) ==
    LET target == group.target
        excluding == target.kind = "Fastest" /\ target.excluding
        constraints == [NoConstraints EXCEPT
            !.required_protocol = group.protocol_override,
            !.exclude_physical_country = excluding,
            !.physical_country = IF excluding THEN physical ELSE ""]
    IN Request(CASE target.kind \in {"Fastest", "Random"} -> Target("Fastest", "")
                 [] target.kind = "FastestInCountry" -> Target("Country", target.country)
                 [] target.kind = "FastestInRegion" ->
                        Target("Countries", region_countries(target.region))
                 [] target.kind = "SecureCore" ->
                        SecureCore(routed_side(target.entry), routed_side(target.exit)),
               policy, constraints)

resolve_group(id, by, physical, weights) ==
    LET i == SelectInSeq(all_groups, LAMBDA g : g.id = id)
        group == all_groups[i]
        refusal == OverrideRefusal(group, by)
        ranking == IF by = "" THEN group.ranking_policy ELSE PolicyWord[by]
    IN IF i = 0 THEN [err |-> "UnknownGroup"]
       ELSE IF refusal # "" THEN [err |-> refusal]
       ELSE [err |-> "", group |-> group,
             request |-> GroupSelection(group, to_selection_policy(ranking, weights),
                                        physical)]

-----------------------------------------------------------------------------
(* Accounts, and what a request may ask of them.                            *)

\* The composed snapshot, without the fields no gate reads.
VpnEntitlements(plan, tier, business, allowance) ==
    [composed |-> TRUE, plan |-> plan, tier |-> tier, business |-> business,
     allows |-> [f \in {"SecureCore", "P2p", "Tor"} |-> allowance]]

NoAccount == [VpnEntitlements("", Unset, "none", "none") EXCEPT !.composed = FALSE]

NoModifiers ==
    [by |-> "", excluded_countries |-> {}, excluded_states |-> {},
     excluded_cities |-> {}, excluded_servers |-> {},
     excluded_entry_countries |-> {}, excluded_exit_countries |-> {},
     required_features |-> {}, optional_features |-> {},
     required_protocol |-> "", physical_country |-> ""]

Paid(account) == account.plan = "Paid"

account_tier(account) ==
    IF account.tier = Unset THEN Unset ELSE Min({account.tier, 127})

pf_entitlement(account) ==
    IF ~account.composed THEN "none" ELSE IF Paid(account) THEN "yes" ELSE "no"

\* The features that naming a server exactly asks for: every server of the
\* name counts.
ExactFeatures(target, catalog) ==
    LET named == {s \in ToSet(catalog) : target.kind = "Server" /\ s.name = target.arg}
    IN {f \in {"P2p", "Tor"} : \E s \in named : f \in s.features}
       \cup {f \in {"SecureCore"} : \E s \in named :
                is_secure_core_route(s) \/ "SecureCore" \in s.features}

\* The first plan-gated capability the request names and the plan lacks.
unmet_capability(account, request, catalog) ==
    LET c == request.constraints
        named == c.required_features \cup c.optional_features
                 \cup ExactFeatures(request.target, catalog)
                 \cup (IF request.target.kind = "SecureCore" THEN {"SecureCore"} ELSE {})
        lacks(f) == f \in named /\ account.allows[f] # "yes"
    IN FirstHit(<< <<lacks("SecureCore"), "SecureCore">>, <<lacks("P2p"), "P2p">>,
                   <<lacks("Tor"), "Tor">> >>)

random_requires_backend_authority(request, account) ==
    request.policy.mode = "Random" /\ ~Paid(account)

union_configured_secure_core_exclusions(request, config) ==
    IF request.target.kind # "SecureCore" THEN request
    ELSE [request EXCEPT
            !.constraints.excluded_entry_countries = @ \cup config.excluded_entry_countries,
            !.constraints.excluded_exit_countries = @ \cup config.excluded_exit_countries]

-----------------------------------------------------------------------------
(* Resolving a request, in the order of resolve().                          *)

\* The checks at the boundary, before any gate.
BoundaryRefusal(target, mods) ==
    LET countries ==
            (CASE target.kind = "Country" -> {target.arg}
               [] target.kind = "SecureCore" -> {target.arg.entry, target.arg.exit} \ {""}
               [] OTHER -> {})
            \cup mods.excluded_countries \cup mods.excluded_entry_countries
            \cup mods.excluded_exit_countries \cup ({mods.physical_country} \ {""})
    IN \/ target.kind = "Random" /\ mods.by # ""
       \/ \E code \in countries : ~validate_country(code)
       \/ target.kind = "SecureCore" /\ target.arg.entry # ""
          /\ target.arg.entry = target.arg.exit

TargetNamesGateway(target, catalog) ==
    \/ target.kind = "Gateway"
    \/ target.kind = "Server"
       /\ \E s \in ToSet(catalog) : s.name = target.arg /\ is_gateway(s)

merge_group_modifiers(request, mods) ==
    [request EXCEPT
        !.constraints.excluded_countries = @ \cup mods.excluded_countries,
        !.constraints.excluded_states = @ \cup mods.excluded_states,
        !.constraints.excluded_cities = @ \cup mods.excluded_cities,
        !.constraints.excluded_servers = @ \cup mods.excluded_servers,
        !.constraints.excluded_entry_countries = @ \cup mods.excluded_entry_countries,
        !.constraints.excluded_exit_countries = @ \cup mods.excluded_exit_countries,
        !.constraints.required_features = @ \cup mods.required_features,
        !.constraints.optional_features = @ \cup mods.optional_features,
        !.constraints.required_protocol = IF @ = "" THEN mods.required_protocol ELSE @]

ProtocolConflict(request, mods) ==
    LET declared == request.constraints.required_protocol IN
    declared # "" /\ mods.required_protocol # "" /\ declared # mods.required_protocol

direct_request(target, mods, weights) ==
    LET parsed == parse_policy(mods.by)
        mode == IF mods.by # "" THEN parsed.policy.mode
                ELSE IF target.kind = "Random" THEN "Random" ELSE "Official"
        core == CASE target.kind \in {"Fastest", "Random", "Special"} -> Target("Fastest", "")
                  [] OTHER -> target
        special == IF target.kind = "Special" THEN {target.arg} ELSE {}
    IN Request(core, Policy(mode, weights),
               [merge_group_modifiers(Request(core, Policy(mode, weights), NoConstraints),
                                      mods).constraints
                EXCEPT !.required_features = @ \cup special])

\* The configured ranking of the regional groups stands in for a missing --by.
GroupRankingWord(target, mods, config) ==
    IF mods.by # "" THEN mods.by
    ELSE IF \E g \in ToSet(all_groups) :
                g.id = target.arg /\ g.entitlement = "PaidLocationSelection"
    THEN config.regional_default_ranking ELSE ""

Refused(code) == [code |-> code]

Accepted(request) == [code |-> "", request |-> request]

GroupRequest(target, mods, config, account, location) ==
    LET resolved == resolve_group(target.arg, GroupRankingWord(target, mods, config),
                        physical_country_over(mods.physical_country,
                                              config.physical_country, location),
                        config.weights)
    IN IF resolved.err # "" THEN Refused("InvalidParams")
       ELSE IF resolved.group.entitlement = "PaidLocationSelection" /\ ~Paid(account)
       THEN Refused("EntitlementMissing")
       ELSE IF ProtocolConflict(resolved.request, mods) THEN Refused("InvalidParams")
       ELSE Accepted(merge_group_modifiers(resolved.request, mods))

DirectRequest(target, mods, config) ==
    IF mods.by # "" /\ parse_policy(mods.by).err # "" THEN Refused("InvalidParams")
    ELSE IF target.kind = "Profile" THEN Refused("NotImplemented")
    ELSE Accepted(direct_request(target, mods, config.weights))

NamesLocation(target) == target.kind \in {"Country", "State", "City", "Server"}

\* The gates on the request that was made of the target, if one was.
PlanGates(made, target, config, catalog, account) ==
    LET request == union_configured_secure_core_exclusions(made.request, config)
    IN IF made.code # "" THEN made
       ELSE IF unmet_capability(account, request, catalog) # ""
       THEN Refused("EntitlementMissing")
       ELSE IF random_requires_backend_authority(request, account)
       THEN Refused("NotImplemented")
       ELSE IF NamesLocation(target) /\ ~Paid(account) THEN Refused("EntitlementMissing")
       ELSE Accepted(request)

\* The gates of resolve() up to the core, over the account the entitlement
\* composition gave: a refusal code, or the request the core is asked.
gate(target, mods, config, catalog, account, location) ==
    IF BoundaryRefusal(target, mods) THEN Refused("InvalidParams")
    ELSE IF catalog = <<>> THEN Refused("NoEligibleServer")
    ELSE IF TargetNamesGateway(target, catalog) /\ account.business # "yes"
    THEN Refused("EntitlementMissing")
    ELSE PlanGates(IF target.kind = "Group"
                   THEN GroupRequest(target, mods, config, account, location)
                   ELSE DirectRequest(target, mods, config),
                   target, config, catalog, account)

\* The capability source is composed with the entitlement, and is empty.
AccountContext(account) ==
    [EmptyContext EXCEPT !.account_tier = account_tier(account),
                         !.pf_entitled = pf_entitlement(account),
                         !.pf_composed = account.composed]

latency_weighted(policy) ==
    \/ policy.mode = "Latency"
    \/ policy.mode = "Balanced" /\ policy.weights.latency > 0

\* The ids to probe: the survivors of the filter in official order, capped.
probe_shortlist(catalog, request, ctx, cap) ==
    LET f == filter_candidates(catalog, request, ctx)
        score(s) == IF s.score = Unset THEN F32_MAX ELSE s.score
        ordered == Sorted(f.survivors, LAMBDA s : <<score(s), LoadOrMax(s), s.id>>)
    IN [i \in 1 .. Min({cap, Len(ordered)}) |-> ordered[i].id]

\* selection_error_to_rpc: the code of a core refusal.
selection_error_to_rpc(err) ==
    FirstHit(
      << <<err = "", "">>,
         <<err \in {"ConstraintsNotSatisfied", "ExactServerUnavailable",
                   "OfficialScoreUnavailable", "LatencyDataUnavailable"}, "NoEligibleServer">>,
         <<err = "RequiresEntitlementComposition", "EntitlementMissing">>,
         <<err = "RandomEntropyRequired", "Internal">>,
         <<TRUE, "InvalidParams">> >>)

\* The code in the light of the request: what emptied the pool last, then the
\* routed fleet, name it more precisely.
selection_error_to_rpc_explained(outcome, request) ==
    LET missing == outcome.err = "ConstraintsNotSatisfied" IN
    IF missing /\ LastEliminating(outcome.report) = "ProtocolCompatibility"
    THEN "ProtocolUnavailable"
    ELSE IF missing /\ request.target.kind = "SecureCore" THEN "SecureCoreUnavailable"
    ELSE selection_error_to_rpc(outcome.err)

\* stage_reports: the stages that eliminated anything, in evaluation order.
stage_reports(report) == SelectSeq(STAGES, LAMBDA s : report.stages[s] > 0)

\* direct_selector, or the group's: what the answer says was asked.
direct_selector(target, policy) ==
    [target |-> target.kind,
     detail |-> CASE target.kind \in {"Fastest", "Random", "Special"} -> <<>>
                  [] OTHER -> <<target.arg>>,
     policy |-> policy.mode]

\* Which source gave the country physical_country_over chose.
PhysicalCountrySource(explicit, config) ==
    IF explicit # "" THEN "explicit-request"
    ELSE IF config # "" THEN "config" ELSE "cached-location"

PhysicalCountryValue(explicit, config, cached) ==
    LET country == physical_country_over(explicit, config, cached)
    IN IF country = "" THEN <<>>
       ELSE <<[country |-> country, source |-> PhysicalCountrySource(explicit, config)]>>

HardFiltersReport(report) ==
    [considered |-> report.considered, survivors |-> report.survivors,
     stages |-> stage_reports(report)]

\* The signals that ranked the winner: only the policies that weigh latency
\* carry one, only the balanced policy a breakdown.
WinnerSignals(server, policy, ctx) ==
    LET observed == policy.mode \in {"Latency", "Balanced"} /\ server.id \in DOMAIN ctx.latency
    IN [provenance |-> FirstHit(<< <<policy.mode = "Balanced", "weighted-breakdown">>,
                                   <<observed, "probe-observed">>,
                                   <<TRUE, "catalog-only">> >>),
        proton_score |-> server.score, load |-> server.load,
        latency_ms |-> IF observed THEN <<ctx.latency[server.id]>> ELSE <<>>]

SelectedServer(server, policy, ctx) ==
    [id |-> server.id, name |-> server.name, entry_country |-> server.entry,
     exit_country |-> server.exit, city |-> server.city, tier |-> server.tier,
     signals |-> WinnerSignals(server, policy, ctx)]

\* Present on group selections only, like the group catalog's revision.
GroupProvenance(target, mods, config) ==
    IF target.kind # "Group" THEN <<>>
    ELSE <<[group_id |-> target.arg,
            origin |-> (CHOOSE g \in ToSet(all_groups) : g.id = target.arg).origin,
            policy_provenance |-> IF GroupRankingWord(target, mods, config) = ""
                                  THEN "catalog-default" ELSE "declared-override"]>>

SelectionResult(target, mods, config, location, request, ctx, outcome) ==
    LET winner == outcome.ranked[1]
        c == request.constraints
    IN [selector |-> direct_selector(target, request.policy),
        group |-> GroupProvenance(target, mods, config),
        hard_filters |-> HardFiltersReport(outcome.report),
        physical_country |->
            IF c.exclude_physical_country \/ mods.physical_country # ""
            THEN PhysicalCountryValue(mods.physical_country, config.physical_country, location)
            ELSE <<>>,
        winner |-> SelectedServer(winner, request.policy, ctx),
        requested_features |-> c.required_features \cup c.optional_features,
        feature_difference |->
            {f \in mods.optional_features : ~feature_holds(winner, f, ctx)}]

\* What the core is told of the account, with the probed latencies and the
\* drawn entropy when the policy uses them.
SelectionContext(account, policy, latency, draws) ==
    [AccountContext(account) EXCEPT
        !.latency = IF latency_weighted(policy) THEN latency ELSE <<>>,
        !.entropy = IF policy.mode = "Random" THEN draws ELSE <<>>]

\* The core's outcome as the caller gets it.
Explained(outcome, target, mods, config, location, request, ctx) ==
    LET code == selection_error_to_rpc_explained(outcome, request)
    IN [code |-> code, request |-> request, ranked |-> outcome.ranked,
        report |-> outcome.report,
        result |-> IF code # "" THEN <<>>
                   ELSE <<SelectionResult(target, mods, config, location, request, ctx,
                                          outcome)>>]

SelectIn(ctx, target, mods, config, catalog, location, request) ==
    Explained(select(catalog, request, ctx), target, mods, config, location, request, ctx)

SelectGated(gated, target, mods, config, catalog, account, location, latency, draws) ==
    IF gated.code # ""
    THEN [code |-> gated.code, request |-> <<>>, ranked |-> <<>>, report |-> NoReport,
          result |-> <<>>]
    ELSE SelectIn(SelectionContext(account, gated.request.policy, latency, draws),
                  target, mods, config, catalog, location, gated.request)

\* resolve(): the gates, then the core.
resolve_select(target, mods, config, catalog, account, location, latency, draws) ==
    SelectGated(gate(target, mods, config, catalog, account, location),
                target, mods, config, catalog, account, location, latency, draws)

FirstReason(lacking, f, request, entry, catalog, account) ==
    LET paid_only == entry.entitlement = "PaidLocationSelection"
    IN FirstHit(
        << <<catalog = <<>>, "no-catalog">>,
           <<paid_only /\ ~account.composed, "entitlement-composition-missing">>,
           <<paid_only /\ ~Paid(account), "entitlement">>,
           <<lacking # "" /\ account.allows[lacking] # "none", "entitlement">>,
           <<lacking # "", "entitlement-composition-missing">>,
           <<random_requires_backend_authority(request, account),
             "backend-selection-required">>,
           <<f.err = "PhysicalCountryRequired", "physical-country-required">>,
           <<f.err = "RequiresEntitlementComposition", "entitlement-composition-missing">>,
           <<f.err # "", "no-eligible-server">>,
           <<f.survivors # <<>>, "">>,
           <<LastEliminating(f.report) = "AccountTier", "account-tier">>,
           <<LastEliminating(f.report) = "ProtocolCompatibility", "protocol-unavailable">>,
           <<TRUE, "no-eligible-server">> >>)

AvailabilityOf(request, entry, catalog, account) ==
    FirstReason(unmet_capability(account, request, catalog),
                filter_candidates(catalog, request,
                    [EmptyContext EXCEPT !.account_tier = account_tier(account)]),
                request, entry, catalog, account)

\* group_availability: the reason a listed group is unavailable, "" if it is
\* available. No network, no ranking.
group_availability(entry, config, catalog, account, location) ==
    LET resolved == resolve_group(entry.id, "",
                        physical_country_over("", config.physical_country, location),
                        config.weights)
    IN AvailabilityOf(union_configured_secure_core_exclusions(resolved.request, config),
                      entry, catalog, account)

GroupAvailability(reason) == [available |-> reason = "", reason |-> reason]

group_summary(entry, availability) ==
    [id |-> entry.id, origin |-> entry.origin, entitlement |-> entry.entitlement,
     ranking_policy |-> entry.ranking_policy,
     allowed_ranking_overrides |-> entry.allowed_ranking_overrides,
     availability |-> availability]

group_target_render(target) ==
    [target |-> target.kind,
     detail |-> CASE target.kind = "Fastest" ->
                        IF target.excluding THEN <<"excluding-physical-country">> ELSE <<>>
                  [] target.kind = "FastestInCountry" -> <<target.country>>
                  [] target.kind = "FastestInRegion" -> <<target.region>>
                  [] target.kind = "Random" -> <<>>
                  [] target.kind = "SecureCore" -> <<target.entry, target.exit>>]

GroupDetails(entry, availability) ==
    [summary |-> group_summary(entry, availability),
     rendered |-> group_target_render(entry.target),
     protocol_override |-> entry.protocol_override]

\* groups_catalog: every group with its availability, over one snapshot.
groups_catalog(config, catalog, account, location) ==
    [i \in DOMAIN all_groups |->
        group_summary(all_groups[i],
            GroupAvailability(group_availability(all_groups[i], config, catalog,
                                                 account, location)))]

\* group_details: one group by its id, or the refusal.
group_details(id, config, catalog, account, location) ==
    LET named == SelectSeq(all_groups, LAMBDA g : g.id = id)
        entry == named[1]
    IN IF named = <<>> THEN Refused("InvalidParams")
       ELSE [code |-> "",
             group |-> GroupDetails(entry, GroupAvailability(
                 group_availability(entry, config, catalog, account, location)))]
=============================================================================

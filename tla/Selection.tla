----------------------------- MODULE Selection -----------------------------
(***************************************************************************)
(* Which server a request selects: the hard filters and the ranking         *)
(* policies of crates/core/src/selection.rs. The code is pure, and so is    *)
(* the module: a catalog, a request and a context give a ranking or a typed *)
(* refusal.                                                                 *)
(*                                                                         *)
(* A catalog is a sequence of servers, in document order. Ids are numbers   *)
(* (their order breaks ties), names and countries are strings with "" for   *)
(* an absent one, and the prose of a state or a city is <<letters, casing>>,*)
(* <<>> when absent. Scores, loads, tiers and weights are integers: -1 is   *)
(* the absent value, or for a weight the value that is not a weight         *)
(* (negative or not finite).                                                *)
(***************************************************************************)
EXTENDS Integers, FiniteSetsExt, SequencesExt

CONSTANTS CountryRank,   \* the alphabetical place of each well-formed code
          F32_MAX        \* the largest finite weighted total

Countries == DOMAIN CountryRank

Unset == -1

\* A sequence of <<condition, name>> pairs names the first that holds.
FirstHit(checks) ==
    LET i == SelectInSeq(checks, LAMBDA check : check[1])
    IN IF i = 0 THEN "" ELSE checks[i][2]

FORBIDDEN_RANKING_SIGNALS == {"speed", "estimated-speed", "estimated-throughput"}

WeightKeys == {"load", "latency", "stability", "feature_match", "history"}

Features == {"P2p", "Tor", "SecureCore", "Streaming", "Ipv6", "PortForwarding"}

Protocols == {"WireguardUdp", "WireguardTcp", "Stealth"}

\* A physical server: whether it is up, and the protocols it has a usable
\* entry for.
PhysicalServer(online, protocols) == [online |-> online, protocols |-> protocols]

\* A logical server of the catalog, without the fields no decision reads.
LogicalServer(id, name, entry, exit, city, gateway, features, tier, status, physicals, score, load) ==
    [id |-> id, name |-> name, entry |-> entry, exit |-> exit, state |-> <<>>,
     city |-> city, gateway |-> gateway, features |-> features, tier |-> tier,
     status |-> status, physicals |-> physicals, score |-> score, load |-> load]

-----------------------------------------------------------------------------
(* Requests.                                                                *)

Target(kind, arg) == [kind |-> kind, arg |-> arg]

SecureCore(entry, exit) == Target("SecureCore", [entry |-> entry, exit |-> exit])

Policy(mode, weights) == [mode |-> mode, weights |-> weights]

\* WeightedSignals::DEFAULT_ZEROED and DEFAULT, in hundredths.
DEFAULT_ZEROED == [k \in WeightKeys |-> 0]

DEFAULT_WEIGHTS == [load |-> 40, latency |-> 40, stability |-> 15,
                    feature_match |-> 5, history |-> 0]

\* RankingPolicy::parse: the policy and the refusal of a --by word.
parse_policy(word) ==
    LET modes == [official |-> "Official", balanced |-> "Balanced",
                  load |-> "LowestLoad", latency |-> "Latency"]
    IN IF word \in DOMAIN modes
       THEN [err |-> "", policy |-> Policy(modes[word], DEFAULT_WEIGHTS)]
       ELSE [err |-> IF word \in FORBIDDEN_RANKING_SIGNALS
                     THEN "UnsupportedRankingSignal" ELSE "InvalidRankingMode",
             policy |-> Policy("", DEFAULT_ZEROED)]

\* WeightedSignals::from_pairs stops at the first pair it refuses. seen is
\* the set of keys already given.
from_pairs(pairs) ==
    LET refusal(sofar, key, value) ==
            FirstHit(<< <<key \in FORBIDDEN_RANKING_SIGNALS, "UnsupportedRankingSignal">>,
                        <<value < 0 \/ key \notin WeightKeys \/ key \in sofar.seen,
                          "InvalidWeights">> >>)
        add(sofar, pair) ==
            IF sofar.err # "" THEN sofar
            ELSE IF refusal(sofar, pair[1], pair[2]) # ""
            THEN [sofar EXCEPT !.err = refusal(sofar, pair[1], pair[2])]
            ELSE [sofar EXCEPT !.weights[pair[1]] = pair[2],
                               !.seen = @ \cup {pair[1]}]
    IN FoldLeft(add, [err |-> "", weights |-> DEFAULT_ZEROED, seen |-> {}], pairs)

is_valid(weights) == \A k \in WeightKeys : weights[k] >= 0

NoConstraints ==
    [excluded_countries |-> {}, excluded_states |-> {}, excluded_cities |-> {},
     excluded_servers |-> {}, excluded_entry_countries |-> {},
     excluded_exit_countries |-> {}, exclude_physical_country |-> FALSE,
     physical_country |-> "", required_features |-> {},
     optional_features |-> {}, required_protocol |-> ""]

Request(target, policy, constraints) ==
    [target |-> target, policy |-> policy, constraints |-> constraints]

\* SelectionContext::default. An uncomposed capability source is "none".
EmptyContext ==
    [latency |-> <<>>, account_tier |-> Unset, pf_entitled |-> "none",
     pf_composed |-> FALSE, pf_capable |-> {}, entropy |-> <<>>]

-----------------------------------------------------------------------------
(* Servers and targets.                                                     *)

is_gateway(server) == server.gateway # ""

is_secure_core_route(server) == server.entry # server.exit

is_exact(target) == target.kind \in {"Server", "Gateway"}

matches_exact(target, server) ==
    \/ target.kind = "Server" /\ server.name = target.arg
    \/ target.kind = "Gateway" /\ server.gateway = target.arg

is_standard_fleet(server) ==
    /\ ~is_gateway(server)
    /\ ~is_secure_core_route(server)
    /\ "SecureCore" \notin server.features

is_secure_core_fleet(server) ==
    /\ ~is_gateway(server)
    /\ is_secure_core_route(server) \/ "SecureCore" \in server.features

\* Prose compares without its casing; an absent value equals nothing.
eq_fold(value, wanted) == value # <<>> /\ value[1] = wanted[1]

validate_country(code) == code \in Countries

\* The error of the first malformed country, in the code's order: only the
\* route with equal ends has an error of its own.
validate_request_countries(request) ==
    LET target == request.target
        c == request.constraints
        named == CASE target.kind = "Country" -> {target.arg}
                   [] target.kind = "Countries" -> target.arg
                   [] target.kind = "SecureCore" ->
                        {target.arg.entry, target.arg.exit} \ {""}
                   [] OTHER -> {}
        listed == c.excluded_countries \cup c.excluded_entry_countries
                  \cup c.excluded_exit_countries \cup ({c.physical_country} \ {""})
        malformed(codes) == \E code \in codes : ~validate_country(code)
    IN FirstHit(<< <<malformed(named), "InvalidCountry">>,
                   <<target.kind = "SecureCore" /\ Cardinality(named) = 1
                     /\ target.arg.entry = target.arg.exit, "SecureCoreEntryEqualsExit">>,
                   <<malformed(listed), "InvalidCountry">> >>)

-----------------------------------------------------------------------------
(* The hard filters. A stage is a sequence of <<condition, name>> pairs, and *)
(* a server is charged to the first condition that holds of it.              *)

STAGES ==
    << "AccountTier", "UnknownStatus", "Offline", "AllPhysicalsOffline",
       "AbsentFromCatalog", "ServerType", "TargetGeography",
       "PhysicalCountryExclusion", "ExcludedCountry", "ExcludedEntryCountry",
       "ExcludedExitCountry", "ExcludedState", "ExcludedCity",
       "ExcludedServer", "RequiredFeatures", "ProtocolCompatibility",
       "LoadNotExposed", "NoLatencyObservation" >>

account_tier_stage(server, ctx) ==
    << <<ctx.account_tier # Unset /\ server.tier > ctx.account_tier, "AccountTier">> >>

online_stage(server) ==
    << <<server.status = "unknown", "UnknownStatus">>,
       <<server.status = "offline", "Offline">>,
       <<\A p \in server.physicals : ~p.online, "AllPhysicalsOffline">> >>

secure_core_stage(server, target) ==
    LET wanted == target.arg IN
    << <<~is_secure_core_fleet(server), "ServerType">>,
       <<\/ wanted.exit # "" /\ server.exit # wanted.exit
         \/ wanted.entry # "" /\ server.entry # wanted.entry
         \/ ~is_secure_core_route(server), "TargetGeography">> >>

standard_stage(server, target) ==
    << <<~is_standard_fleet(server), "ServerType">>,
       <<CASE target.kind = "Country" -> server.exit # target.arg
           [] target.kind = "Countries" -> server.exit \notin target.arg
           [] target.kind = "State" -> ~eq_fold(server.state, target.arg)
           [] target.kind = "City" -> ~eq_fold(server.city, target.arg)
           [] OTHER -> FALSE, "TargetGeography">> >>

target_stage(server, target) ==
    CASE is_exact(target) ->
            << <<~matches_exact(target, server), "TargetGeography">> >>
      [] target.kind = "SecureCore" -> secure_core_stage(server, target)
      [] OTHER -> standard_stage(server, target)

physical_country_stage(server, c) ==
    << <<c.exclude_physical_country /\ c.physical_country = server.exit,
         "PhysicalCountryExclusion">> >>

exclusion_stage(server, c) ==
    << <<server.exit \in c.excluded_countries, "ExcludedCountry">>,
       <<\E name \in c.excluded_states : eq_fold(server.state, name), "ExcludedState">>,
       <<\E name \in c.excluded_cities : eq_fold(server.city, name), "ExcludedCity">>,
       <<server.name \in c.excluded_servers, "ExcludedServer">> >>

secure_core_exclusion_stage(server, c) ==
    << <<server.entry \in c.excluded_entry_countries, "ExcludedEntryCountry">>,
       <<server.exit \in c.excluded_exit_countries, "ExcludedExitCountry">> >>

catalog_feature_holds(server, feature) ==
    feature # "PortForwarding" /\ feature \in server.features

pf_holds_for(server, ctx) ==
    ctx.pf_entitled = "yes" /\ ctx.pf_composed /\ server.id \in ctx.pf_capable

feature_holds(server, feature, ctx) ==
    IF feature = "PortForwarding" THEN pf_holds_for(server, ctx)
    ELSE catalog_feature_holds(server, feature)

required_features_stage(server, c, ctx) ==
    << <<\E f \in c.required_features : ~feature_holds(server, f, ctx),
         "RequiredFeatures">> >>

protocol_holds_Offline(server, required) ==
    \E p \in server.physicals : required \in p.protocols

protocol_holds(server, required) ==
    \E p \in server.physicals : p.online /\ required \in p.protocols

protocol_stage(server, c) ==
    << <<c.required_protocol # "" /\ ~protocol_holds(server, c.required_protocol),
         "ProtocolCompatibility">> >>

eliminating_stage(server, request, ctx) ==
    LET c == request.constraints IN
    FirstHit(account_tier_stage(server, ctx)
             \o online_stage(server)
             \o target_stage(server, request.target)
             \o physical_country_stage(server, c)
             \o exclusion_stage(server, c)
             \o secure_core_exclusion_stage(server, c)
             \o required_features_stage(server, c, ctx)
             \o protocol_stage(server, c))

\* FR-22's account of where every candidate went.
Report(considered, survivors, stages) ==
    [considered |-> considered, survivors |-> survivors, stages |-> stages]

NoReport == Report(0, 0, [s \in ToSet(STAGES) |-> 0])

charge(report, stage, count) ==
    [report EXCEPT !.stages[stage] = @ + count, !.survivors = @ - count]

\* The last stage, in the order of STAGES, that eliminated anything.
LastEliminating(report) ==
    LET i == SelectLastInSeq(STAGES, LAMBDA s : report.stages[s] > 0)
    IN IF i = 0 THEN "" ELSE STAGES[i]

needs_port_forwarding_composition(c) ==
    "PortForwarding" \in c.required_features \cup c.optional_features

\* The refusals before any candidate is looked at, in order.
RequestRefusal(request, ctx) ==
    LET c == request.constraints
        routed == request.target.kind = "SecureCore"
        malformed == validate_request_countries(request)
        uncomposed == \/ ctx.pf_entitled = "none"
                      \/ ctx.pf_entitled = "yes" /\ ~ctx.pf_composed
    IN FirstHit(
        << <<malformed # "", malformed>>,
           <<~routed /\ c.excluded_entry_countries \cup c.excluded_exit_countries # {},
             "SecureCoreOnlyConstraints">>,
           <<~is_exact(request.target) /\ ~routed /\ "SecureCore" \in c.required_features,
             "StandardFleetFeatureContradiction">>,
           <<c.exclude_physical_country /\ c.physical_country = "",
             "PhysicalCountryRequired">>,
           <<needs_port_forwarding_composition(c) /\ uncomposed,
             "RequiresEntitlementComposition">> >>)

Filtered(err, stage, survivors, report) ==
    [err |-> err, stage |-> stage, survivors |-> survivors, report |-> report]

\* Why an exact target with no survivor cannot be selected.
ExactDiagnosis(catalog, request, ctx) ==
    LET i == SelectInSeq(catalog, LAMBDA s : matches_exact(request.target, s))
    IN IF i = 0 THEN "AbsentFromCatalog"
       ELSE eliminating_stage(catalog[i], request, ctx)

filter_candidates(catalog, request, ctx) ==
    LET stage(s) == eliminating_stage(s, request, ctx)
        survivors == SelectSeq(catalog, LAMBDA s : stage(s) = "")
        counts == [name \in ToSet(STAGES) |->
                      Cardinality({i \in DOMAIN catalog : stage(catalog[i]) = name})]
        refusal == RequestRefusal(request, ctx)
    IN IF refusal # "" THEN Filtered(refusal, "", <<>>, NoReport)
       ELSE IF is_exact(request.target) /\ survivors = <<>>
       THEN Filtered("ExactServerUnavailable", ExactDiagnosis(catalog, request, ctx),
                     <<>>, NoReport)
       ELSE Filtered("", "", survivors, Report(Len(catalog), Len(survivors), counts))

-----------------------------------------------------------------------------
(* Ranking.                                                                 *)

Ranking(err, ranked, report) == [err |-> err, ranked |-> ranked, report |-> report]

Lexicographic(a, b) ==
    \E i \in DOMAIN a : a[i] < b[i] /\ \A j \in 1 .. i - 1 : a[j] = b[j]

\* sort_by a key that ends in the id, so that no two servers tie.
Sorted(servers, key(_)) ==
    SetToSortSeq(ToSet(servers), LAMBDA a, b : Lexicographic(key(a), key(b)))

LoadOrMax(server) == IF server.load = Unset THEN 127 ELSE server.load

rank_official(candidates, report) ==
    IF \E s \in ToSet(candidates) : s.score = Unset
    THEN Ranking("OfficialScoreUnavailable", <<>>, report)
    ELSE Ranking("", Sorted(candidates, LAMBDA s : <<s.score, LoadOrMax(s), s.id>>),
                 report)

rank_lowest_latency(candidates, ctx, report) ==
    LET seen == SelectSeq(candidates, LAMBDA s : s.id \in DOMAIN ctx.latency) IN
    IF ctx.latency = <<>> THEN Ranking("LatencyDataUnavailable", <<>>, report)
    ELSE Ranking("", Sorted(seen, LAMBDA s : <<ctx.latency[s.id], s.id>>),
                 charge(report, "NoLatencyObservation", Len(candidates) - Len(seen)))

rank_lowest_load(candidates, report) ==
    LET loaded == SelectSeq(candidates, LAMBDA s : s.load # Unset)
    IN Ranking("", Sorted(loaded, LAMBDA s : <<LoadOrMax(s), s.id>>),
               charge(report, "LoadNotExposed", Len(candidates) - Len(loaded)))

\* In-place shuffle: draws[k] is the stream's k-th number, of any size.
fisher_yates(items, draws) ==
    LET swap(s, k) == LET index == Len(items) + 1 - k
                          other == (draws[k] % index) + 1
                      IN [s EXCEPT ![index] = s[other], ![other] = s[index]]
    IN FoldLeft(swap, items, [k \in 1 .. Len(items) - 1 |-> k])

\* rank_random: the countries in code order, shuffled, then each country's
\* servers. The stream is read once per index of every shuffle.
rank_random(candidates, draws, report) ==
    LET codes == SetToSortSeq({s.exit : s \in ToSet(candidates)},
                              LAMBDA a, b : CountryRank[a] < CountryRank[b])
        group(code) == SelectSeq(candidates, LAMBDA s : s.exit = code)
        countries == fisher_yates(codes, draws)
        deal(sofar, code) ==
            [ranked |-> sofar.ranked
                        \o fisher_yates(group(code), SubSeq(draws, sofar.next, Len(draws))),
             next |-> sofar.next + Len(group(code)) - 1]
    IN Ranking("", FoldLeft(deal, [ranked |-> <<>>, next |-> Len(codes)],
                            countries).ranked, report)

\* The weighted total of one candidate over a common denominator: load is a
\* percentage, latency a share of the slowest, the last term the share of
\* optional features that do not hold.
WeightedTotal(server, weights, optional, slowest, ctx) ==
    LET wanted == Max({1, Cardinality(optional)})
        missing == Cardinality({f \in optional : ~feature_holds(server, f, ctx)})
        scale == Max({1, slowest})
        latency == IF weights.latency > 0 /\ slowest > 0
                   THEN weights.latency * ctx.latency[server.id] ELSE 0
        load == IF weights.load > 0 THEN weights.load * server.load ELSE 0
    IN load * scale * wanted + 100 * latency * wanted
       + 100 * weights.feature_match * missing * scale

rank_balanced(candidates, request, ctx, report) ==
    LET weights == request.policy.weights
        optional == request.constraints.optional_features
        loaded == SelectSeq(candidates, LAMBDA s : weights.load = 0 \/ s.load # Unset)
        pool == SelectSeq(loaded, LAMBDA s :
                              weights.latency = 0 \/ s.id \in DOMAIN ctx.latency)
        rtts == {ctx.latency[s.id] : s \in {t \in ToSet(pool) : t.id \in DOMAIN ctx.latency}}
        total(s) == WeightedTotal(s, weights, optional, Max({0} \cup rtts), ctx)
        charged == charge(charge(report, "LoadNotExposed", Len(candidates) - Len(loaded)),
                          "NoLatencyObservation", Len(loaded) - Len(pool))
    IN IF ~is_valid(weights) THEN Ranking("InvalidWeights", <<>>, report)
       ELSE IF weights.latency > 0 /\ ctx.latency = <<>>
       THEN Ranking("LatencyDataUnavailable", <<>>, report)
       ELSE IF \E s \in ToSet(pool) : total(s) > F32_MAX
       THEN Ranking("InvalidWeights", <<>>, charged)
       ELSE Ranking("", Sorted(pool, LAMBDA s : <<total(s), s.id>>), charged)

\* select: filter, rank, and refuse an empty ranking. An exact target with
\* one match needs no score.
Ranked(f, request, ctx) ==
    LET mode == request.policy.mode IN
    IF is_exact(request.target) /\ Len(f.survivors) = 1 /\ mode = "Official"
    THEN Ranking("", f.survivors, f.report)
    ELSE CASE mode = "Official" -> rank_official(f.survivors, f.report)
           [] mode = "Latency" -> rank_lowest_latency(f.survivors, ctx, f.report)
           [] mode = "LowestLoad" -> rank_lowest_load(f.survivors, f.report)
           [] mode = "Balanced" -> rank_balanced(f.survivors, request, ctx, f.report)
           [] mode = "Random" ->
                IF ctx.entropy = <<>>
                THEN Ranking("RandomEntropyRequired", <<>>, f.report)
                ELSE rank_random(f.survivors, ctx.entropy, f.report)

Outcome(err, stage, ranked, report) ==
    [err |-> err, stage |-> stage, ranked |-> ranked, report |-> report]

Concluded(f, r) ==
    IF f.err # "" THEN Outcome(f.err, f.stage, <<>>, f.report)
    ELSE IF r.err # "" THEN Outcome(r.err, "", <<>>, r.report)
    ELSE IF r.ranked = <<>>
    THEN Outcome("ConstraintsNotSatisfied", "", <<>>, r.report)
    ELSE Outcome("", "", r.ranked, r.report)

select(catalog, request, ctx) ==
    LET f == filter_candidates(catalog, request, ctx)
    IN Concluded(f, Ranked(f, request, ctx))
=============================================================================

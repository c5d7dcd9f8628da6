--------------------------- MODULE GateReference ---------------------------
(***************************************************************************)
(* Questions put to the gates of xtask: a licence expression, a dependency  *)
(* graph, a lock file, a line and a table of the country file, a parity     *)
(* manifest, a table of groups. Each answer is compared with one found      *)
(* another way.                                                             *)
(***************************************************************************)
EXTENDS ReleaseGates

-----------------------------------------------------------------------------
(* Licence expressions: trees, written down with the parentheses they need. *)

Licenses == {"MIT", "GPL-2.0-only", "Custom"}
Exceptions == {"", "LLVM-exception", "Other-exception"}

Id(id, exception) == [op |-> "ID", id |-> id, exception |-> exception]
Node(op, left, right) == [op |-> op, left |-> left, right |-> right]

Leaves == {Id(id, "") : id \in Licenses} \union {Id("MIT", e) : e \in Exceptions}
Inner == Leaves \union {Node(op, a, b) : op \in {"OR", "AND"}, a \in Leaves, b \in Leaves}

RECURSIVE Written(_)
Written(e) ==
    LET part(f) == IF e.op = "AND" /\ f.op = "OR"
                   THEN <<"(">> \o Written(f) \o <<")">> ELSE Written(f)
    IN IF e.op = "ID"
       THEN IF e.exception = "" THEN <<e.id>> ELSE <<e.id, "WITH", e.exception>>
       ELSE part(e.left) \o <<e.op>> \o part(e.right)

\* The licences of a tree, and whether the reader may choose compatible ones.
RECURSIVE Known(_)
Known(e) ==
    IF e.op = "ID" THEN e.id # "Custom" /\ e.exception # "Other-exception"
    ELSE Known(e.left) /\ Known(e.right)

RECURSIVE Usable(_)
Usable(e) ==
    CASE e.op = "ID" -> e.id = "MIT"
      [] e.op = "OR" -> Usable(e.left) \/ Usable(e.right)
      [] e.op = "AND" -> Usable(e.left) /\ Usable(e.right)

\* A word too many or too few.
Spoilt(words) == {Append(words, "OR"), Append(words, ")"), <<"(">> \o words, <<"AND">> \o words,
                  Append(words, "MIT")}

-----------------------------------------------------------------------------
(* Dependency graphs over three packages, and lock files of three entries.  *)

Packages == {"protonwire-cli", "protonwire-client", "protonwire-ipc"}
Graphs == [Packages -> SUBSET Packages]

\* p is reached from root along edges that do not leave the conduit.
RECURSIVE Reached(_, _, _)
Reached(graph, conduit, from) ==
    LET more == from \union UNION {graph[p] : p \in from \ {conduit}}
    IN IF more = from THEN from ELSE Reached(graph, conduit, more)

\* Workspaces: what the CLI, the SDK, the transport and a registry crate need;
\* the other front ends need the SDK only.
Workspace(cli, client, ipc, crate) ==
    [name \in CLIENT_SIDE \union {"protonwire-ipc", "protonwire-core", "serde"} |->
        CASE name = "protonwire-cli" -> cli
          [] name = "protonwire-client" -> client
          [] name = "protonwire-ipc" -> ipc
          [] name = "serde" -> crate
          [] name = "protonwire-core" -> {}
          [] OTHER -> {"protonwire-client"}]
Manifest(version) ==
    [valid |-> TRUE, sections |-> [dependencies |-> [serde |-> version]]]
TreeOf(graph, version, locks) ==
    [members |-> {[name |-> n, directory |-> "crates", deps |-> graph[n],
                   manifest |-> Manifest(version)] : n \in DOMAIN graph},
     nodes |-> {[name |-> n, deps |-> graph[n]] : n \in DOMAIN graph},
     locks |-> locks, tracked |-> TRUE, manifest |-> Manifest({"1"}), lines |-> <<>>]

LockLine(key, value) == [key |-> key, value |-> value]
Entry(name, version, source) ==
    <<LockLine("name", name), LockLine("version", version)>>
    \o (IF source = "" THEN <<>> ELSE <<LockLine("source", source)>>)
LockEntries == [name : {"muon", "protun"}, version : {"1", "2"}, source : {"", "proton", "crates"}]
Train == {<<"muon", "1">>, <<"protun", "1">>}

-----------------------------------------------------------------------------
(* The country file: lines of quoted fields, and tables.                    *)

Fielded == {<<"a">>, <<>>, <<"a", ",", "b">>, <<"\"">>, <<"\"", ",">>}

\* A field as it is written, every quote doubled inside quotes.
Quotes(field) ==
    <<"\"">> \o FlattenSeq([i \in DOMAIN field |->
                    IF field[i] = "\"" THEN <<"\"", "\"">> ELSE <<field[i]>>]) \o <<"\"">>
NeedsQuotes(field) == \E i \in DOMAIN field : field[i] \in {",", "\""}
Join(fields, quoted) ==
    LET text(i) == IF quoted \/ NeedsQuotes(fields[i]) THEN Quotes(fields[i]) ELSE fields[i]
    IN FlattenSeq([i \in DOMAIN fields |-> (IF i = 1 THEN <<>> ELSE <<",">>) \o text(i)])

Mapping == [m150 |-> "europe", m002 |-> "africa"]
Canonical == <<[m49 |-> 756, region |-> "europe"], [m49 |-> 818, region |-> "africa"]>>
Row(iso, m49, code, region) ==
    [kind |-> "row", shaped |-> TRUE, named |-> TRUE, code |-> code, m49 |-> m49, iso |-> iso,
     region |-> region]
Rows == {Row(1, 756, "m150", "europe"), Row(2, 818, "m002", "africa"),
         Row(1, 756, "m002", "africa"), Row(2, 819, "m002", "africa"),
         Row(2, 818, "m150", "africa"), Row(3, 1, "m002", "africa"),
         [Row(1, 756, "m150", "europe") EXCEPT !.kind = "blank"]}
Good == <<Row(1, 756, "m150", "europe"), Row(2, 818, "m002", "africa")>>

-----------------------------------------------------------------------------
(* The parity manifest: a capability and the evidence it cites, the list of *)
(* capabilities, and the upstream pins with the lock file they are held to. *)

Pins == [capabilities |-> {"a.x", "b.y"}, slugs |-> {"a.x", "b.y", "c.z"},
         tests |-> {"T-1"}, numbered |-> {"T-1", "T-99"}, owners |-> {"none"}, areas |-> {"legacy"},
         hashes |-> {"p", "q"}, protun |-> "p", official |-> [official_app |-> "q"]]
Tree == {"docs/here"}
Url == [string |-> TRUE, scheme |-> "https", absolute |-> FALSE, parent |-> FALSE, text |-> "url"]
Evidence ==
    {Url, [Url EXCEPT !.string = FALSE], [Url EXCEPT !.text = "", !.scheme = ""]}
    \union [string : {TRUE}, scheme : {"", "ftp"}, absolute : BOOLEAN, parent : BOOLEAN,
            text : {"docs/here", "docs/gone"}]
Openable(e) ==
    e.string /\ e.text # "" /\ \/ e.scheme = "https"
                               \/ e.text = "docs/here" /\ ~e.absolute /\ ~e.parent

Capability(id) ==
    [id |-> id, area |-> <<"legacy">>, status |-> <<"required">>, behavior |-> <<"does">>,
     owner |-> <<"none">>, sources |-> {"doc"}, tests |-> {"T-1"}, verified_at |-> <<>>,
     blocker |-> <<>>]
Claims ==
    {[Capability(<<"a.x">>) EXCEPT !.status = status, !.tests = tests, !.sources = sources,
                                   !.verified_at = at, !.blocker = blocker] :
        status \in {<<s>> : s \in (REQUIRED_STATUSES \ {"implemented"}) \union {"waived"}}
                  \union {<<>>},
        tests \in SUBSET {"T-1", "T-99", "t"}, sources \in SUBSET {"doc", "lost"},
        at \in {<<>>, <<"">>, <<"now">>}, blocker \in {<<>>, <<"why">>}}
Ids == {<<>>, <<"a.x">>, <<"b.y">>, <<"c.z">>, <<"B">>}

Official(revision) == [version |-> <<>>, revision |-> revision, checksum_sha256 |-> <<>>]
Upstream(protun, checksum, official, other) ==
    [protun |-> [version |-> <<"3.0.5">>, revision |-> protun, checksum_sha256 |-> <<>>],
     muon |-> [version |-> <<"3.0.0">>, revision |-> <<>>, checksum_sha256 |-> checksum],
     pvpnclient |-> [version |-> <<"4.4.1">>, revision |-> <<>>, checksum_sha256 |-> <<"k">>],
     official_app |-> Official(official), other |-> Official(other)]
Package(name, version, source, checksum) ==
    [name |-> name, version |-> version, source |-> source, checksum |-> checksum]
Sources == {<<>>} \union {<<[git |-> git, fragment |-> fragment]>> :
                            git \in BOOLEAN, fragment \in {<<>>, <<"">>, <<"p">>, <<"q">>}}
Packages3(source, checksum) ==
    <<Package("protun", "3.0.5", source, <<>>), Package("muon", "3.0.0", <<>>, checksum),
      Package("pvpnclient", "4.4.1", <<>>, <<"k">>)>>
GoodUpstream == Upstream(<<"p">>, <<"k">>, <<"q">>, <<"p">>)
GoodPackages == Packages3(<<[git |-> TRUE, fragment |-> <<"p">>]>>, <<"k">>)

Document(definitions, evidence, capabilities, upstream) ==
    [schema_version |-> <<3>>, baseline |-> <<"b">>, client_contract |-> <<"c">>,
     upstream |-> <<upstream>>, status_definitions |-> <<definitions>>,
     sources |-> <<[doc |-> evidence]>>, capabilities |-> <<capabilities>>]
Listing(claims, definitions, evidence) ==
    manifest_validate(Document(definitions, evidence, claims, GoodUpstream), GoodPackages, Tree, Pins)

-----------------------------------------------------------------------------
(* The built-in groups: an official and a regional one, changed in a field, *)
(* listed in any order, in a document that defines what they refer to.      *)

GroupId(namespace, name) == [namespace |-> namespace, name |-> name]
Target(kind, region) ==
    [kind |-> <<kind>>, region |-> region, country |-> <<>>, entry_country |-> <<>>,
     exit_country |-> <<>>]
OfficialGroup ==
    [id |-> <<GroupId("proton", "gaming")>>, definition_source |-> <<"proton-api">>,
     immutable |-> <<TRUE>>, ranking_policy |-> <<"load">>, allowed_ranking_overrides |-> <<>>,
     overrides |-> <<{"nat"}>>, sources |-> <<{"site"}>>, target |-> <<Target("fastest", <<>>)>>,
     rest |-> "as golden"]
RegionalGroup ==
    [OfficialGroup EXCEPT !.id = <<GroupId("protonwire", "fastest-asia")>>,
                          !.definition_source = <<"protonwire">>,
                          !.allowed_ranking_overrides = <<{"load", "latency"}>>,
                          !.target = <<Target("fastest-in-region", <<"asia">>)>>]
Golden == [id \in {OfficialGroup.id[1], RegionalGroup.id[1]} |->
                IF id = OfficialGroup.id[1] THEN OfficialGroup ELSE RegionalGroup]

Drifts(g) ==
    {g, [g EXCEPT !.id = <<>>], [g EXCEPT !.id = <<GroupId("other", "gaming")>>],
     [g EXCEPT !.definition_source = <<>>], [g EXCEPT !.immutable = <<FALSE>>],
     [g EXCEPT !.ranking_policy = <<"speed">>], [g EXCEPT !.overrides = <<{"dns"}>>],
     [g EXCEPT !.sources = <<{"site", "lost"}>>], [g EXCEPT !.rest = "drifted"],
     [g EXCEPT !.allowed_ranking_overrides = <<{"history"}>>], [g EXCEPT !.target = <<>>]}
Aims == [kind : {<<>>, <<"speed">>} \union {<<k>> : k \in ALLOWED_TARGET_KINDS},
         region : {<<>>, <<"asia">>, <<"atlantis">>}, country : {<<>>, <<"US">>},
         entry_country : {<<>>, <<"CH">>}, exit_country : {<<>>, <<"US">>}]

Contract ==
    [authoritative_owner |-> <<"protonwire-core">>, listing_network_requests |-> <<"forbidden">>,
     official_group_ranking_overrides |-> <<"forbidden">>, immutable_built_ins |-> <<TRUE>>,
     required_client_surfaces |-> <<REQUIRED_CLIENT_SURFACES>>,
     allowed_ranking_signals |-> <<ALLOWED_RANKING_SIGNALS>>,
     forbidden_ranking_signals |-> <<REQUIRED_FORBIDDEN_SIGNALS>>,
     ranking_policies |-> <<REQUIRED_RANKING_POLICIES>>,
     regional_group_ranking_overrides |-> <<REGIONAL_RANKING_OVERRIDES>>]
Country ==
    [on_demand_request_minimum_interval_hours |-> <<3>>, periodic_polling |-> <<"forbidden">>,
     missing_policy |-> <<"physical-country-required">>,
     forbidden_sources |-> <<EXPECTED_FORBIDDEN_SOURCES>>]
Taxonomy(regions) ==
    [id |-> <<"un-m49-six-continent-view">>, required_path |-> <<"resources/geo/un-m49.csv">>,
     primary_regions |-> <<regions>>]
Regions == [name \in DOMAIN EXPECTED_REGIONS |-> <<EXPECTED_REGIONS[name]>>]
GroupsFile ==
    [schema_version |-> <<1>>, catalog_revision |-> <<"r">>, contract |-> <<Contract>>,
     physical_country |-> <<Country>>, sources |-> <<{"site"}>>,
     regional_taxonomy |-> <<Taxonomy(Regions)>>, groups |-> <<<<OfficialGroup, RegionalGroup>>>>]

\* Files around golden groups that a reader may accept, and ones they may not.
Acceptable ==
    {GroupsFile, [GroupsFile EXCEPT !.sources = <<{"site", "more"}>>]}
    \union {[GroupsFile EXCEPT !.contract[1][key] = <<@[1] \union {"more"}>>] :
                key \in {"forbidden_ranking_signals", "ranking_policies"}}
Unacceptable ==
    {[GroupsFile EXCEPT !.sources = <<{}>>], [GroupsFile EXCEPT !.schema_version = <<3>>],
     [GroupsFile EXCEPT !.regional_taxonomy = <<Taxonomy([name \in DOMAIN Regions \ {"asia"} |->
                                                            Regions[name]])>>],
     [GroupsFile EXCEPT !.regional_taxonomy = <<Taxonomy([Regions EXCEPT !["asia"] = <<{"150"}>>])>>],
     [GroupsFile EXCEPT !.contract[1].required_client_surfaces = <<<<"cli", "gui", "tui">>>>]}
    \union {[GroupsFile EXCEPT ![key] = <<>>] : key \in DOMAIN GroupsFile}
    \union {[GroupsFile EXCEPT !.contract[1][key] = <<>>] : key \in DOMAIN Contract}
    \union {[GroupsFile EXCEPT !.physical_country[1][key] = <<>>] : key \in DOMAIN Country}
    \union {[GroupsFile EXCEPT !.contract[1][key] = <<@[1] \union {"more"}>>] :
                key \in {"allowed_ranking_signals", "regional_group_ranking_overrides"}}

-----------------------------------------------------------------------------
Asks(q) ==
    \/ \E n \in 0 .. 3 : \E groups \in [1 .. n -> Drifts(OfficialGroup) \union Drifts(RegionalGroup)] :
          q = [kind |-> "groups", groups |-> groups]
    \/ \E aim \in Aims, g \in Drifts(OfficialGroup) \union Drifts(RegionalGroup) :
          q = [kind |-> "group", group |-> [g EXCEPT !.target = <<aim>>], aim |-> aim]
    \/ \E file \in Acceptable \union Unacceptable : q = [kind |-> "file", file |-> file]
    \/ \E claim \in Claims, evidence \in Evidence, more \in {{}, {"waived"}} :
          q = [kind |-> "claim", claim |-> claim, evidence |-> evidence,
               definitions |-> REQUIRED_STATUSES \union more]
    \/ \E n \in 0 .. 3 : \E ids \in [1 .. n -> Ids] : q = [kind |-> "ids", ids |-> ids]
    \/ \E revision \in {<<>>, <<"p">>, <<"q">>}, source \in Sources,
          recorded \in {<<>>, <<"k">>, <<"l">>}, locked \in {<<>>, <<"k">>, <<"l">>},
          official \in {<<>>, <<"p">>, <<"q">>, <<"short">>}, other \in {<<>>, <<"p">>, <<"short">>},
          twice \in BOOLEAN :
          q = [kind |-> "pins", revision |-> revision, source |-> source, recorded |-> recorded,
               locked |-> locked, official |-> official, other |-> other, twice |-> twice]
    \/ \E op \in {"OR", "AND"}, a \in Inner, b \in Inner :
          q = [kind |-> "licence", tree |-> Node(op, a, b), words |-> Written(Node(op, a, b))]
    \/ \E tree \in Inner : \E words \in Spoilt(Written(tree)) :
          q = [kind |-> "spoilt", words |-> words]
    \/ \E graph \in Graphs, conduit \in {"", "protonwire-client"} :
          q = [kind |-> "graph", graph |-> graph, conduit |-> conduit]
    \/ \E cli \in SUBSET {"protonwire-client", "protonwire-ipc", "serde"},
          client \in SUBSET {"protonwire-ipc", "protonwire-core", "serde"},
          ipc \in SUBSET {"protonwire-core", "serde"},
          crate \in SUBSET {"protonwire-ipc", "protonwire-core"},
          version \in {{"1"}, {"1", "*"}}, locks \in {{"Cargo.lock"}, {"Cargo.lock", "fuzz"}, {}} :
          q = [kind |-> "tree", graph |-> Workspace(cli, client, ipc, crate),
               version |-> version, locks |-> locks]
    \/ \E bare \in SUBSET {"a", "b"}, known \in SUBSET {"a", "b"}, license \in Licenses,
          marker \in BOOLEAN :
          q = [kind |-> "release", bare |-> bare, known |-> known, license |-> license,
               marker |-> marker]
    \/ \E n \in 0 .. 3 : \E entries \in [1 .. n -> LockEntries] :
          q = [kind |-> "lock", entries |-> entries]
    \/ \E n \in 1 .. 3, quoted \in BOOLEAN : \E fields \in [1 .. n -> Fielded] :
          q = [kind |-> "line", fields |-> fields, quoted |-> quoted]
    \/ \E n \in 0 .. 3 : \E rows \in [1 .. n -> Rows] :
          q = [kind |-> "table", rows |-> rows]

Answer(q) ==
    CASE q.kind \in {"licence", "spoilt"} -> classify(q.words)
      [] q.kind = "graph" -> closure_routes(q.graph, "protonwire-cli", q.conduit)
      [] q.kind = "tree" -> dep_graph(TreeOf(q.graph, q.version, q.locks), {})
      [] q.kind = "release" ->
            release_guard_with(
                IF license_scan({[name |-> n, license |-> <<>>] : n \in q.bare}
                                \union {[name |-> "c", license |-> <<q.license>>]}, q.known)
                THEN "passed" ELSE "failed", q.marker)
      [] q.kind = "lock" ->
            proton_train_violations(FlattenSeq([i \in DOMAIN q.entries |->
                Entry(q.entries[i].name, q.entries[i].version, q.entries[i].source)]), Train)
      [] q.kind = "line" -> parse_csv_line(Join(q.fields, q.quoted))
      [] q.kind = "table" ->
            verify_csv([empty |-> FALSE, newline |-> TRUE, cr |-> FALSE, utf8 |-> TRUE,
                        header |-> TRUE, rows |-> q.rows], Mapping, Canonical, 2)
      [] q.kind = "groups" ->
            groups_validate([GroupsFile EXCEPT !.groups = <<q.groups>>], Golden)
      [] q.kind = "group" -> check_group(q.group, Defined(GroupsFile)) = {}
      [] q.kind = "file" -> groups_validate(q.file, Golden)
      [] q.kind = "claim" ->
            Listing(<<q.claim, Capability(<<"b.y">>)>>, q.definitions, q.evidence)
      [] q.kind = "ids" ->
            Listing([i \in DOMAIN q.ids |-> Capability(q.ids[i])], REQUIRED_STATUSES, Url)
      [] q.kind = "pins" ->
            manifest_validate(
                Document(REQUIRED_STATUSES, Url, <<Capability(<<"a.x">>), Capability(<<"b.y">>)>>,
                         Upstream(q.revision, q.recorded, q.official, q.other)),
                Packages3(q.source, q.locked)
                    \o (IF q.twice THEN <<Package("muon", "3.0.0", <<>>, <<"k">>)>> ELSE <<>>),
                Tree, Pins)

\* An expression passes exactly when every licence in it is known and the
\* choices it leaves allow a compatible one, AND binding before OR; words that
\* are no expression never pass (classify).
LicenceIsRead(q, a) ==
    IF q.kind = "spoilt" THEN a = "Unrecognized"
    ELSE a = IF ~Known(q.tree) THEN "Unrecognized"
             ELSE IF Usable(q.tree) THEN "Compatible" ELSE "Incompatible"

\* The packages found are all those reached without going through the
\* conduit, in any cycle, and the route shown to each is one of the graph
\* (closure_routes).
RoutesAreReal(q, a) ==
    /\ DOMAIN a = Reached(q.graph, q.conduit, {"protonwire-cli"})
    /\ \A p \in DOMAIN a :
          /\ Head(a[p]) = "protonwire-cli" /\ Last(a[p]) = p
          /\ \A i \in 1 .. Len(a[p]) - 1 : /\ a[p][i + 1] \in q.graph[a[p][i]]
                                           /\ a[p][i] # q.conduit

\* A workspace passes exactly when no client-side package reaches the daemon's
\* side by any path, the front ends reach the transport through the SDK
\* alone, no version is a wildcard and there is one lock file (dep_graph).
LayersHold(q, a) ==
    a <=> /\ \A root \in CLIENT_SIDE : "protonwire-core" \notin Reached(q.graph, "", {root})
          /\ \A app \in FRONTEND_APPS :
                "protonwire-ipc" \notin Reached(q.graph, "protonwire-client", {app})
          /\ "*" \notin q.version /\ q.locks = {"Cargo.lock"}

\* A release is let through only with its marker, with every licence
\* compatible, and with no package newly without one (release_guard_with).
ReleaseIsClean(q, a) == a <=> q.marker /\ q.bare \subseteq q.known /\ q.license = "MIT"

\* The train's packages come from the registry at exactly their versions,
\* whatever stands around them in the file (proton_train_violations).
TrainIsFrozen(q, a) ==
    LET registry == {<<e.name, e.version>> : e \in {f \in ToSet(q.entries) : f.source = "proton"}}
    IN a = {} <=> registry = Train

\* The country file passes exactly when it is the pinned table, in order.
TableIsPinned(q, a) == a = {} <=> q.rows = Good

\* A manifest passes exactly when what it claims can be looked up: a claim of
\* the frozen vocabulary, tests of the inventory unless it is out of scope, a
\* date and a source that opens behind every "verified", a reason behind every
\* "blocked-upstream" (check_capability with check_sources and
\* check_status_definitions).
ClaimIsEvidenced(q, a) ==
    LET c == q.claim
        is(status) == c.status = <<status>>
    IN a = "passed" <=>
        /\ q.definitions = REQUIRED_STATUSES /\ Openable(q.evidence)
        /\ \E status \in REQUIRED_STATUSES : is(status)
        /\ \/ c.tests = {"T-1"}
           \/ c.tests = {} /\ (is("not-applicable") \/ is("legacy-excluded"))
        /\ "lost" \notin c.sources
        /\ is("verified") => c.verified_at = <<"now">> /\ c.sources # {}
        /\ is("blocked-upstream") => c.blocker = <<"why">>

\* Every canonical capability is listed once and nothing else is
\* (check_capability_ids with check_capabilities).
CapabilitiesAreCanonical(q, a) ==
    a = "passed" <=> q.ids \in {<<<<"a.x">>, <<"b.y">>>>, <<<<"b.y">>, <<"a.x">>>>}

\* The recorded pins are what Cargo.lock resolved, by one entry each; a lock
\* file that names a package twice is an error (check_upstream,
\* Lockfile::parse).
PinsAreResolved(q, a) ==
    /\ (a = "error") <=> q.twice
    /\ (a = "passed") <=>
          /\ ~q.twice /\ q.revision = <<"p">> /\ q.official = <<"q">> /\ q.other = <<"p">>
          /\ q.source = <<[git |-> TRUE, fragment |-> q.revision]>>
          /\ q.recorded # <<>> /\ q.recorded = q.locked

\* In a sound file the groups pass exactly when they are the golden ones, in
\* any order: the structural rules never refuse a golden table and never let
\* another one through (check_golden_groups_table with check_groups).
GroupsAreGolden(q, a) ==
    a <=> q.groups \in {<<OfficialGroup, RegionalGroup>>, <<RegionalGroup, OfficialGroup>>}

\* A group that passes says all that resolving it takes, in terms the file
\* defines, and an official one leaves its ranking alone (check_group,
\* check_target).
GroupResolves(q, a) ==
    LET g == q.group
        sound == {f \in {OfficialGroup, RegionalGroup} :
                    [f EXCEPT !.target = <<q.aim>>] \in {g, [g EXCEPT !.rest = "as golden"]}}
    IN a <=> /\ sound # {}
             /\ \/ q.aim.kind \in {<<"fastest">>, <<"random">>}
                \/ q.aim.kind = <<"fastest-in-country">> /\ q.aim.country # <<>>
                \/ /\ q.aim.kind = <<"secure-core">>
                   /\ q.aim.entry_country # <<>> /\ q.aim.exit_country # <<>>
                \/ q.aim.kind = <<"fastest-in-region">> /\ q.aim.region = <<"asia">>

\* Every gate gives the answer found without its own algorithm.
Right(q, a) ==
    CASE q.kind \in {"licence", "spoilt"} -> LicenceIsRead(q, a)
      [] q.kind = "graph" -> RoutesAreReal(q, a)
      [] q.kind = "tree" -> LayersHold(q, a)
      [] q.kind = "release" -> ReleaseIsClean(q, a)
      [] q.kind = "lock" -> TrainIsFrozen(q, a)
      [] q.kind = "line" -> a = q.fields
      [] q.kind = "table" -> TableIsPinned(q, a)
      [] q.kind = "groups" -> GroupsAreGolden(q, a)
      [] q.kind = "group" -> GroupResolves(q, a)
      [] q.kind = "file" -> a <=> q.file \in Acceptable
      [] q.kind = "claim" -> ClaimIsEvidenced(q, a)
      [] q.kind = "ids" -> CapabilitiesAreCanonical(q, a)
      [] q.kind = "pins" -> PinsAreResolved(q, a)
=============================================================================

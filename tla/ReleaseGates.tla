---------------------------- MODULE ReleaseGates ----------------------------
(***************************************************************************)
(* The gates of xtask that a change or a release must pass: the dependency  *)
(* rules and the frozen registry train (deps.rs), the licence scan and the  *)
(* release guard (license.rs), the vendored country table (m49.rs).         *)
(*                                                                         *)
(* A gate is the set, or the sequence, of its violations: it passes when    *)
(* there is none. Names are strings, an absent value is "".                 *)
(***************************************************************************)
EXTENDS Integers, Sequences, SequencesExt, FiniteSets

When(condition, violation) == IF condition THEN {violation} ELSE {}

-----------------------------------------------------------------------------
(* Dependencies.                                                            *)

CLIENT_SIDE == {"protonwire-cli", "protonwire-tui", "protonwire-gui", "protonwire-client"}
FRONTEND_APPS == {"protonwire-cli", "protonwire-tui", "protonwire-gui"}
DEEP_DEPS ==
    {"protonwire-core", "protonwire-net", "protonwire-store", "protonwire-protocol",
     "protonwire-api", "protonwire-policy", "protonwire-pf", "protun", "muon"}
CORE_SIDE ==
    (DEEP_DEPS \ {"protun", "muon"}) \union {"protonwire-ipc", "protonwire-frontend-api"}
FRONTEND_TECH == CLIENT_SIDE \union {"clap", "ratatui", "tauri", "tauri-build"}

\* The rules on the dependencies a member declares.
forbidden_edges(member, deps) ==
    {dep \in deps :
        \/ member \in CLIENT_SIDE /\ dep \in DEEP_DEPS
        \/ member \in FRONTEND_APPS /\ dep = "protonwire-ipc"
        \/ member \in CORE_SIDE /\ dep \in FRONTEND_TECH}

\* A user-interface crate stays in its application's directory.
ui_crate_placement(directory, deps) ==
    {dep \in deps : \/ dep = "ratatui" /\ directory # "apps/tui"
                    \/ dep \in {"tauri", "tauri-build"} /\ directory # "apps/gui"}

\* The resolved graph by name: nodes that share a name share their edges.
resolve_adjacency(nodes) ==
    [name \in {node.name : node \in nodes} |->
        UNION {node.deps : node \in {n \in nodes : n.name = name}}]

\* closure_routes: the packages reached from root and the route to each; the
\* conduit's own dependencies are not followed. parent[p] is the package p was
\* first reached from, "" for the root.
Extend(parent, dep, from) ==
    [p \in DOMAIN parent \union {dep} |-> IF p = dep THEN from ELSE parent[p]]

RECURSIVE Search(_, _, _, _)
Search(adjacency, conduit, parent, frontier) ==
    LET current == Last(frontier)
        fresh == IF current = conduit \/ current \notin DOMAIN adjacency THEN <<>>
                 ELSE SelectSeq(SetToSeq(adjacency[current]), LAMBDA dep : dep \notin DOMAIN parent)
    IN IF frontier = <<>> THEN parent
       ELSE Search(adjacency, conduit,
                   FoldLeft(LAMBDA tree, dep : Extend(tree, dep, current), parent, fresh),
                   Front(frontier) \o fresh)

RECURSIVE Route(_, _)
Route(parent, node) ==
    IF parent[node] = "" THEN <<node>> ELSE Append(Route(parent, parent[node]), node)

closure_routes_Through(adjacency, root, conduit) ==
    LET parent == Search(adjacency, "", [p \in {root} |-> ""], <<root>>)
    IN [node \in DOMAIN parent |-> Route(parent, node)]

closure_routes(adjacency, root, conduit) ==
    LET parent == Search(adjacency, conduit, [p \in {root} |-> ""], <<root>>)
    IN [node \in DOMAIN parent |-> Route(parent, node)]

transitive_forbidden_edges(adjacency) ==
    LET missing == CLIENT_SIDE \ DOMAIN adjacency
        deep(root) == DEEP_DEPS \intersect DOMAIN closure_routes(adjacency, root, "")
        ipc(root) == {"protonwire-ipc"}
                     \intersect DOMAIN closure_routes(adjacency, root, "protonwire-client")
    IN {<<root, "missing">> : root \in missing}
       \union UNION {{<<root, dep>> : dep \in deep(root)} : root \in CLIENT_SIDE \ missing}
       \union UNION {{<<root, dep>> : dep \in ipc(root)} : root \in FRONTEND_APPS \ missing}

\* The registry packages of a lock file against the recorded train. A lock
\* file is its lines, in order; a source line closes the entry above it.
Scan == [name |-> "", version |-> "", seen |-> {}, violations |-> {}]

proton_train_violations(lines, train) ==
    LET judged(scan) ==
            LET entry == <<scan.name, scan.version>>
            IN IF scan.name = "" \/ scan.version = "" THEN scan
               ELSE [scan EXCEPT !.seen = @ \union {entry},
                                 !.violations = @ \union ({entry} \ train)]
        next(scan, line) ==
            CASE line.key = "name" -> [scan EXCEPT !.name = line.value, !.version = ""]
              [] line.key = "version" -> [scan EXCEPT !.version = line.value]
              [] line.key = "source" -> IF line.value = "proton" THEN judged(scan) ELSE scan
        end == FoldLeft(next, Scan, lines)
    IN end.violations \union (train \ end.seen)

\* Every section a manifest may declare dependencies in; a version is the set
\* of its characters.
wildcard_versions(manifest) ==
    IF ~manifest.valid THEN {"manifest"}
    ELSE UNION {{name \in DOMAIN manifest.sections[section] :
                    "*" \in manifest.sections[section][name]} :
                section \in DOMAIN manifest.sections
                            \intersect {"dependencies", "dev-dependencies", "build-dependencies",
                                        "workspace.dependencies", "target.dependencies",
                                        "target.dev-dependencies", "target.build-dependencies"}}

\* The lock file: the one at the root, tracked, and no other.
LockViolations(tree) ==
    (tree.locks \ {"Cargo.lock"}) \union When("Cargo.lock" \notin tree.locks, "missing")
    \union When(~tree.tracked, "untracked")

dep_graph(tree, train) ==
    /\ \A member \in tree.members :
          /\ forbidden_edges(member.name, member.deps) = {}
          /\ ui_crate_placement(member.directory, member.deps) = {}
          /\ wildcard_versions(member.manifest) = {}
    /\ transitive_forbidden_edges(resolve_adjacency(tree.nodes)) = {}
    /\ LockViolations(tree) = {}
    /\ "Cargo.lock" \in tree.locks => proton_train_violations(tree.lines, train) = {}
    /\ wildcard_versions(tree.manifest) = {}

-----------------------------------------------------------------------------
(* Licences.                                                                *)

GPL3_COMPATIBLE ==
    {"MIT", "MIT-0", "Apache-2.0", "BSD-1-Clause", "BSD-2-Clause", "BSD-3-Clause", "ISC",
     "Zlib", "0BSD", "Unlicense", "MPL-2.0", "GPL-2.0-or-later", "LGPL-2.1-or-later",
     "LGPL-3.0-or-later", "BSL-1.0", "CC0-1.0", "Unicode-3.0", "Unicode-DFS-2016",
     "CDLA-Permissive-2.0", "bzip2-1.0.6", "WTFPL"}

single(id) ==
    CASE id \in {"GPL-3.0", "GPL-3.0-only", "GPL-3.0-or-later"} -> "Compatible"
      [] id \in {"GPL-2.0", "GPL-2.0-only"} -> "Incompatible"
      [] id \in GPL3_COMPATIBLE -> "Compatible"
      [] OTHER -> "Unrecognized"

or(a, b) ==
    IF "Unrecognized" \in {a, b} THEN "Unrecognized"
    ELSE IF "Compatible" \in {a, b} THEN "Compatible" ELSE "Incompatible"

and(a, b) ==
    IF "Unrecognized" \in {a, b} THEN "Unrecognized"
    ELSE IF "Incompatible" \in {a, b} THEN "Incompatible" ELSE "Compatible"

\* The parser: a result is the verdict and the place after what was read.
peek(tokens, pos) == IF pos \in DOMAIN tokens THEN tokens[pos] ELSE ""
Read(verdict, pos) == [verdict |-> verdict, pos |-> pos]

RECURSIVE parse_or(_, _), parse_primary(_, _), OrRest(_, _), AndRest(_, _)

parse_and(tokens, pos) == AndRest(tokens, parse_primary(tokens, pos))
parse_or(tokens, pos) == OrRest(tokens, parse_and(tokens, pos))

OrRest(tokens, read) ==
    LET next == parse_and(tokens, read.pos + 1)
    IN IF peek(tokens, read.pos) # "OR" THEN read
       ELSE OrRest(tokens, Read(or(read.verdict, next.verdict), next.pos))

AndRest(tokens, read) ==
    LET next == parse_primary(tokens, read.pos + 1)
    IN IF peek(tokens, read.pos) # "AND" THEN read
       ELSE AndRest(tokens, Read(and(read.verdict, next.verdict), next.pos))

parse_primary(tokens, pos) ==
    LET head == peek(tokens, pos)
        inner == parse_or(tokens, pos + 1)
    IN IF head = "("
       THEN IF peek(tokens, inner.pos) = ")" THEN Read(inner.verdict, inner.pos + 1)
            ELSE Read("Unrecognized", inner.pos)
       ELSE IF head \in {")", "OR", "AND", "WITH", ""} THEN Read("Unrecognized", pos)
       ELSE IF peek(tokens, pos + 1) # "WITH" THEN Read(single(head), pos + 1)
       ELSE IF peek(tokens, pos + 2) = "LLVM-exception" THEN Read(single(head), pos + 3)
       ELSE Read("Unrecognized", pos + 2)

\* classify: the field's words, with the old slash read as OR.
classify(words) ==
    LET tokens == [i \in DOMAIN words |-> IF words[i] = "/" THEN "OR" ELSE words[i]]
        read == parse_or(tokens, 1)
    IN IF read.pos # Len(tokens) + 1 THEN "Unrecognized" ELSE read.verdict

\* Packages are [name, license]; an empty licence is the baseline's business.
drift(unlicensed, known) == [newly_blocked |-> unlicensed \ known, resolved |-> known \ unlicensed]

scan_licenses(packages) ==
    {package.name : package \in {p \in packages : classify(p.license) # "Compatible"}}

license_scan(packages, known) ==
    LET bare == {package \in packages : package.license = <<>>}
    IN /\ drift({package.name : package \in bare}, known).newly_blocked = {}
       /\ scan_licenses(packages \ bare) = {}

\* The guard of a release tag: the scan runs on the tree being tagged; a scan
\* that cannot run blocks too.
release_guard_with(scan, marker) == scan = "passed" /\ marker

-----------------------------------------------------------------------------
(* The country table.                                                       *)

\* parse_csv_line over characters; <<>> is the error. The value of Field is
\* the fields read and the place of the next, 0 after the last.
CommaFrom(line, i) ==
    LET commas == {k \in i .. Len(line) : line[k] = ","}
    IN IF commas = {} THEN Len(line) + 1 ELSE CHOOSE k \in commas : \A j \in commas : k <= j

\* The contents of a quoted field from i on, and the place after its quote.
RECURSIVE Quoted(_, _, _)
Quoted(line, i, field) ==
    CASE i > Len(line) -> [field |-> field, next |-> 0]
      [] i <= Len(line) /\ line[i] # "\"" -> Quoted(line, i + 1, Append(field, line[i]))
      [] i < Len(line) /\ line[i] = "\"" /\ line[i + 1] = "\"" ->
            Quoted(line, i + 2, Append(field, "\""))
      [] OTHER -> [field |-> field, next |-> i + 1]

RECURSIVE Fields(_, _, _)
Fields(line, i, fields) ==
    LET quoted == Quoted(line, i + 1, <<>>)
        comma == CommaFrom(line, i)
        bare == SubSeq(line, i, comma - 1)
    IN IF i <= Len(line) /\ line[i] = "\""
       THEN CASE quoted.next = 0 -> <<>>
              [] quoted.next = Len(line) + 1 -> Append(fields, quoted.field)
              [] quoted.next \in 1 .. Len(line) ->
                    IF line[quoted.next] # "," THEN <<>>
                    ELSE Fields(line, quoted.next + 1, Append(fields, quoted.field))
       ELSE IF comma > Len(line) THEN Append(fields, bare)
       ELSE Fields(line, comma + 1, Append(fields, bare))

parse_csv_line(line) == Fields(line, 1, <<>>)

\* verify_csv. A file is [empty, newline, cr, utf8, header, rows]; a row is
\* [kind, shaped, named, code, m49, iso, region], its kind "row", "blank" or
\* "bad" (its fields cannot be read), iso a number in the order of the codes.
\* mapping takes region codes to regions; canonical is the pinned table, from
\* country codes to [m49, region].
RowViolations(row, mapping) ==
    IF row.kind # "row" THEN {row.kind}
    ELSE When(row.code \notin DOMAIN mapping, "code")
         \union When(~row.shaped, "shape")
         \union When(row.code \in DOMAIN mapping /\ row.region # mapping[row.code], "region")
         \union When(~row.named, "name")

OrderViolations(rows) ==
    When(\E i, j \in DOMAIN rows : i < j /\ rows[i].iso = rows[j].iso, "duplicate")
    \union When(\E i \in 1 .. Len(rows) - 1 : rows[i].iso >= rows[i + 1].iso, "unsorted")

\* The last row of each country against the pinned table.
TableViolations(rows, canonical) ==
    LET seen == {rows[i].iso : i \in DOMAIN rows}
        last(iso) == rows[CHOOSE i \in DOMAIN rows :
                            /\ rows[i].iso = iso
                            /\ \A j \in DOMAIN rows : rows[j].iso = iso => j <= i]
        drifted(iso) == \/ last(iso).m49 # canonical[iso].m49
                        \/ last(iso).region # canonical[iso].region
    IN When(~(DOMAIN canonical \subseteq seen), "missing")
       \union When(~(seen \subseteq DOMAIN canonical), "outside")
       \union When(\E iso \in seen \intersect DOMAIN canonical : drifted(iso), "drifted")

verify_csv(file, mapping, canonical, minimum) ==
    LET read == SelectSeq(file.rows, LAMBDA row : row.kind = "row")
        regions == {mapping[code] : code \in DOMAIN mapping}
        format == When(~file.newline, "newline") \union When(file.cr, "cr")
    IN IF file.empty THEN {"empty"}
       ELSE IF ~file.utf8 THEN format \union {"utf8"}
       ELSE format \union When(~file.header, "header")
            \union UNION {RowViolations(file.rows[i], mapping) : i \in DOMAIN file.rows}
            \union OrderViolations(read)
            \union When(Len(file.rows) < minimum, "rows")
            \union When(~(regions \subseteq {read[i].region : i \in DOMAIN read}), "regions")
            \union TableViolations(read, canonical)

\* m49-verify: the recorded checksum and date, the file, its contract. digest
\* is what the file hashes to, "" for a file that is not there.
m49_verify(recorded, digest, file, mapping, canonical, minimum) ==
    /\ recorded.well_formed /\ recorded.dated
    /\ digest # "" /\ digest = recorded.sha256
    /\ verify_csv(file, mapping, canonical, minimum) = {}

-----------------------------------------------------------------------------
(* The gate on the parity manifest docs/official-parity.yaml (manifest.rs): *)
(* the frozen vocabulary, the evidence the capabilities cite, the upstream  *)
(* pins against what Cargo.lock resolved, and the capabilities themselves;  *)
(* and the gate on the table of groups (groups.rs). An optional value is a  *)
(* sequence of at most one element. pins holds the tables the gate is       *)
(* compiled with: the canonical capabilities and tests, the owners, areas and *)
(* official revisions; and, for the shape checks, which strings have the    *)
(* shape of a capability id (slugs), a test id (numbered) and a git revision *)
(* (hashes).                                                                *)

REQUIRED_STATUSES ==
    {"required", "implemented", "verified", "blocked-upstream", "not-applicable",
     "legacy-excluded"}

\* What must be one given value; a text that is more than blanks.
expect_value(actual, expected, what) == When(actual # <<expected>>, what)
Filled(text) == text # <<>> /\ text[1] # ""

-----------------------------------------------------------------------------
(* The lock file. A source is a git source or not, with its #fragment.      *)

git_rev_from_source(source) ==
    IF source # <<>> /\ source[1].git /\ Filled(source[1].fragment)
    THEN source[1].fragment ELSE <<>>

\* Lockfile::parse: nothing when two packages share a name and a version.
LockKey(package) == <<package.name, package.version>>
parse(packages) ==
    LET keys == {LockKey(packages[i]) : i \in DOMAIN packages}
        entry(key) == packages[CHOOSE i \in DOMAIN packages : LockKey(packages[i]) = key]
    IN IF \E i, j \in DOMAIN packages : i # j /\ LockKey(packages[i]) = LockKey(packages[j])
       THEN <<>>
       ELSE <<[checksums |-> [key \in keys |-> entry(key).checksum],
               git_revs |-> [key \in keys |-> git_rev_from_source(entry(key).source)]]>>
Locked(table, name, version) ==
    IF <<name, version>> \in DOMAIN table THEN table[<<name, version>>] ELSE <<>>

\* The recorded value against the resolved one; neither may be absent.
expect_lock_checksum(recorded, locked, what) == When(recorded = <<>> \/ recorded # locked, what)
expect_lock_revision(recorded, locked, what) == When(recorded = <<>> \/ recorded # locked, what)
expect_revision(actual, what, pins) ==
    When(actual = <<>> \/ actual[1] \notin pins.hashes, what)

-----------------------------------------------------------------------------
(* The upstream pins.                                                       *)

RESOLVED == [protun |-> "3.0.5", muon |-> "3.0.0", pvpnclient |-> "4.4.1"]

ResolvedPin(name, entry, lock, pins) ==
    expect_value(entry.version, RESOLVED[name], <<name, "version">>)
    \union IF name = "protun"
           THEN expect_value(entry.revision, pins.protun, <<name, "revision">>)
                \union expect_lock_revision(entry.revision,
                            Locked(lock.git_revs, name, RESOLVED[name]), <<name, "locked">>)
           ELSE expect_lock_checksum(entry.checksum_sha256,
                            Locked(lock.checksums, name, RESOLVED[name]), <<name, "locked">>)

OfficialPin(name, entry, pins) ==
    expect_revision(entry.revision, <<name, "shape">>, pins)
    \union expect_value(entry.revision, pins.official[name], <<name, "revision">>)

check_upstream(upstream, lock, pins) ==
    LET named == DOMAIN RESOLVED \union DOMAIN pins.official
        judged(name) ==
            CASE name \in DOMAIN RESOLVED -> ResolvedPin(name, upstream[1][name], lock, pins)
              [] name \in DOMAIN pins.official -> OfficialPin(name, upstream[1][name], pins)
              [] OTHER -> expect_revision(upstream[1][name].revision, <<name, "shape">>, pins)
    IN IF upstream = <<>> THEN {<<"upstream", "missing">>}
       ELSE {<<name, "missing">> : name \in named \ DOMAIN upstream[1]}
            \union UNION {judged(name) : name \in DOMAIN upstream[1]}

-----------------------------------------------------------------------------
(* The vocabulary and the evidence.                                         *)

check_status_definitions(defined) ==
    IF defined = <<>> THEN {"missing"}
    ELSE (REQUIRED_STATUSES \ defined[1]) \union (defined[1] \ REQUIRED_STATUSES)

is_evidence_url(source) == source.scheme \in {"https", "http"}
is_in_tree_path(source, tree) ==
    ~source.absolute /\ ~source.parent /\ source.text \in tree

check_sources(sources, tree) ==
    IF sources = <<>> THEN {}
    ELSE {key \in DOMAIN sources[1] :
            LET source == sources[1][key]
            IN ~(/\ source.string /\ source.text # ""
                 /\ is_evidence_url(source) \/ is_in_tree_path(source, tree))}

-----------------------------------------------------------------------------
(* The capabilities.                                                        *)

check_capability_ids(capabilities, pins) ==
    IF capabilities = <<>> THEN {}
    ELSE LET list == capabilities[1]
             actual == {list[i].id[1] : i \in {k \in DOMAIN list : list[k].id # <<>>}}
         IN (pins.capabilities \ actual) \union (actual \ pins.capabilities)

Out(status) == status \in {<<"not-applicable">>, <<"legacy-excluded">>}
OneOf(value, allowed) == value # <<>> /\ value[1] \in allowed

check_capability(c, statuses, sources, pins) ==
    IF c.id = <<>> THEN {"id"}
    ELSE When(c.id[1] \notin pins.slugs, "slug")
         \union When(~OneOf(c.area, pins.areas), "area")
         \union When(~OneOf(c.status, statuses), "status")
         \union When(~Filled(c.behavior), "behavior")
         \union When(~OneOf(c.owner, pins.owners), "owner")
         \union When(~(c.sources \subseteq sources), "sources")
         \union When(~Out(c.status) /\ c.tests = {}, "tests")
         \union When(\E test \in c.tests : test \notin pins.numbered \intersect pins.tests, "test")
         \union When(c.status = <<"verified">>
                        /\ (~Filled(c.verified_at) \/ c.tests = {} \/ c.sources = {}), "evidence")
         \union When(c.status = <<"blocked-upstream">> /\ ~Filled(c.blocker), "blocker")

check_capabilities(doc, pins) ==
    LET list == doc.capabilities[1]
        statuses == IF doc.status_definitions = <<>> THEN {} ELSE doc.status_definitions[1]
        sources == IF doc.sources = <<>> THEN {} ELSE DOMAIN doc.sources[1]
    IN IF doc.capabilities = <<>> THEN {"missing"}
       ELSE IF list = <<>> THEN {"empty"}
       ELSE When(\E i, j \in DOMAIN list : /\ i # j /\ list[i].id # <<>>
                                           /\ list[i].id = list[j].id, "duplicate")
            \union UNION {check_capability(list[i], statuses, sources, pins) : i \in DOMAIN list}

-----------------------------------------------------------------------------
(* The gate.                                                                *)

check_top_level_keys(doc) ==
    {key \in {"baseline", "client_contract", "upstream", "status_definitions", "sources",
              "capabilities"} : doc[key] = <<>>}

validate(doc, lock, tree, pins) ==
    /\ doc.schema_version = <<3>>
    /\ check_top_level_keys(doc) = {}
    /\ check_status_definitions(doc.status_definitions) = {}
    /\ check_sources(doc.sources, tree) = {}
    /\ check_upstream(doc.upstream, lock, pins) = {}
    /\ check_capability_ids(doc.capabilities, pins) = {}
    /\ check_capabilities(doc, pins) = {}

\* A lock file that cannot be trusted is an error, not a rule to skip.
manifest_validate(doc, packages, tree, pins) ==
    LET lock == parse(packages)
    IN IF lock = <<>> THEN "error"
       ELSE IF validate(doc, lock[1], tree, pins) THEN "passed" ELSE "failed"

-----------------------------------------------------------------------------
(* The gate on the built-in connection groups, docs/connection-groups.yaml  *)
(* (groups.rs): the contract, the physical-country rules, the taxonomy of   *)
(* regions, the golden table of entries, and the entries themselves.        *)
(*                                                                         *)
(* A list whose order is not looked at is a set. An id is its namespace and *)
(* its name. The golden table maps every canonical id to its entry, with    *)
(* all its fields: rest stands for those the structural rules never name.   *)

REQUIRED_CLIENT_SURFACES == <<"cli", "tui", "gui">>
ALLOWED_RANKING_SIGNALS ==
    {"proton-score", "load", "measured-latency", "stability", "feature-match", "history"}
REQUIRED_FORBIDDEN_SIGNALS == {"estimated-speed", "estimated-throughput"}
REQUIRED_RANKING_POLICIES ==
    {"proton-score", "balanced", "load", "latency", "random-country-then-server"}
REGIONAL_RANKING_OVERRIDES == {"proton-score", "balanced", "load", "latency"}
EXPECTED_FORBIDDEN_SOURCES ==
    {"vpn-exit", "account-country", "locale", "timezone", "third-party-geolocation"}
EXPECTED_REGIONS ==
    [africa |-> {"002"}, asia |-> {"142"}, europe |-> {"150"},
     north_america |-> {"021", "013", "029"}, south_america |-> {"005"}, oceania |-> {"009"}]
ALLOWED_DEFINITION_SOURCES == {"proton-api", "official-client-compat", "protonwire"}
ALLOWED_OVERRIDE_KEYS ==
    {"protocol", "nat", "lan_access", "entry_country", "exit_country",
     "exclude_physical_country", "connection_type", "selection_authority"}
ALLOWED_TARGET_KINDS ==
    {"fastest", "fastest-in-country", "fastest-in-region", "random", "secure-core"}

\* A list that must be there with exactly the expected members, or at least.
expect_set(actual, expected, what) == When(actual # <<expected>>, what)
Covers(actual, required, what) == When(actual = <<>> \/ ~(required \subseteq actual[1]), what)

Keys(optional) == IF optional = <<>> THEN {} ELSE optional[1]

-----------------------------------------------------------------------------
(* The document outside its groups.                                         *)

check_contract(contract) ==
    IF contract = <<>> THEN {"contract"}
    ELSE LET c == contract[1]
         IN expect_value(c.authoritative_owner, "protonwire-core", "owner")
            \union expect_value(c.listing_network_requests, "forbidden", "requests")
            \union expect_value(c.official_group_ranking_overrides, "forbidden", "official")
            \union expect_value(c.immutable_built_ins, TRUE, "immutable")
            \union expect_value(c.required_client_surfaces, REQUIRED_CLIENT_SURFACES, "surfaces")
            \union expect_set(c.allowed_ranking_signals, ALLOWED_RANKING_SIGNALS, "allowed")
            \union Covers(c.forbidden_ranking_signals, REQUIRED_FORBIDDEN_SIGNALS, "forbidden")
            \union Covers(c.ranking_policies, REQUIRED_RANKING_POLICIES, "policies")
            \union expect_set(c.regional_group_ranking_overrides, REGIONAL_RANKING_OVERRIDES,
                              "regional")

check_physical_country(country) ==
    IF country = <<>> THEN {"physical_country"}
    ELSE LET c == country[1]
         IN expect_value(c.on_demand_request_minimum_interval_hours, 3, "interval")
            \union expect_value(c.periodic_polling, "forbidden", "polling")
            \union expect_value(c.missing_policy, "physical-country-required", "missing_policy")
            \union expect_set(c.forbidden_sources, EXPECTED_FORBIDDEN_SOURCES, "forbidden_sources")

check_taxonomy(taxonomy) ==
    IF taxonomy = <<>> THEN {"regional_taxonomy"}
    ELSE LET t == taxonomy[1]
             codes(name) == IF name \in DOMAIN t.primary_regions[1]
                            THEN t.primary_regions[1][name] ELSE <<>>
         IN expect_value(t.id, "un-m49-six-continent-view", "id")
            \union expect_value(t.required_path, "resources/geo/un-m49.csv", "required_path")
            \union IF t.primary_regions = <<>> THEN {"primary_regions"}
                   ELSE When(DOMAIN t.primary_regions[1] # DOMAIN EXPECTED_REGIONS, "names")
                        \union UNION {expect_set(codes(name), EXPECTED_REGIONS[name], name) :
                                      name \in DOMAIN EXPECTED_REGIONS}

\* Every entry is its golden one, and every golden one has an entry.
check_golden_groups_table(groups, golden) ==
    IF groups = <<>> THEN {}
    ELSE {i \in DOMAIN groups[1] :
            LET g == groups[1][i]
            IN g.id = <<>> \/ g.id[1] \notin DOMAIN golden \/ g # golden[g.id[1]]}
         \union When(\E id \in DOMAIN golden : \A i \in DOMAIN groups[1] : groups[1][i].id # <<id>>, 0)

-----------------------------------------------------------------------------
(* The groups.                                                              *)

check_target(target, regions) ==
    IF target = <<>> THEN {"target"}
    ELSE LET t == target[1]
             is(kind) == t.kind = <<kind>>
         IN When(~OneOf(t.kind, ALLOWED_TARGET_KINDS), "kind")
            \union When(is("fastest-in-country") /\ t.country = <<>>, "country")
            \union When(is("secure-core") /\ t.entry_country = <<>>, "entry_country")
            \union When(is("secure-core") /\ t.exit_country = <<>>, "exit_country")
            \union When(is("fastest-in-region") /\ ~OneOf(t.region, regions), "region")

\* known: the policies, sources, regions and regional overrides the document
\* itself defines. A group in neither namespace is judged no further.
check_group(g, known) ==
    IF g.id = <<>> THEN {"id"}
    ELSE IF g.id[1].namespace \notin {"proton", "protonwire"} THEN {"namespace"}
    ELSE When(~OneOf(g.definition_source, ALLOWED_DEFINITION_SOURCES), "definition_source")
         \union When(g.immutable # <<TRUE>>, "immutable")
         \union When(~OneOf(g.ranking_policy, known.policies), "ranking_policy")
         \union When(g.sources = <<>> \/ ~(Keys(g.sources) \subseteq known.sources), "sources")
         \union When(IF g.id[1].namespace = "proton" THEN g.allowed_ranking_overrides # <<>>
                     ELSE ~(Keys(g.allowed_ranking_overrides) \subseteq known.overrides),
                     "allowed_ranking_overrides")
         \union check_target(g.target, known.regions)
         \union When(~(Keys(g.overrides) \subseteq ALLOWED_OVERRIDE_KEYS), "overrides")

\* What the groups may refer to; what is missing defines nothing.
Defined(doc) ==
    LET of(part, key) == IF part = <<>> THEN {} ELSE Keys(part[1][key])
        regions == IF doc.regional_taxonomy = <<>> THEN <<>>
                   ELSE doc.regional_taxonomy[1].primary_regions
    IN [policies |-> of(doc.contract, "ranking_policies"), sources |-> Keys(doc.sources),
        regions |-> IF regions = <<>> THEN {} ELSE DOMAIN regions[1],
        overrides |-> of(doc.contract, "regional_group_ranking_overrides")]

\* The ids are compared as sorted lists: each canonical one once.
check_groups(doc, ids) ==
    LET list == doc.groups[1]
        listed(id) == {i \in DOMAIN list : list[i].id = <<id>>}
    IN IF doc.groups = <<>> THEN {"groups"}
       ELSE When(Len(list) # Cardinality(ids), "count")
            \union When(\/ \E id \in ids : Cardinality(listed(id)) # 1
                        \/ \E i \in DOMAIN list : list[i].id # <<>> /\ list[i].id[1] \notin ids,
                        "ids")
            \union When(\E i, j \in DOMAIN list : /\ i # j /\ list[i].id # <<>>
                                                  /\ list[i].id = list[j].id, "duplicate")
            \union UNION {check_group(list[i], Defined(doc)) : i \in DOMAIN list}

groups_validate(doc, golden) ==
    /\ doc.schema_version = <<1>> /\ Filled(doc.catalog_revision)
    /\ check_contract(doc.contract) = {}
    /\ check_physical_country(doc.physical_country) = {}
    /\ check_taxonomy(doc.regional_taxonomy) = {}
    /\ check_golden_groups_table(doc.groups, golden) = {}
    /\ check_groups(doc, DOMAIN golden) = {}
=============================================================================

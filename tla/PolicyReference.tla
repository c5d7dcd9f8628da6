-------------------------- MODULE PolicyReference --------------------------
(***************************************************************************)
(* Questions put to the configuration loader: a document at a path, a       *)
(* user's overlay over a system document, a text before the YAML parser.    *)
(***************************************************************************)
EXTENDS Configuration

-----------------------------------------------------------------------------
(* A document at a path.                                                    *)

Component(kind, writers, uid, gid) == [kind |-> kind, writers |-> writers, uid |-> uid, gid |-> gid]
PathOf(components) ==
    [absolute |-> TRUE, dots |-> FALSE, under_root |-> TRUE, components |-> components]

Entries(kind) ==
    {Component(kind, {}, 0, 0), Component(kind, {"group"}, 0, 0), Component(kind, {}, 7, 0),
     Component(kind, {}, 0, 7)}
Files == Entries("file") \cup
    {Component(kind, {}, 0, 0) : kind \in {"absent", "hidden", "link", "directory"}}
Above == Entries("directory") \cup
    {Component(kind, {}, 0, 0) : kind \in {"absent", "link", "file"}}

Paths ==
    LET clean == PathOf(<<Component("file", {}, 0, 0), Component("directory", {}, 0, 0)>>)
    IN {PathOf(<<leaf, parent, root>>) : leaf \in Files, parent \in Above, root \in Above}
       \cup {[clean EXCEPT !.absolute = FALSE], [clean EXCEPT !.dots = TRUE],
             [clean EXCEPT !.under_root = FALSE]}

DocumentOf(content) ==
    [bytes |-> 10, utf8 |-> TRUE, anchors |-> FALSE, parses |-> TRUE, nodes |-> 10, depth |-> 3,
     fits |-> TRUE, content |-> content]

Plain == DocumentOf(SystemConfig)
Damaged ==
    {[Plain EXCEPT !.bytes = 2^20 + 1], [Plain EXCEPT !.utf8 = FALSE],
     [Plain EXCEPT !.anchors = TRUE], [Plain EXCEPT !.parses = FALSE],
     [Plain EXCEPT !.nodes = 100001], [Plain EXCEPT !.depth = MAX_YAML_DEPTH + 1],
     [Plain EXCEPT !.fits = FALSE]}

\* Documents at the edge of a rule, on either side of it.
Edges ==
    LET cache(c) == [SystemConfig EXCEPT !.server_selection.metadata_cache = c]
        probe(p) == [SystemConfig EXCEPT !.server_selection.latency_probe = p]
        mtu(m) == [SystemConfig EXCEPT !.connection.protun.mtu = m]
    IN {SystemConfig, [SystemConfig EXCEPT !.schema_version = 1]}
       \cup {cache([MetadataCacheSection EXCEPT !.refresh_interval_hours = n]) : n \in {2, 3}}
       \cup {cache([MetadataCacheSection EXCEPT !.max_positive_jitter_minutes = n]) :
                n \in {60, 61}}
       \cup {probe([LatencyProbeSection EXCEPT !.parallelism = n]) : n \in {0, 1, 64, 65}}
       \cup {probe([LatencyProbeSection EXCEPT !.round_deadline_ms = n]) :
                n \in {249, 250, 9500, 9501}}
       \cup {[SystemConfig EXCEPT !.server_selection.balanced_weights =
                [load |-> l, latency |-> 100 - l, stability |-> s, feature_match |-> 0]] :
                l \in {-1, 0, 50}, s \in {0, 1}}
       \cup {mtu(m) : m \in {AUTO_MTU, 127, 128, 9000, 9001}}
       \cup {[SystemConfig EXCEPT !.dns = [DnsSection EXCEPT !.mode = mode,
                !.custom_servers = servers, !.policy = policy, !.leak_protection = leak]] :
                mode \in {"proton", "custom"}, servers \in {<<>>, <<"192.0.2.1">>},
                policy \in {"through-vpn", "bypass-vpn"}, leak \in {"strict", "off"}}
       \cup {[SystemConfig EXCEPT !.features = [FeaturesSection EXCEPT !.port_forwarding = pf,
                !.nat = nat, !.kill_switch = kill]] :
                pf \in BOOLEAN, nat \in {"strict", "moderate", "open"},
                kill \in {"off", "on", "permanent"}}

-----------------------------------------------------------------------------
(* Overlays.                                                                *)

Overlays ==
    {[UserOverlay EXCEPT !.schema_version = version, !.features = features,
        !.connection = connection, !.selection = selection] :
        version \in {1, EXPECTED_SCHEMA_VERSION},
        features \in {<<>>, [kill_switch |-> "off"], [nat |-> "moderate"],
                      [port_forwarding |-> TRUE], [port_forwarding |-> TRUE, nat |-> "moderate"],
                      [netshield |-> "loud"]},
        connection \in {<<>>, [protocol |-> "stealth"]},
        selection \in {<<>>, [by |-> "load"], [by |-> "luck"]}}

OverlayFile(kind, document) == [kind |-> kind, document |-> document]
NoFile == OverlayFile("absent", DocumentOf(<<UserOverlay>>))
OverlayFiles ==
    {NoFile, OverlayFile("directory", DocumentOf(<<UserOverlay>>))}
    \cup {OverlayFile("file", DocumentOf(<<overlay>>)) : overlay \in Overlays}
    \cup {OverlayFile("file", [DocumentOf(<<UserOverlay>>) EXCEPT !.anchors = TRUE])}

-----------------------------------------------------------------------------
Asks(q) ==
    \/ \E path \in Paths, strict \in BOOLEAN, document \in {Plain} \cup Damaged :
          q = [kind |-> "load", path |-> path, strict |-> strict, document |-> document]
    \/ \E config \in Edges :
          q = [kind |-> "load", strict |-> FALSE, document |-> DocumentOf(config),
               path |-> PathOf(<<Component("file", {}, 0, 0)>>)]
    \/ \E system \in {c \in Edges : try_from(c) /\ validate(c) = {}}, mine \in OverlayFiles,
          theirs \in {NoFile, OverlayFile("file", [Plain EXCEPT !.parses = FALSE])} :
          q = [kind |-> "overlay", system |-> system, files |-> <<mine, theirs>>]
    \/ \E text \in Documents, break \in Breaks :
          q = [kind |-> "yaml", text |-> text, break |-> break]

Answer(q) ==
    CASE q.kind = "load" -> load_inner(q.path, q.document, q.strict)
      [] q.kind = "overlay" -> effective_config_for(q.system, q.files, 1)
      [] q.kind = "yaml" -> find_anchor_or_alias_token(Spelled(q.text, q.break))

-----------------------------------------------------------------------------
\* A strict load believes a document only when no one but root can have
\* written it or replaced a directory above it; the defaults stand in for an
\* absent file only, never for one that is damaged or out of the rules; and
\* what is loaded keeps the bounds the daemon's loops are built on
\* (verify_trusted_path, load_inner, validate).
LoadFailsClosed(q, a) ==
    LET exists(c) == c.kind \in {"file", "directory"}
        roots(c) == c.uid = ROOT_UID /\ c.gid = ROOT_GID /\ c.writers = {}
        selection == a.content.server_selection
    IN a.err = "" =>
         /\ q.strict =>
              /\ q.path.absolute /\ ~q.path.dots /\ q.path.under_root
              /\ \A c \in ToSet(q.path.components) : c.kind = "absent" \/ (exists(c) /\ roots(c))
         /\ a.used_defaults <=> \E c \in ToSet(q.path.components) : c.kind = "absent"
         /\ ~a.used_defaults => q.document = DocumentOf(a.content)
         /\ selection.metadata_cache.refresh_interval_hours >= 3
         /\ selection.latency_probe.parallelism \in 1 .. 64
         /\ selection.latency_probe.round_deadline_ms < 10000
         /\ \A k \in DOMAIN selection.balanced_weights : selection.balanced_weights[k] >= 0
         /\ ~(a.content.features.port_forwarding /\ a.content.features.nat # "strict")

\* A user's file changes what is the user's and nothing else: the sections
\* the administrator has authority over stay, a permanent kill switch stays
\* on, the rules bind the result, another user's file has no part in it, and
\* a file that is refused refuses the answer (effective_config_for).
EffectiveIsWithinAuthority(q, a) ==
    LET effective == a.read.content
        document == q.files[1].document
    IN /\ a.code = "" =>
            /\ \A section \in DOMAIN q.system :
                  authority_report[section] = "System" => effective[section] = q.system[section]
            /\ q.system.features.kill_switch = "permanent" =>
                  effective.features.kill_switch = "permanent"
            /\ validate(effective) = {} /\ try_from(effective)
            /\ q.files[1] # NoFile =>
                  /\ q.files[1].kind = "file" /\ ~document.anchors
                  /\ document.content[1].schema_version = EXPECTED_SCHEMA_VERSION
       /\ q.files[1] = NoFile => a.code = "" /\ effective = q.system

Right(q, a) ==
    CASE q.kind = "load" -> LoadFailsClosed(q, a)
      [] q.kind = "overlay" -> EffectiveIsWithinAuthority(q, a)
      [] q.kind = "yaml" -> a = FirstNamed(q.text)
=============================================================================

--------------------------- MODULE Configuration ---------------------------
(***************************************************************************)
(* The configuration documents of crates/store: the sections and their      *)
(* defaults (config/sections.rs), the cross-field rules and the load paths  *)
(* (config/mod.rs), the hardened YAML loader (yaml.rs) and the per-UID      *)
(* overlay (config/overlay.rs).                                             *)
(*                                                                         *)
(* A document is a record of sections. "" is an absent optional, weights    *)
(* are in hundredths and -1 is a weight that is negative or not finite.     *)
(***************************************************************************)
EXTENDS TrustWalk, FiniteSetsExt

EXPECTED_SCHEMA_VERSION == 2
MAX_YAML_DEPTH == 32

-----------------------------------------------------------------------------
(* The sections and their defaults.                                         *)

ConcreteStores == {"keyring", "tpm2", "encrypted-local"}

DaemonSection ==
    [socket_path |-> "", socket_group |-> "protonwire", interface_name |-> "protonwire0",
     log_level |-> "info", network_integration |-> "auto"]

AccountSection ==
    [writable_session_store |-> "auto",
     writable_store_priority |-> <<"keyring", "tpm2", "encrypted-local">>,
     credential_input_source |-> "interactive", import_provisioned_session |-> FALSE,
     allow_password_storage |-> FALSE, prefer_token_storage |-> TRUE,
     encrypted_local_fallback |-> FALSE,
     systemd_credential_names |-> [session |-> "protonwire-session",
                                   username |-> "protonwire-username",
                                   password |-> "protonwire-password"]]

MetadataCacheSection ==
    [refresh_interval_hours |-> 3, max_positive_jitter_minutes |-> 10,
     conditional_requests |-> TRUE, emergency_max_age_hours |-> 24]

LatencyProbeSection ==
    [enabled |-> TRUE, max_candidates |-> 20, timeout_ms |-> 750,
     round_deadline_ms |-> 8000, parallelism |-> 4, result_min_age_minutes |-> 15,
     background_scan |-> FALSE, transport |-> "tcp-udp"]

BalancedWeights == [load |-> 40, latency |-> 40, stability |-> 15, feature_match |-> 5]

SecureCoreSection ==
    [enabled_by_default |-> FALSE, preferred_entry_countries |-> <<>>,
     excluded_entry_countries |-> <<>>, excluded_exit_countries |-> <<>>]

ServerSelectionSection ==
    [metadata_cache |-> MetadataCacheSection, latency_probe |-> LatencyProbeSection,
     balanced_weights |-> BalancedWeights, secure_core |-> SecureCoreSection,
     entitlement_fetch_budget_ms |-> 6000]

ConnectionGroupsSection ==
    [physical_country |-> "", region_taxonomy |-> "un-m49-six-continent-view",
     regional_default_ranking |-> "proton-score"]

\* The default target is its prefix; an MTU of -1 is spelled "auto".
AUTO_MTU == -1

ConnectionSection ==
    [default |-> "fastest", protocol |-> "smart",
     protun |-> [mtu |-> AUTO_MTU, sni_strategy |-> "random"],
     ipv6 |-> [mode |-> "auto"]]

FeaturesSection ==
    [secure_core |-> FALSE, kill_switch |-> "on", split_tunnel |-> "off",
     netshield |-> "ads-trackers-malware", port_forwarding |-> FALSE,
     nat |-> "strict", vpn_accelerator |-> TRUE]

DnsSection ==
    [mode |-> "proton", custom_servers |-> <<>>, policy |-> "through-vpn",
     leak_protection |-> "strict", externally_managed_resolvers |-> <<>>]

LanSection ==
    [policy |-> "allow",
     allowed_cidrs |-> <<"10.0.0.0/8", "172.16.0.0/12", "192.168.0.0/16",
                         "fd00::/8", "fe80::/10">>]

SplitTunnelSection ==
    [mode |-> "off", attach_existing_processes |-> FALSE,
     domains |-> [enabled |-> TRUE, resolver_observation |-> TRUE,
                  refresh_on_ttl |-> TRUE, rules |-> <<>>]]

AutoConnectSection ==
    [enabled |-> FALSE, target |-> "fastest",
     retry |-> [max_attempts |-> 0, initial_delay_seconds |-> 2,
                max_delay_seconds |-> 300, jitter |-> TRUE]]

ProfilesSection ==
    [default |-> [connection_type |-> "standard", protocol |-> "smart",
                  selection |-> [mode |-> "fastest", by |-> "official",
                                 exclude_countries |-> <<>>, require |-> <<>>]]]

SystemConfig ==
    [schema_version |-> EXPECTED_SCHEMA_VERSION, daemon |-> DaemonSection,
     account |-> AccountSection, server_selection |-> ServerSelectionSection,
     connection_groups |-> ConnectionGroupsSection, connection |-> ConnectionSection,
     features |-> FeaturesSection, dns |-> DnsSection, lan |-> LanSection,
     split_tunnel |-> SplitTunnelSection, auto_connect |-> AutoConnectSection,
     profiles |-> ProfilesSection]

\* authority_report: who may set the fields of each section.
authority_report ==
    [section \in DOMAIN SystemConfig |->
        IF section \in {"features", "profiles"} THEN "PerUser" ELSE "System"]

-----------------------------------------------------------------------------
(* The vocabularies: a closed set of spellings each, anything else is       *)
(* refused by the typed schema.                                             *)

WritableSessionStore == {"auto", "keyring", "tpm2", "encrypted-local", "none"}
CredentialInputSource == {"interactive", "systemd"}
NetworkIntegrationMode == {"auto", "native", "network-manager", "networkd"}
ProbeTransport == {"tcp-udp", "icmp"}
RegionalRanking == {"proton-score", "balanced", "load", "latency"}
RegionTaxonomy == {"un-m49-six-continent-view"}
ProtocolMode == {"smart", "wireguard-udp", "wireguard-tcp", "stealth"}
Ipv6Mode == {"auto", "enabled", "disabled"}
KillSwitchMode == {"off", "on", "permanent"}
SplitTunnelMode == {"off", "exclude", "include"}
NetShieldLevel == {"off", "malware", "ads-trackers-malware", "adult-ads-trackers-malware"}
NatMode == {"strict", "moderate"}
DnsMode == {"proton", "custom", "system", "none"}
DnsPolicy == {"through-vpn", "bypass-vpn", "system-default"}
DnsLeakProtection == {"strict", "off"}
LanPolicy == {"allow", "block"}
ConnectionType == {"standard", "secure-core", "p2p", "tor", "gateway"}
ProfileRanking == {"official", "balanced", "load", "latency"}

\* TryFrom of every vocabulary a document uses.
try_from(config) ==
    /\ {config.account.writable_session_store}
           \cup ToSet(config.account.writable_store_priority) \subseteq WritableSessionStore
    /\ config.account.credential_input_source \in CredentialInputSource
    /\ config.daemon.network_integration \in NetworkIntegrationMode
    /\ config.server_selection.latency_probe.transport \in ProbeTransport
    /\ config.connection_groups.regional_default_ranking \in RegionalRanking
    /\ config.connection_groups.region_taxonomy \in RegionTaxonomy
    /\ {config.connection.protocol, config.profiles.default.protocol} \subseteq ProtocolMode
    /\ config.connection.ipv6.mode \in Ipv6Mode
    /\ config.features.kill_switch \in KillSwitchMode
    /\ {config.features.split_tunnel, config.split_tunnel.mode} \subseteq SplitTunnelMode
    /\ config.features.netshield \in NetShieldLevel
    /\ config.features.nat \in NatMode
    /\ config.dns.mode \in DnsMode
    /\ config.dns.policy \in DnsPolicy
    /\ config.dns.leak_protection \in DnsLeakProtection
    /\ config.lan.policy \in LanPolicy
    /\ config.profiles.default.connection_type \in ConnectionType
    /\ config.profiles.default.selection.by \in ProfileRanking

-----------------------------------------------------------------------------
(* The cross-field rules.                                                   *)

ipc_budget_violation(value) == value \notin 250 .. 9500

\* Every rule, and whether the document breaks it.
Rules(config) ==
    LET cache == config.server_selection.metadata_cache
        probe == config.server_selection.latency_probe
        weights == config.server_selection.balanced_weights
        weight(k) == weights[k]
        mtu == config.connection.protun.mtu
    IN [schema_version |-> config.schema_version # EXPECTED_SCHEMA_VERSION,
        refresh_interval_hours |-> cache.refresh_interval_hours < 3,
        max_positive_jitter_minutes |-> cache.max_positive_jitter_minutes > 60,
        balanced_weights |-> \/ \E k \in DOMAIN weights : weight(k) < 0
                             \/ MapThenSumSet(weight, DOMAIN weights) # 100,
        background_scan |-> probe.background_scan,
        parallelism |-> probe.parallelism \notin 1 .. 64,
        round_deadline_ms |-> ipc_budget_violation(probe.round_deadline_ms),
        entitlement_fetch_budget_ms |->
            ipc_budget_violation(config.server_selection.entitlement_fetch_budget_ms),
        port_forwarding |-> config.features.port_forwarding
                            /\ config.features.nat = "moderate",
        custom_servers |-> config.dns.mode = "custom" /\ config.dns.custom_servers = <<>>,
        leak_protection |-> config.dns.policy \in {"bypass-vpn", "system-default"}
                            /\ config.dns.leak_protection # "off",
        writable_store_priority |->
            ~(ToSet(config.account.writable_store_priority) \subseteq ConcreteStores),
        ttl_policy |-> \E rule \in ToSet(config.split_tunnel.domains.rules) :
                            rule.ttl_policy # "respect_dns_ttl",
        mtu |-> mtu \notin {AUTO_MTU} \cup 128 .. 9000,
        default |-> config.connection.default \notin
                        {"fastest", "random", "last", "group:", "profile:"}]

validate(config) == {rule \in DOMAIN Rules(config) : Rules(config)[rule]}

-----------------------------------------------------------------------------
(* Loading a document.                                                      *)

Failed(err) == [err |-> err]

\* enforce_structure, of the parsed document's node count and depth.
enforce_structure(document) ==
    IF document.nodes > 100000 THEN "TooManyNodes"
    ELSE IF document.depth > MAX_YAML_DEPTH THEN "TooDeep" ELSE ""

\* from_slice and from_str: the layers a document passes, in order. The
\* content is what the typed schema makes of it.
from_slice(document) ==
    IF document.bytes > 2^20 THEN Failed("TooLarge")
    ELSE IF ~document.utf8 THEN Failed("Utf8")
    ELSE IF document.anchors THEN Failed("AnchorsForbidden")
    ELSE IF ~document.parses THEN Failed("Parse")
    ELSE IF enforce_structure(document) # "" THEN Failed(enforce_structure(document))
    ELSE IF ~document.fits THEN Failed("Parse")
    ELSE [err |-> "", content |-> document.content]

\* SystemConfig::load_inner: the walk when strict, the read, the rules. Only
\* an absent file is soft.
load_inner(path, document, strict) ==
    LET untrusted == IF strict THEN verify_trusted_path(path, "Allow") ELSE ""
        leaf == path.components[1].kind
        absent == \E c \in ToSet(path.components) : c.kind = "absent"
        read == from_slice(document)
    IN IF untrusted # "" THEN Failed(untrusted)
       ELSE IF absent
       THEN [err |-> "", content |-> SystemConfig, used_defaults |-> TRUE]
       ELSE IF leaf # "file" THEN Failed("Io")
       ELSE IF read.err # "" THEN read
       ELSE IF ~try_from(read.content) THEN Failed("Parse")
       ELSE IF validate(read.content) # {} THEN Failed("Validation")
       ELSE [err |-> "", content |-> read.content, used_defaults |-> FALSE]

-----------------------------------------------------------------------------
(* The per-UID overlay: its fields are partial sections.                    *)

UserOverlay ==
    [schema_version |-> 0, default_output |-> "", features |-> <<>>,
     connection |-> <<>>, selection |-> <<>>]

\* What UserOverlay::merged_over puts together: present fields replace the
\* system's, under the administrator's permanent kill switch.
Merged(overlay, system) ==
    LET features == overlay.features @@ system.features
        profile == system.profiles.default
    IN [system EXCEPT
            !.features = [features EXCEPT !.kill_switch =
                IF system.features.kill_switch = "permanent" THEN "permanent" ELSE @],
            !.profiles.default = [overlay.connection @@ profile EXCEPT
                !.selection = overlay.selection @@ profile.selection]]

\* merged_over: the rules bind the merged document.
merged_over(overlay, system) ==
    IF validate(Merged(overlay, system)) # {} THEN Failed("Merge")
    ELSE [err |-> "", content |-> Merged(overlay, system)]

\* UserOverlay::load_for_uid; NoOverlay when the file is absent.
NoOverlay == [err |-> "", content |-> <<>>]

load_for_uid(file) ==
    LET read == from_slice(file.document) IN
    IF file.kind = "absent" THEN NoOverlay
    ELSE IF file.kind # "file" THEN Failed("Io")
    ELSE IF read.err # "" THEN read
    ELSE IF ~try_from(Merged(read.content[1], SystemConfig)) THEN Failed("Parse")
    ELSE IF read.content[1].schema_version # EXPECTED_SCHEMA_VERSION
    THEN Failed("Validation")
    ELSE read

effective_config(system, file) ==
    LET loaded == load_for_uid(file) IN
    IF loaded.err # "" THEN loaded
    ELSE IF loaded = NoOverlay THEN [err |-> "", content |-> system]
    ELSE merged_over(loaded.content[1], system)

\* effective_config_for: the configuration a peer is answered from, its own
\* file being the only one its uid names. A file that is refused refuses the
\* answer, and the system document never stands in for it.
effective_config_for(system, files, uid) ==
    LET effective == effective_config(system, files[uid])
    IN [code |-> IF effective.err # "" THEN "ConfigInvalid" ELSE "", read |-> effective]

-----------------------------------------------------------------------------
(* The scan of yaml.rs that refuses a document which names an anchor or an  *)
(* alias, before any parser sees it. The scan keeps a model of where the    *)
(* parser would start a node, one character at a time. A text is a sequence *)
(* of characters; BOM stands for U+FEFF, NEL for the line breaks beyond     *)
(* ASCII (U+0085, U+2028, U+2029).                                          *)

BOM == "~"
NEL == "%"

Blank == {" ", "\t"}
FlowIndicator == {",", "[", "]", "{", "}"}
Spacing == Blank \union FlowIndicator \union {":", "-", "?"}

\* normalize_line_breaks: every break of the parser becomes one "\n".
normalize_line_breaks(text) ==
    LET broken == [i \in DOMAIN text |-> IF text[i] \in {"\r", NEL} THEN "\n" ELSE text[i]]
        crlf(i) == i > 1 /\ text[i] = "\n" /\ text[i - 1] = "\r"
        next(out, i) == IF crlf(i) THEN out ELSE Append(out, broken[i])
    IN FoldLeft(next, <<>>, [i \in DOMAIN text |-> i])

Lines(text) ==
    LET next(lines, c) == IF c = "\n" THEN Append(lines, <<>>)
                          ELSE [lines EXCEPT ![Len(lines)] = Append(@, c)]
    IN FoldLeft(next, <<<<>>>>, text)

At(line, i) == IF i \in DOMAIN line THEN {line[i]} ELSE {}
SpacedOrEol(line, i) == At(line, i) \subseteq Blank

\* The first place from i on whose character is in stops, or one past the end.
Until(line, i, stops) ==
    LET hits == {k \in i .. Len(line) : line[k] \in stops}
    IN IF hits = {} THEN Len(line) + 1 ELSE CHOOSE k \in hits : \A j \in hits : k <= j

Indent(line) == Until(line, 1, {line[k] : k \in DOMAIN line} \ Blank) - 1

-----------------------------------------------------------------------------
(* The scanner: open quotes, the indentation an open block scalar must      *)
(* exceed (-1: none), flow nesting, a plain scalar in flight in block and   *)
(* in flow context, whether a node may start here, whether the character    *)
(* before was a boundary, the place, and the line of the token found.       *)

Scanner ==
    [double |-> FALSE, single |-> FALSE, block |-> -1, depth |-> 0, pending |-> FALSE,
     ctx_indent |-> 0, flow_plain |-> FALSE, node |-> TRUE, spacing |-> TRUE, at |-> 1,
     found |-> 0]

NodeStarts(s) == [s EXCEPT !.node = TRUE, !.pending = FALSE, !.flow_plain = FALSE]
PlainContent(s) ==
    [s EXCEPT !.node = FALSE, !.pending = (s.depth = 0), !.flow_plain = (s.depth > 0)]
TokenEnds(s) == [s EXCEPT !.node = FALSE, !.flow_plain = FALSE]
SkipLine(line, s) == [s EXCEPT !.at = Len(line)]

\* Inside double quotes an odd run of backslashes makes the quote content.
in_double_quote(line, s) ==
    LET escapes == {k \in 1 .. s.at - 1 : \A j \in k .. s.at - 1 : line[j] = "\\"}
        closes == line[s.at] = "\"" /\ Len(SetToSeq(escapes)) % 2 = 0
    IN IF closes THEN [TokenEnds(s) EXCEPT !.double = FALSE] ELSE s

\* Inside single quotes a doubled quote is content.
in_single_quote(line, s) ==
    IF line[s.at] # "'" THEN s
    ELSE IF At(line, s.at + 1) = {"'"} THEN [s EXCEPT !.at = @ + 1]
    ELSE [TokenEnds(s) EXCEPT !.single = FALSE]

\* A quote opens only where a node starts.
Opens(s, quote) ==
    [s EXCEPT !.double = (quote = "\""), !.single = (quote = "'"), !.pending = FALSE,
              !.flow_plain = FALSE]

\* A comment runs to the end of the line and ends a plain scalar in flight.
Comment(line, s) == [SkipLine(line, s) EXCEPT !.pending = FALSE, !.flow_plain = FALSE]

\* * or & after a boundary: with a name it is the token looked for.
AnchorOrAlias(line, number, s) ==
    IF s.at < Len(line) /\ line[s.at + 1] \notin Blank \union FlowIndicator
    THEN [SkipLine(line, s) EXCEPT !.found = number]
    ELSE PlainContent(s)

\* A tag annotates the node after it: its characters are consumed (through >
\* for a verbatim tag) and the node is still to start.
Tag_Plain(line, s) == PlainContent(s)

Tag(line, s) ==
    LET verbatim == Until(line, s.at + 1, {">"})
        end == IF At(line, s.at + 1) = {"<"}
               THEN IF verbatim <= Len(line) THEN verbatim ELSE Len(line)
               ELSE Until(line, s.at + 1, Blank \union FlowIndicator \union {"#"}) - 1
    IN [NodeStarts(s) EXCEPT !.at = end]

\* | and > head a block scalar when only digits and + - follow.
BlockHeader(line, s) ==
    LET end == Until(line, s.at + 1, Blank \union {"#"}) - 1
        header == \A k \in s.at + 1 .. end : line[k] \in {"1", "2", "+", "-"}
    IN IF header THEN [SkipLine(line, s) EXCEPT !.block = Indent(line), !.pending = FALSE]
       ELSE [s EXCEPT !.node = FALSE, !.pending = TRUE]

\* A value or entry indicator; in block context its line's indentation is the
\* one a plain scalar's continuation must exceed.
Indicator(line, s) ==
    [NodeStarts(s) EXCEPT !.ctx_indent = IF s.depth = 0 THEN Indent(line) ELSE @]

\* --- at the head of a line, followed by a blank or the end.
DocumentStart(line, s) ==
    /\ s.at = 1 /\ s.node /\ s.depth = 0
    /\ At(line, 2) = {"-"} /\ At(line, 3) = {"-"} /\ SpacedOrEol(line, 4)

Arm(line, number, s) ==
    LET c == line[s.at]
        spaced == SpacedOrEol(line, s.at + 1)
    IN IF s.double THEN in_double_quote(line, s)
       ELSE IF s.single THEN in_single_quote(line, s)
       ELSE IF c \in {"\"", "'"} /\ s.node THEN Opens(s, c)
       ELSE IF c = "#" /\ s.spacing THEN Comment(line, s)
       ELSE IF c \in {"*", "&"} /\ s.spacing THEN AnchorOrAlias(line, number, s)
       ELSE IF c = "!" /\ s.node THEN Tag(line, s)
       ELSE IF c \in {"|", ">"} /\ s.node /\ s.depth = 0 THEN BlockHeader(line, s)
       ELSE IF c \in Blank THEN s
       ELSE IF c = ":" /\ (spaced \/ (s.depth > 0 /\ ~s.flow_plain)) THEN Indicator(line, s)
       ELSE IF c = "-" /\ DocumentStart(line, s) THEN [NodeStarts(s) EXCEPT !.at = 3]
       ELSE IF c = "-" /\ s.node /\ spaced THEN Indicator(line, s)
       ELSE IF c = "?" /\ s.node /\ (spaced \/ s.depth > 0) THEN Indicator(line, s)
       ELSE IF c = "," /\ s.depth > 0 THEN [s EXCEPT !.node = TRUE, !.flow_plain = FALSE]
       ELSE IF c \in {"[", "{"} /\ (s.depth > 0 \/ s.node)
       THEN [NodeStarts(s) EXCEPT !.depth = @ + 1]
       ELSE IF c \in {"]", "}"}
       THEN [TokenEnds(s) EXCEPT !.depth = IF @ > 0 THEN @ - 1 ELSE 0]
       ELSE PlainContent(s)

RECURSIVE Characters(_, _, _)
Characters(line, number, s) ==
    IF s.at > Len(line) \/ s.found > 0 THEN s
    ELSE Characters(line, number,
                    [Arm(line, number, s) EXCEPT !.at = @ + 1, !.spacing = line[s.at] \in Spacing])

\* One line: the content of an open block scalar is skipped; otherwise a node
\* starts at its head unless a plain scalar continues there, and one BOM at
\* such a head is transparent.
Line(line, number, s) ==
    LET indent == Indent(line)
        head == IF s.depth > 0 THEN ~s.flow_plain ELSE ~(s.pending /\ indent > s.ctx_indent)
        first == IF head /\ At(line, 1) = {BOM} THEN 2 ELSE 1
    IN IF s.block >= 0 /\ (indent = Len(line) \/ indent > s.block) THEN s
       ELSE Characters(line, number, [s EXCEPT !.block = -1, !.node = head, !.spacing = TRUE,
                                               !.at = first])

\* The line of the first anchor or alias, 0 for none.
find_anchor_or_alias_token(text) ==
    LET lines == Lines(normalize_line_breaks(text))
        next(s, number) == IF s.found > 0 THEN s ELSE Line(lines[number], number, s)
    IN FoldLeft(next, Scanner, [number \in DOMAIN lines |-> number]).found

-----------------------------------------------------------------------------
(* Documents of the grammar. Anchors and aliases are named x; the same      *)
(* marks before another letter are content of a quoted scalar, of a block   *)
(* scalar, of a comment or of a tag.                                        *)

Chars(string) == [i \in 1 .. Len(string) |-> SubSeq(string, i, i)]

Scalars == {"b", "b'c", "'b # c'", "'b'' &c'", "\"b\\\" *c\"", "\"\\\\\""}
Properties == {"", "&x ", "!t ", "!t'&b ", "!<,b> ", "!t &x "}
Nodes == {"*x"} \union {p \o scalar : p \in Properties, scalar \in Scalars}

\* Layouts of one node, and of two.
Single(n) ==
    {n, "- " \o n, "k: " \o n, "k:\n  " \o n, "--- " \o n, "# &b\nk: " \o n, BOM \o n,
     "k: b\n  'c\nl: " \o n, "k: |\n  &b '\n  # c\nl: " \o n, "- >-\n  *b\n\n- " \o n,
     "? " \o n \o "\n: b", "{'k':" \o n \o "}", "{? 'k # w' : " \o n \o "}",
     "[b:'c, " \o n \o "]", "k: b#c\n- " \o n}
Pair(n, m) ==
    {"[" \o n \o ", " \o m \o "]", "{k: " \o n \o ", 'l': " \o m \o "}",
     "- " \o n \o " # &b\n- " \o m, "k: " \o n \o "\nl:\n  - " \o m,
     "[" \o n \o ", # 'c\n  " \o m \o "]"}

\* The second of a pair is one of a few.
Seconds == {"*x", "b", "&x 'b # c'", "!t 'b # c'"}

Documents ==
    UNION {Single(n) : n \in Nodes} \union UNION {Pair(n, m) : n \in Nodes, m \in Seconds}

Breaks == {"\n", "\r", "\r\n", NEL}

\* A document, with its line breaks spelled one way.
Spelled(text, break) ==
    LET chars == Chars(text)
        next(out, c) == out \o (IF c = "\n" THEN Chars(break) ELSE <<c>>)
    IN FoldLeft(next, <<>>, chars)

\* Where the first anchor or alias stands, by its name.
FirstNamed(text) ==
    LET chars == Chars(text)
        named == {i \in 1 .. Len(chars) - 1 : chars[i] \in {"&", "*"} /\ chars[i + 1] = "x"}
        first == CHOOSE i \in named : \A j \in named : i <= j
    IN IF named = {} THEN 0
       ELSE 1 + Len(SelectSeq(SubSeq(chars, 1, first), LAMBDA c : c = "\n"))
=============================================================================

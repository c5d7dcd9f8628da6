--------------------------- MODULE WireDocuments ---------------------------
(***************************************************************************)
(* The documents and answers the account API gives the daemon: the         *)
(* entitlement and location readers, the catalog fetch with its pacing     *)
(* classification, and the free plan's change-server cooldown              *)
(* (crates/api/src), the catalog's value domains (store/src/catalog.rs)    *)
(* and the bridge to the scheduler (apps/daemon/src/services.rs); and the  *)
(* way out to the tunnel: the connection request's own vocabulary          *)
(* (protocol/src/params.rs), its translation into ProTUN's                 *)
(* (protocol/src/translate.rs), the TUN device (protocol/src/tun.rs), and  *)
(* ConnectionEngine::connect, which composes them (protocol/src/engine.rs).*)
(*                                                                         *)
(* A JSON value is [t |-> type, v |-> value]; an object is a function from *)
(* its keys to values.                                                     *)
(*                                                                         *)
(* A peer is [id, key, udp, tcp, tls, priority]; a transport it does not   *)
(* serve is <<>>, one it does is <<[entry_ip, ports]>>. An id is the       *)
(* sequence of its parts between slashes. A key is "" when it decodes,     *)
(* else what is wrong with it.                                             *)
(***************************************************************************)
EXTENDS Integers, Sequences, SequencesExt, FiniteSetsExt

CONSTANTS TIME_MAX,      \* the last representable SystemTime
          CEILING        \* RETRY_AFTER_CEILING_SECONDS

PROTON_RESULT_CODE_OK == 1000

FirstError(errors) ==
    LET at == SelectInSeq(errors, LAMBDA e : e # "none")
    IN  IF at = 0 THEN "none" ELSE errors[at]

Malformed(bad) == IF bad THEN "Malformed" ELSE "none"

reject_unknown_keys(object, known) == Malformed(~(DOMAIN object \subseteq known))

\* Null and an absent key are the same absence.
Present(object, field) == field \in DOMAIN object /\ object[field].t # "null"

require(object, field, type) ==
    Malformed(field \notin DOMAIN object \/ (field \in DOMAIN object /\ object[field].t # type))

optional(object, field, type) ==
    Malformed(Present(object, field) /\ object[field].t # type)

\* An optional field's value, as a set of at most one.
Opt(object, field) == IF Present(object, field) THEN {object[field].v} ELSE {}

ENVELOPE_KEYS  == {"Code", "Error", "Details", "VPN", "Subscribed", "Services",
                   "Delinquent", "Credit", "HasPaymentMethod"}
VPN_KEYS       == {"Status", "ExpirationTime", "PlanName", "PlanTitle", "MaxTier",
                   "MaxConnect", "Name", "GroupID", "IsBusiness", "NetShield"}
NETSHIELD_KEYS == {"Malware", "AdsAndTrackers", "AdultContent"}
KNOWN_KEYS     == {"Code", "Error", "Details", "IP", "Country", "ISP", "Lat", "Long"}

\* What both readers do first: the body is a JSON object with known keys only,
\* a Code other than 1000 is the upstream's refusal, and the metadata of a
\* success document is typed.
Envelope(value, known) ==
    IF value.t # "obj" THEN "Malformed"
    ELSE LET root == value.v
             code == FirstError(<<reject_unknown_keys(root, known), require(root, "Code", "int")>>)
         IN  IF code # "none" THEN code
             ELSE IF root["Code"].v # PROTON_RESULT_CODE_OK
               THEN FirstError(<<optional(root, "Error", "str"), "Api">>)
             ELSE FirstError(<<optional(root, "Error", "str"), optional(root, "Details", "obj")>>)

VpnAccess(status) ==
    CASE status = 0 -> "NoAccess" [] status = 1 -> "Active" [] status = 2 -> "Waitlisted"

PlanTier(max_tier) == {IF t = 0 THEN "Free" ELSE "Paid" : t \in max_tier}

NetShieldError(vpn) ==
    IF ~Present(vpn, "NetShield") THEN "none"
    ELSE IF vpn["NetShield"].t # "obj" THEN "Malformed"
    ELSE LET object == vpn["NetShield"].v
         IN  FirstError(<<reject_unknown_keys(object, NETSHIELD_KEYS)>>
                \o [i \in 1..3 |->
                      require(object, <<"Malware", "AdsAndTrackers", "AdultContent">>[i], "bool")])

VpnError(vpn) ==
    FirstError(<<
        reject_unknown_keys(vpn, VPN_KEYS),
        require(vpn, "Status", "int"),
        Malformed("Status" \in DOMAIN vpn /\ vpn["Status"].t = "int" /\ vpn["Status"].v \notin 0..2),
        optional(vpn, "MaxTier", "int"),
        Malformed(\E t \in Opt(vpn, "MaxTier") : vpn["MaxTier"].t = "int" /\ t < 0),
        NetShieldError(vpn),
        optional(vpn, "IsBusiness", "bool"),
        optional(vpn, "ExpirationTime", "int"),
        optional(vpn, "PlanName", "str"),
        optional(vpn, "PlanTitle", "str"),
        require(vpn, "MaxConnect", "int"),
        optional(vpn, "Name", "str"),
        optional(vpn, "GroupID", "str")>>)

\* VpnEntitlements::from_wire_bytes.  The paid allowances follow the plan
\* tier and are absent with it; the gateway allowance is the wire flag.
VpnEntitlements(value) ==
    LET envelope == Envelope(value, ENVELOPE_KEYS)
        root     == value.v
        error    == IF envelope # "none" THEN envelope
                    ELSE FirstError(<<
                       require(root, "Subscribed", "int"), require(root, "Services", "int"),
                       require(root, "Delinquent", "int"), optional(root, "Credit", "int"),
                       optional(root, "HasPaymentMethod", "int"), require(root, "VPN", "obj"),
                       IF "VPN" \in DOMAIN root /\ root["VPN"].t = "obj"
                         THEN VpnError(root["VPN"].v) ELSE "none">>)
    IN  IF error # "none" THEN [error |-> error]
        ELSE LET vpn  == root["VPN"].v
                 tier == PlanTier(Opt(vpn, "MaxTier"))
             IN  [error       |-> "none",
                  vpn_access  |-> VpnAccess(vpn["Status"].v),
                  max_tier    |-> Opt(vpn, "MaxTier"),
                  plan_tier   |-> tier,
                  netshield   |-> Present(vpn, "NetShield"),
                  paid        |-> {t = "Paid" : t \in tier},
                  gateway     |-> Opt(vpn, "IsBusiness"),
                  delinquent  |-> root["Delinquent"].v]

LATITUDE_RANGE  == 90
LONGITUDE_RANGE == 180

Outside(root, field, range) ==
    Malformed(Present(root, field) /\ root[field].t = "int" /\ root[field].v \notin (-range)..range)

\* UserLocation::from_wire_bytes.
UserLocation(value) ==
    LET envelope == Envelope(value, KNOWN_KEYS)
        root     == value.v
        error    == IF envelope # "none" THEN envelope
                    ELSE FirstError(<<
                       optional(root, "Lat", "int"), Outside(root, "Lat", LATITUDE_RANGE),
                       optional(root, "Long", "int"), Outside(root, "Long", LONGITUDE_RANGE),
                       require(root, "IP", "str"), require(root, "Country", "str"),
                       require(root, "ISP", "str")>>)
    IN  IF error # "none" THEN [error |-> error]
        ELSE [error     |-> "none",
              country   |-> root["Country"].v,
              latitude  |-> Opt(root, "Lat"),
              longitude |-> Opt(root, "Long")]

\* MuonEntitlements::fetch and MuonLocation::fetch: a failed exchange and an
\* HTTP refusal are transport-class, anything else is for the reader.
\* Status 0 stands for a failed exchange.
FetchDocument(response, read) ==
    IF response.status = 0 \/ response.status >= 400
      THEN [error |-> "Transport"] ELSE read

\* parse_retry_after: seconds only, clamped; every other shape is no delay.
\* -1 stands for an absent, dated or garbled header.
parse_retry_after(header) == IF header < 0 THEN {} ELSE {Min({header, CEILING})}

\* MuonCatalog::fetch: 429 and 503 are classified before anything else.
catalog_fetch(response) ==
    IF response.status = 0 THEN [kind |-> "Transport", delay |-> {}]
    ELSE IF response.status \in {429, 503}
      THEN [kind |-> "RateLimited", delay |-> parse_retry_after(response.retry_after)]
    ELSE IF response.status >= 400 THEN [kind |-> "Transport", delay |-> {}]
    ELSE IF response.status = 304 THEN [kind |-> "NotModified", delay |-> {}]
    ELSE [kind |-> "Changed", delay |-> {}]

\* bridge_fetch with CatalogService::fetch: what the scheduler sees.  An empty
\* cell is a transport failure.
bridge_fetch(installed, response) ==
    IF ~installed THEN [kind |-> "Failed", delay |-> {}]
    ELSE LET fetched == catalog_fetch(response)
         IN  IF fetched.kind = "Transport" THEN [kind |-> "Failed", delay |-> {}] ELSE fetched

MAX_CATALOG_BYTES == 4
MAX_LOGICAL_SERVERS == 2
MAX_PHYSICAL_SERVERS_TOTAL == 3

\* validate_value_domains, over servers [status, tier, load, servers].
InDomain(server) ==
    /\ server.status \subseteq 0..1
    /\ server.tier \in 0..3
    /\ server.load \subseteq 0..100
    /\ \A i \in DOMAIN server.servers : server.servers[i] \in 0..1

\* CatalogDocument::from_bytes.
CatalogDocument(document) ==
    LET logical  == document.logical_servers
        physical == FoldLeft(LAMBDA n, s : n + Len(s.servers), 0, logical)
    IN  IF document.bytes > MAX_CATALOG_BYTES THEN "TooLarge"
        ELSE IF ~document.parses THEN "Malformed"
        ELSE IF document.code # 1000 THEN "Api"
        ELSE IF Len(logical) > MAX_LOGICAL_SERVERS \/ physical > MAX_PHYSICAL_SERVERS_TOTAL
          THEN "TooManyServers"
        ELSE Malformed(\E i \in DOMAIN logical : ~InDomain(logical[i]))

FREE_CHANGE_SERVER_FIRST_COOLDOWN == 1
FREE_CHANGE_SERVER_COOLDOWN == 3

free_change_cooldown_window(changes_made) ==
    IF changes_made = 1 THEN FREE_CHANGE_SERVER_FIRST_COOLDOWN ELSE FREE_CHANGE_SERVER_COOLDOWN

\* change_server_eligibility: the time left, 0 when eligible.  `tier` and
\* `last` are sets of at most one.
change_server_eligibility(tier, last, now, window) ==
    IF tier # {"Free"} \/ last = {} THEN 0
    ELSE LET deadline == Min(last) + window
         IN  IF deadline > TIME_MAX \/ now >= deadline THEN 0 ELSE deadline - now

LOCATION_REQUEST_FLOOR_SECONDS == 3

\* location_request_due (store/src/location.rs), saturating.
location_request_due(last, now) ==
    \A fetched \in last : now >= Min({fetched + LOCATION_REQUEST_FLOOR_SECONDS, TIME_MAX})

-----------------------------------------------------------------------------
(* Where credentials come from and where a session may be kept: the         *)
(* writable-store resolution (store/src/writable_store.rs), the two         *)
(* credential input sources (credential_input.rs) and the daemon's startup  *)
(* read of them (apps/daemon/src/services.rs).                              *)

Vocabulary == {"none", "encrypted-local", "keyring", "auto", "tpm2"}

Resolved(store, skipped) == [store |-> store, skipped |-> skipped, error |-> "none"]
Unresolved(error)        == [store |-> "none", skipped |-> <<>>, error |-> error]

\* Why `auto` passes over a candidate; "implemented" when it does not.
SkipReason(candidate, available) ==
    CASE candidate = "encrypted-local"         -> "implemented"
      [] candidate = "keyring" /\ available    -> "implemented"
      [] candidate = "keyring" /\ ~available   -> "SecretServiceUnavailable"
      [] candidate = "tpm2"                    -> "NotImplementedInM2"
      [] candidate \in {"auto", "none"}        -> "NotAConcreteStore"

SkippedStore(candidate, available) ==
    [store |-> candidate, reason |-> SkipReason(candidate, available)]

\* `auto` takes the first implemented candidate and records those before it.
Auto(priority, available) ==
    LET at == SelectInSeq(priority, LAMBDA c : SkipReason(c, available) = "implemented")
    IN  IF at = 0
          THEN Unresolved("NoImplementedStore")
          ELSE Resolved(priority[at],
                        [i \in 1..(at - 1) |-> SkippedStore(priority[i], available)])

\* writable_store::resolve.  Only `auto` looks past the store that was named.
resolve(vocabulary, priority, available) ==
    CASE vocabulary = "none"            -> Resolved("memory", <<>>)
      [] vocabulary = "encrypted-local" -> Resolved("encrypted-local", <<>>)
      [] vocabulary = "keyring"         -> IF available THEN Resolved("keyring", <<>>)
                                           ELSE Unresolved("SecretServiceUnavailable")
      [] vocabulary = "auto"            -> Auto(priority, available)
      [] vocabulary = "tpm2"            -> Unresolved("Deferred")

MAX_CREDENTIAL_BYTES == 2

Value(v)        == [value |-> v, error |-> "none"]
NoValue(error)  == [value |-> "none", error |-> error]

\* A credential name is one plain file name.
is_plain_file_name(name) == name \notin {"empty", "slash", "nul", "dot", "dotdot"}

\* `directory` is "absent", "empty" or a path.
resolve_systemd_directory(directory) ==
    CASE directory = "absent" -> "NoCredentialsDirectory"
      [] directory = "empty"  -> "EmptyCredentialsDirectory"
      [] OTHER                -> "none"

\* SystemdCredentialDirectory::read.  `names` maps short names to credential
\* names.  `leaf` is the file that was opened: what open(2) answered, then the
\* facts fstat gives, then the bytes read, which may be more than fstat said.
\* `walk` is what verify_trusted_path finds on the path afterwards.
read_systemd(names, short_name, leaf, walk) ==
    IF short_name \notin DOMAIN names THEN NoValue("NameNotConfigured")
    ELSE IF ~is_plain_file_name(names[short_name]) THEN NoValue("BadCredentialName")
    ELSE IF leaf.open = "NotFound" THEN NoValue("Missing")
    ELSE IF leaf.open = "ELOOP" THEN NoValue("Untrusted")
    ELSE IF leaf.open # "ok" THEN NoValue("Unreadable")
    ELSE IF ~leaf.regular THEN NoValue("Untrusted")
    ELSE IF ~leaf.owner_only THEN NoValue("ExcessivePermission")
    ELSE IF leaf.len > MAX_CREDENTIAL_BYTES THEN NoValue("Oversized")
    ELSE IF leaf.bytes > MAX_CREDENTIAL_BYTES THEN NoValue("Oversized")
    ELSE IF leaf.bytes = 0 THEN NoValue("Empty")
    ELSE IF leaf.content = "binary" THEN NoValue("NotUtf8")
    ELSE IF walk = "NotFound" THEN NoValue("Missing")
    ELSE IF walk # "trusted" THEN NoValue("Untrusted")
    ELSE Value(leaf.content)

\* The interactive arm: CredentialStore's provider answers by short name, and
\* a blank is not a credential.
read_interactive(provided, short_name) ==
    IF short_name \notin DOMAIN provided THEN NoValue("NotProvided")
    ELSE IF provided[short_name] = "blank" THEN NoValue("ProvidedEmpty")
    ELSE Value(provided[short_name])

\* parse_session_envelope: strict parse, schema, then digest.
parse_session_envelope(content) ==
    CASE content = "envelope"     -> "none"
      [] content = "other-schema" -> "UnsupportedSchema"
      [] content = "bad-digest"   -> "Integrity"
      [] OTHER                    -> "Parse"

SESSION_SHORT_NAME == "session"

\* resolve_credential_input_in: the source, and the systemd arm's one startup
\* read.  An unusable directory aborts startup; an unreadable credential is
\* recorded and startup goes on.
resolve_credential_input_in(source, directory, names, leaf, walk) ==
    IF source = "interactive"
      THEN [startup |-> "ok", startup_read |-> "absent"]
      ELSE LET unusable == resolve_systemd_directory(directory)
               read     == read_systemd(names, SESSION_SHORT_NAME, leaf, walk)
           IN  IF unusable # "none"
                 THEN [startup |-> unusable, startup_read |-> "absent"]
                 ELSE [startup |-> "ok",
                       startup_read |->
                          IF read.error # "none" THEN read.error
                          ELSE IF parse_session_envelope(read.value) # "none"
                            THEN parse_session_envelope(read.value) ELSE "Read"]

-----------------------------------------------------------------------------
(* From a connection request to a running tunnel.                            *)

Transports == <<"udp", "tcp", "tls">>

\* The transports a protocol may use; Smart leaves the choice to ProTUN.
Allowed(protocol) ==
    CASE protocol = "WireGuardUdp" -> {"udp"}
      [] protocol = "WireGuardTcp" -> {"tcp"}
      [] protocol = "Stealth" -> {"tls"}
      [] protocol = "Smart" -> {"udp", "tcp", "tls"}

\* SniStrategy::parse; "" when the word is unknown.
SniStrategy(word) ==
    IF word = "random" THEN "Random" ELSE IF word = "top" THEN "Top" ELSE ""

\* An endpoint without ports is a transport the peer does not serve.
Serves(peer, t) == peer[t] # <<>> /\ peer[t][1].ports # <<>>

serves_requested_protocol(params) ==
    \E i \in DOMAIN params.peers :
        \E t \in Allowed(params.protocol) : Serves(params.peers[i], t)

-----------------------------------------------------------------------------
(* Peers.                                                                   *)

Digits == <<"0", "1", "2">>
Candidate(id, ip, ports, priority) ==
    [peer_id |-> id, server_ip |-> ip, ports |-> ports, priority |-> priority]

Failure(err) == [err |-> err]

decode_peer_OneAddress(peer) ==
    LET served == SelectSeq(Transports, LAMBDA t : Serves(peer, t))
        ports == [t \in ToSet(Transports) |->
                    IF Serves(peer, t) THEN peer[t][1].ports ELSE <<>>]
    IN IF peer.key # "" \/ served = <<>> THEN Failure("InvalidPeer")
       ELSE [err |-> "",
             peers |-> <<Candidate(peer.id, peer[served[1]][1].entry_ip, ports,
                                   peer.priority)>>]

\* decode_peer: one candidate per address, in the order the transports name
\* them; several carry a numbered id.
decode_peer(peer) ==
    LET served == SelectSeq(Transports, LAMBDA t : Serves(peer, t))
        address(t) == peer[t][1].entry_ip
        addresses == FoldLeft(LAMBDA seen, t :
                        IF Contains(seen, address(t)) THEN seen ELSE Append(seen, address(t)),
                        <<>>, served)
        ports(ip) == [t \in ToSet(Transports) |->
                        IF Serves(peer, t) /\ address(t) = ip THEN peer[t][1].ports ELSE <<>>]
        id(i) == IF Len(addresses) = 1 THEN peer.id ELSE Append(peer.id, Digits[i])
    IN IF peer.key # "" \/ served = <<>> THEN Failure("InvalidPeer")
       ELSE [err |-> "",
             peers |-> [i \in DOMAIN addresses |->
                            Candidate(id(i), addresses[i], ports(addresses[i]),
                                      peer.priority)]]

\* translate_peers: what does not decode is skipped, unless nothing is left.
translate_peers(peers) ==
    LET decoded == SelectSeq([i \in DOMAIN peers |-> decode_peer(peers[i])],
                             LAMBDA d : d.err = "")
    IN IF decoded = <<>> THEN Failure("InvalidPeer")
       ELSE [err |-> "",
             peers |-> FlattenSeq([i \in DOMAIN decoded |-> decoded[i].peers])]

CanServe(candidate, protocol) == \E t \in Allowed(protocol) : candidate.ports[t] # <<>>

serves_translated(candidates, protocol) ==
    \E i \in DOMAIN candidates : CanServe(candidates[i], protocol)

\* constrain_transports: a manual protocol shows ProTUN one transport.
constrain_transports(candidates, protocol) ==
    LET cleared(c) == [c EXCEPT !.ports = [t \in DOMAIN c.ports |->
                            IF t \in Allowed(protocol) THEN c.ports[t] ELSE <<>>]]
    IN IF protocol = "Smart" THEN candidates
       ELSE SelectSeq([i \in DOMAIN candidates |-> cleared(candidates[i])],
                      LAMBDA c : CanServe(c, protocol))

\* stable_peer_id: the caller's id again, as status shows it.
stable_peer_id(id) ==
    IF Len(id) > 1 /\ Contains(Digits, Last(id)) THEN Front(id) ELSE id

peer_from_protun(peer) == [peer EXCEPT !.peer_id = stable_peer_id(@)]

\* translate_state: ProTUN's state as the daemon sees it. peers are those it
\* attempts while connecting and the one selected afterwards.
translate_state(state) ==
    [interface_up |-> state.interface_up, interface_error |-> state.interface_error,
     kind |-> IF state.kind = "ConnectingToLocalAgent" THEN "ConnectingToAgent" ELSE state.kind,
     peers |-> [i \in DOMAIN state.peers |-> peer_from_protun(state.peers[i])],
     waiting_for_network |-> "WaitingForNetwork" \in state.wait_reasons,
     agent |-> state.agent]

-----------------------------------------------------------------------------
(* The whole request.                                                       *)

\* EngineMode::key_policy.
key_policy(mode) == IF mode = "LocalAgent" THEN "FromCache" ELSE "Required"

\* translate_with_policy. A key is "absent", "" when it decodes, or a defect.
translate_with_policy(params, policy) ==
    LET decoded == translate_peers(params.peers)
        key == params.client_private_key
    IN IF params.peers # <<>> /\ ~serves_requested_protocol(params)
       THEN Failure("Unavailable")
       ELSE IF decoded.err # "" THEN decoded
       ELSE IF ~serves_translated(decoded.peers, params.protocol) THEN Failure("Unavailable")
       ELSE IF key \notin {"absent", ""} THEN Failure("InvalidKey")
       ELSE IF key = "absent" /\ policy = "Required" THEN Failure("MissingKey")
       ELSE [err |-> "",
             peers |-> constrain_transports(decoded.peers, params.protocol),
             mode |-> "NoLocalAgent", keyed |-> key = "",
             network_available |-> params.network_available,
             sni_strategy |-> params.sni_strategy]

\* TunHandle::create, of a host that has the names of the devices on it: the
\* attach is exclusive. A handle gives its descriptor away once.
TunHandle(name, host) ==
    IF ~name.valid THEN "InvalidName"
    ELSE IF ~host.tun_module THEN "DeviceOpen"
    ELSE IF name.word \in host.devices \/ ~host.net_admin THEN "Attach" ELSE ""

\* ConnectionEngine::connect: the translation, the mode, and then the device,
\* so that a refused request leaves none behind.
connect(engine, params, host) ==
    LET translated == translate_with_policy(params, key_policy(engine.mode))
        tun == TunHandle(engine.if_name, host)
    IN IF translated.err # "" THEN [err |-> translated.err, devices |-> host.devices]
       ELSE IF tun # "" THEN [err |-> tun, devices |-> host.devices]
       ELSE [err |-> "", devices |-> host.devices \cup {engine.if_name.word},
             config |-> IF engine.mode = "LocalAgent"
                        THEN [translated EXCEPT !.mode = "LocalAgent", !.keyed = FALSE]
                        ELSE translated,
             mark |-> engine.bypass_mark]

\* ActiveConnection::update_peers, under the connection's own key policy.
update_peers(mode, params) == translate_with_policy(params, key_policy(mode))

=============================================================================

--------------------------- MODULE WireReference ---------------------------
(***************************************************************************)
(* Questions put to the readers at the daemon's edges: which store keeps a  *)
(* session, what a credential file is worth, what the account API answered, *)
(* when a free plan may change servers, and what a connection request       *)
(* becomes before a tunnel is made of it.                                   *)
(***************************************************************************)
EXTENDS WireDocuments

-----------------------------------------------------------------------------
(* Stores and credentials.                                                  *)

Leaf == [open |-> "ok", regular |-> TRUE, owner_only |-> TRUE, len |-> 1, bytes |-> 1,
         content |-> "envelope"]
CredentialFiles ==
    {Leaf} \union {[Leaf EXCEPT !.open = o] : o \in {"NotFound", "ELOOP", "EACCES"}}
    \union {[Leaf EXCEPT !.regular = FALSE], [Leaf EXCEPT !.owner_only = FALSE]}
    \union {[Leaf EXCEPT !.len = l, !.bytes = b] :
                l \in 0 .. MAX_CREDENTIAL_BYTES + 1, b \in 0 .. MAX_CREDENTIAL_BYTES + 1}
    \union {[Leaf EXCEPT !.content = c] : c \in {"binary", "other-schema", "bad-digest", "text"}}

AsksStore(q) ==
    \E vocabulary \in Vocabulary, n \in 0 .. 3, available \in BOOLEAN :
        \E priority \in [1 .. n -> Vocabulary] :
            q = [kind |-> "store", vocabulary |-> vocabulary, priority |-> priority,
                 available |-> available]

AsksCredential(q) ==
    \E source \in {"interactive", "systemd"}, directory \in {"absent", "empty", "path"},
       name \in {"plain", "slash", "dotdot"}, leaf \in CredentialFiles,
       walk \in {"trusted", "NotFound", "Symlink"} :
        q = [kind |-> "credential", source |-> source, directory |-> directory,
             names |-> [session |-> name], leaf |-> leaf, walk |-> walk]

-----------------------------------------------------------------------------
(* Answers of the account API.                                              *)

J(type, value) == [t |-> type, v |-> value]
Null == J("null", 0)

Vpn == [Status |-> J("int", 1), MaxTier |-> J("int", 2), MaxConnect |-> J("int", 10),
        IsBusiness |-> J("bool", TRUE), PlanName |-> J("str", "vpn2022"),
        NetShield |-> J("obj", [k \in NETSHIELD_KEYS |-> J("bool", TRUE)])]
Root == [Code |-> J("int", 1000), Subscribed |-> J("int", 1), Services |-> J("int", 1),
         Delinquent |-> J("int", 0), Credit |-> J("int", 0), VPN |-> J("obj", Vpn)]

\* An object with one key set, and with one taken out.
With(object, key, value) ==
    [k \in DOMAIN object \union {key} |-> IF k = key THEN value ELSE object[k]]
Without(object, keys) == [k \in DOMAIN object \ keys |-> object[k]]

\* Every object one key away from the given one.
Near(object) ==
    {object} \union {Without(object, {k}) : k \in DOMAIN object}
    \union {With(object, k, v) : k \in DOMAIN object \union {"Surprise"},
                                 v \in {Null, J("int", 0), J("int", 5), J("str", "s")}}

AsksEntitlements(q) ==
    \/ \E vpn \in Near(Vpn), outer \in Near(Root) :
          q = [kind |-> "entitlements", value |-> J("obj",
                  IF "VPN" \in DOMAIN outer /\ outer["VPN"].t = "obj"
                  THEN With(outer, "VPN", J("obj", vpn)) ELSE outer)]
    \/ q = [kind |-> "entitlements", value |-> J("str", "maintenance")]

NoNulls(object, known) == Without(object, {k \in DOMAIN object \cap known : object[k].t = "null"})

\* The document without the nulls of keys it may have, two levels deep.
Stripped(value) ==
    IF value.t # "obj" THEN value
    ELSE LET outer == NoNulls(value.v, ENVELOPE_KEYS) IN
         IF "VPN" \in DOMAIN outer /\ outer["VPN"].t = "obj"
         THEN J("obj", With(outer, "VPN", J("obj", NoNulls(outer["VPN"].v, VPN_KEYS))))
         ELSE J("obj", outer)

Place == [Code |-> J("int", 1000), IP |-> J("str", "192.0.2.1"), Country |-> J("str", "CH"),
          ISP |-> J("str", "isp"), Lat |-> J("int", 47), Long |-> J("int", 180)]

\* A status of 0 is an exchange that failed.
AsksLocation(q) ==
    \E status \in {0, 200, 422},
       root \in Near(Place) \union {With(Place, k, J("int", degrees)) :
                                     k \in {"Lat", "Long"}, degrees \in {-181, -91, 90, 91}} :
        q = [kind |-> "location", response |-> [status |-> status, body |-> J("obj", root)]]

\* A catalog of up to three servers, at the edge of its limits.
Logical == [status |-> {1}, tier |-> 0, load |-> {100}, servers |-> <<1>>]
AsksDocument(q) ==
    \E bytes \in {MAX_CATALOG_BYTES, MAX_CATALOG_BYTES + 1}, code \in {1000, 2000}, n \in 0 .. 3,
       server \in {Logical, [Logical EXCEPT !.status = {2}], [Logical EXCEPT !.status = {}],
                   [Logical EXCEPT !.tier = 4], [Logical EXCEPT !.load = {101}],
                   [Logical EXCEPT !.servers = <<1, 0>>], [Logical EXCEPT !.servers = <<2>>]} :
        q = [kind |-> "document", document |->
                [bytes |-> bytes, parses |-> TRUE, code |-> code,
                 logical_servers |-> [i \in 1 .. n |-> server]]]

AsksCatalog(q) ==
    \E installed \in BOOLEAN, status \in {0, 200, 304, 404, 429, 503},
       retry_after \in {-1, 0, CEILING, CEILING + 1, 2 * CEILING} :
        q = [kind |-> "catalog", installed |-> installed,
             response |-> [status |-> status, retry_after |-> retry_after]]

AsksChange(q) ==
    \E tier \in {{}, {"Free"}, {"Paid"}}, last \in {{}} \union {{t} : t \in 0 .. TIME_MAX},
       now \in 0 .. TIME_MAX - 1, changes \in 0 .. 3 :
        q = [kind |-> "change", tier |-> tier, last |-> last, now |-> now, changes |-> changes]

-----------------------------------------------------------------------------
(* Connection requests.                                                     *)

Endpoints == {<<>>, <<[entry_ip |-> "a", ports |-> <<1>>]>>,
              <<[entry_ip |-> "b", ports |-> <<1, 2>>]>>, <<[entry_ip |-> "b", ports |-> <<>>]>>}
PeerOf(id, key, udp, tcp, tls) ==
    [id |-> id, key |-> key, udp |-> udp, tcp |-> tcp, tls |-> tls, priority |-> 1]
On(ip, port) == <<[entry_ip |-> ip, ports |-> <<port>>]>>
Rests == {<<>>, <<PeerOf(<<"q">>, "", On("a", 1), On("b", 2), On("b", 3))>>,
          <<PeerOf(<<"q", "z">>, "short", On("a", 1), <<>>, On("a", 1))>>}

AsksTunnel(q) ==
    \E udp \in Endpoints, tcp \in Endpoints, tls \in Endpoints, key \in {"", "short"},
       rest \in Rests, protocol \in {"WireGuardUdp", "WireGuardTcp", "Stealth", "Smart"},
       client \in {"absent", "", "long"}, mode \in {"LocalAgent", "Manual"},
       devices \in {{}, {"protonwire0"}} :
        q = [kind |-> "tunnel",
             params |-> [peers |-> <<PeerOf(<<"p">>, key, udp, tcp, tls)>> \o rest,
                         protocol |-> protocol, client_private_key |-> client,
                         network_available |-> TRUE, sni_strategy |-> "Random"],
             engine |-> [mode |-> mode, if_name |-> [valid |-> TRUE, word |-> "protonwire0"],
                         bypass_mark |-> 5],
             host |-> [tun_module |-> TRUE, net_admin |-> TRUE, devices |-> devices]]

\* ProTUN's state while it attempts the candidates.
Attempting(peers) ==
    [interface_up |-> TRUE, interface_error |-> "", kind |-> "Connecting", peers |-> peers,
     wait_reasons |-> {}, agent |-> ""]

-----------------------------------------------------------------------------
Asks(q) ==
    \/ AsksStore(q) \/ AsksCredential(q) \/ AsksEntitlements(q) \/ AsksCatalog(q)
    \/ AsksLocation(q) \/ AsksDocument(q) \/ AsksChange(q) \/ AsksTunnel(q)

WaitAt(q, now) ==
    change_server_eligibility(q.tier, q.last, now, free_change_cooldown_window(q.changes))

Answer(q) ==
    CASE q.kind = "store" -> resolve(q.vocabulary, q.priority, q.available)
      [] q.kind = "credential" ->
            resolve_credential_input_in(q.source, q.directory, q.names, q.leaf, q.walk)
      [] q.kind = "entitlements" -> VpnEntitlements(q.value)
      [] q.kind = "catalog" -> bridge_fetch(q.installed, q.response)
      [] q.kind = "location" -> FetchDocument(q.response, UserLocation(q.response.body))
      [] q.kind = "document" -> CatalogDocument(q.document)
      [] q.kind = "change" -> WaitAt(q, q.now)
      [] q.kind = "tunnel" -> connect(q.engine, q.params, q.host)

\* A store that was named is the one used or the daemon says why not; only
\* auto looks further, takes the first store that works and accounts for
\* every one it passed over (resolve).
StoreIsTheNamedOne(q, a) ==
    LET works(store) == store = "encrypted-local" \/ (store = "keyring" /\ q.available)
        passed == Len(a.skipped)
    IN IF q.vocabulary # "auto"
       THEN a.error = "none" =>
               /\ a.skipped = <<>>
               /\ IF q.vocabulary = "none" THEN a.store = "memory"
                  ELSE a.store = q.vocabulary /\ works(a.store)
       ELSE IF a.error # "none" THEN \A i \in DOMAIN q.priority : ~works(q.priority[i])
       ELSE /\ passed < Len(q.priority) /\ a.store = q.priority[passed + 1] /\ works(a.store)
            /\ \A i \in 1 .. passed :
                  a.skipped[i].store = q.priority[i] /\ ~works(q.priority[i])

\* A provisioned session is used only from a regular file of the owner's
\* alone on a trusted path, whole and of this schema, although the file may
\* grow after its size was read (SystemdCredentialDirectory::read).
CredentialIsTrusted(q, a) ==
    a.startup_read = "Read" =>
        /\ a.startup = "ok" /\ q.source = "systemd" /\ q.directory = "path"
        /\ q.names.session = "plain" /\ q.walk = "trusted" /\ q.leaf.regular /\ q.leaf.owner_only
        /\ q.leaf.bytes \in 1 .. MAX_CREDENTIAL_BYTES /\ q.leaf.content = "envelope"

\* A null is an absent key; nothing unknown is read past; and an allowance is
\* granted or denied exactly when the plan's tier was told (from_wire_bytes).
EntitlementsAreTold(q, a) ==
    /\ a = VpnEntitlements(Stripped(q.value))
    /\ a.error = "none" =>
         /\ DOMAIN q.value.v \subseteq ENVELOPE_KEYS
         /\ a.paid = {t > 0 : t \in a.max_tier}
         /\ a.plan_tier = {} <=> "MaxTier" \notin DOMAIN Stripped(q.value).v["VPN"].v

\* Only 429 and 503 pace the scheduler, by no more than the ceiling; nothing
\* but a 304 keeps the cached catalog (catalog_fetch, bridge_fetch).
PacingIsBounded(q, a) ==
    /\ a.kind = "RateLimited" <=> q.installed /\ q.response.status \in {429, 503}
    /\ a.kind = "NotModified" <=> q.installed /\ q.response.status = 304
    /\ a.delay \subseteq 0 .. CEILING
    /\ a.delay # {} => a.kind = "RateLimited" /\ q.response.retry_after >= 0

\* A location is a place on the globe or none, from an answer the API stood by
\* (UserLocation, MuonLocation::fetch).
LocationIsOnTheGlobe(q, a) ==
    a.error = "none" =>
        /\ q.response.status = 200
        /\ a.latitude \subseteq -90 .. 90 /\ a.longitude \subseteq -180 .. 180
        /\ DOMAIN q.response.body.v \subseteq KNOWN_KEYS

\* A catalog that is read is within its limits, and its values in their
\* domains; an unknown load or status is told from a wrong one
\* (CatalogDocument::from_bytes).
CatalogIsBounded(q, a) ==
    LET logical == q.document.logical_servers IN
    a = "none" <=> /\ q.document.bytes <= MAX_CATALOG_BYTES /\ q.document.code = 1000
                   /\ Len(logical) <= MAX_LOGICAL_SERVERS
                   /\ Cardinality({<<i, j>> \in (DOMAIN logical) \X (1 .. 3) :
                        j \in DOMAIN logical[i].servers}) <= MAX_PHYSICAL_SERVERS_TOTAL
                   /\ \A server \in ToSet(logical) :
                        /\ server.tier < 4 /\ ToSet(server.servers) \subseteq {0, 1}
                        /\ 2 \notin server.status /\ 101 \notin server.load

\* The wait for a change of servers is counted from the last change: it runs
\* down second by second and does not start over (change_server_eligibility).
CooldownRunsDown(q, a) ==
    /\ a >= 0
    /\ WaitAt(q, q.now + 1) = Max({a - 1, 0})
    /\ a > 0 => q.tier = {"Free"}

\* What ProTUN is shown is what was asked: each transport of each usable peer
\* that the protocol allows, at its own address, under the peer's id, and no
\* other; no two candidates share an id, status shows the id asked for, and an
\* update of a running tunnel shows the same. A refused request leaves no device
\* behind, and one that can be served is not refused for its peers
\* (decode_peer, constrain_transports, connect).
TunnelIsAsAsked(q, a) ==
    LET usable == {p \in ToSet(q.params.peers) : p.key = ""}
        allowed == Allowed(q.params.protocol)
        asked == {<<p.id, t, p[t][1].entry_ip, p[t][1].ports>> :
                    <<p, t>> \in {pt \in usable \X allowed : Serves(pt[1], pt[2])}}
        shown == {<<stable_peer_id(c.peer_id), t, c.server_ip, c.ports[t]>> :
                    <<c, t>> \in {ct \in ToSet(a.config.peers) \X ToSet(Transports) :
                                    ct[1].ports[ct[2]] # <<>>}}
        ids == [i \in DOMAIN a.config.peers |-> a.config.peers[i].peer_id]
    IN IF a.err # ""
       THEN /\ a.devices = q.host.devices
            /\ asked # {} => a.err \notin {"Unavailable", "InvalidPeer"}
       ELSE /\ shown = asked /\ asked # {}
            /\ \A i, j \in DOMAIN ids : i # j => ids[i] # ids[j]
            /\ \A i \in DOMAIN a.config.peers : CanServe(a.config.peers[i], q.params.protocol)
            /\ a.devices = q.host.devices \union {"protonwire0"} /\ a.devices # q.host.devices
            /\ a.config.keyed <=> q.engine.mode = "Manual"
            /\ update_peers(q.engine.mode, q.params).peers = a.config.peers
            /\ \A p \in ToSet(translate_state(Attempting(a.config.peers)).peers) :
                  p.peer_id \in {peer.id : peer \in usable}

Right(q, a) ==
    CASE q.kind = "store" -> StoreIsTheNamedOne(q, a)
      [] q.kind = "credential" -> CredentialIsTrusted(q, a)
      [] q.kind = "entitlements" -> EntitlementsAreTold(q, a)
      [] q.kind = "catalog" -> PacingIsBounded(q, a)
      [] q.kind = "location" -> LocationIsOnTheGlobe(q, a)
      [] q.kind = "document" -> CatalogIsBounded(q, a)
      [] q.kind = "change" -> CooldownRunsDown(q, a)
      [] q.kind = "tunnel" -> TunnelIsAsAsked(q, a)
=============================================================================

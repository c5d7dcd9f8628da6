----------------------------- MODULE KillSwitch -----------------------------
(***************************************************************************)
(* The output chain of the kill switch (crates/net/src/kill_switch.rs): the *)
(* rules a policy renders to, what the kernel does with a packet under      *)
(* them, what apply refuses, and the probe that shows the chain drops; and  *)
(* the early-boot firewall (permanent.rs), which is the same call with the  *)
(* loopback interface.                                                      *)
(*                                                                         *)
(* An address is WIDTH bytes of BITS bits, in wire order. A rule's match    *)
(* maps the packet fields it compares to the values it wants.               *)
(***************************************************************************)
EXTENDS Integers, FiniteSets, Sequences, SequencesExt

CONSTANTS
    WIDTH,               \* bytes in an address, by family: "v4", "v6"
    BITS,                \* bits in a byte
    PROBE_DESTINATION    \* a v4 address no host has

LOCAL INSTANCE Bitwise

DHCP_PORT == 67
PROBE_PORT == 9
LO == 1                  \* the kernel index of the loopback interface

Policy(tun, dhcp, permits, mark) ==
    [tun_ifindex |-> tun, allow_dhcp_v4 |-> dhcp, lan_permits |-> permits,
     bypass_mark |-> mark]

\* What apply refuses before it touches the kernel: a mark that every
\* unmarked packet carries, and a LAN prefix of no bits or of too many.
apply_refuses(policy) ==
    \/ policy.bypass_mark = 0
    \/ \E i \in DOMAIN policy.lan_permits :
          LET dest == policy.lan_permits[i].dest IN
          dest.len = 0 \/ dest.len > WIDTH[dest.family] * BITS

-----------------------------------------------------------------------------
(* Rendering.                                                               *)

NoMask == <<>>

Rule(match, mask, counter, verdict) ==
    [match |-> match, mask |-> mask, counter |-> counter, verdict |-> verdict]

Accept(match) == Rule(match, NoMask, FALSE, "Accept")

allow_oif(ifindex) == Accept([oif |-> ifindex])

Covered(len, index) ==
    LET left == len - (index - 1) * BITS IN
    IF left < 0 THEN 0 ELSE IF left > BITS THEN BITS ELSE left

prefix_mask_LowBits(dest) ==
    [i \in 1 .. WIDTH[dest.family] |-> 2 ^ Covered(dest.len, i) - 1]

\* The bits of each byte the prefix covers are its high ones.
prefix_mask(dest) ==
    [i \in 1 .. WIDTH[dest.family] |->
        2 ^ BITS - 2 ^ (BITS - Covered(dest.len, i))]

MaskedBy(bytes, mask) == [i \in DOMAIN bytes |-> bytes[i] & mask[i]]

network_address(dest) == MaskedBy(dest.addr, prefix_mask(dest))

render_lan_permit(permit) ==
    Rule([oif |-> permit.oif, nfproto |-> permit.dest.family,
          daddr |-> network_address(permit.dest)],
         prefix_mask(permit.dest), FALSE, "Accept")

\* The permits first; then the probe's counter, which has no verdict and lets
\* the packet fall through; then the drop that counts.
render_rules(policy) ==
    <<allow_oif(policy.tun_ifindex), allow_oif(LO)>>
    \o (IF policy.allow_dhcp_v4
        THEN <<Accept([nfproto |-> "v4", dport |-> DHCP_PORT])>> ELSE <<>>)
    \o [i \in DOMAIN policy.lan_permits |-> render_lan_permit(policy.lan_permits[i])]
    \o <<Accept([mark |-> policy.bypass_mark]),
         Rule([nfproto |-> "v4", daddr |-> PROBE_DESTINATION], NoMask, TRUE, "none"),
         Rule(<<>>, NoMask, TRUE, "Drop")>>

expected_rule_count(policy) ==
    2 + (IF policy.allow_dhcp_v4 THEN 1 ELSE 0) + Len(policy.lan_permits) + 1 + 1 + 1

-----------------------------------------------------------------------------
(* The kernel's evaluation of the chain.                                    *)

Seen(rule, packet, field) ==
    IF field = "daddr" /\ rule.mask # NoMask
    THEN MaskedBy(packet.daddr, rule.mask) ELSE packet[field]

Hits(rule, packet) ==
    \A field \in DOMAIN rule.match : rule.match[field] = Seen(rule, packet, field)

Deciders(rules, packet) ==
    {i \in DOMAIN rules : rules[i].verdict # "none" /\ Hits(rules[i], packet)}

\* The verdict of the first rule that has one, else the chain's policy.
Verdict(rules, packet) ==
    LET hits == Deciders(rules, packet) IN
    IF hits = {} THEN "Drop"
    ELSE rules[CHOOSE i \in hits : \A j \in hits : i <= j].verdict

\* The packet moves the counter of rule i.
Counts(rules, i, packet) ==
    /\ Hits(rules[i], packet)
    /\ \A j \in Deciders(rules, packet) : j >= i

\* The counter a dump shows first: with no verdict for dropped_packets, with
\* one for terminal_drop_packets.
dropped_packets(rules) ==
    SelectInSeq(rules, LAMBDA r : r.counter /\ r.verdict = "none")

terminal_drop_packets(rules) ==
    SelectInSeq(rules, LAMBDA r : r.counter /\ r.verdict # "none")

ProbePacket(uplink) ==
    [oif |-> uplink, nfproto |-> "v4", daddr |-> PROBE_DESTINATION,
     dport |-> PROBE_PORT, mark |-> 0]

\* One packet out of the uplink has to move the probe's counter.
enforcement_probe(rules, uplink) ==
    /\ dropped_packets(rules) # 0
    /\ Counts(rules, dropped_packets(rules), ProbePacket(uplink))

-----------------------------------------------------------------------------
(* apply over the tables of our name, each a sequence of its markers: what  *)
(* it returns and the rules it leaves behind.                               *)

NoRecord == 0    \* no generation was persisted

decide_live(found, prior) ==
    IF found = <<>> THEN "FreshApply"
    ELSE IF found = <<<<prior>>>> /\ prior # NoRecord THEN "ReplaceOwned"
    ELSE "RefuseLookalike"

\* The kernel dumps the rules it was given; validate counts them.
validate(rules, policy) == Len(rules) = expected_rule_count(policy)

apply(tun, uplink, policy, found, prior) ==
    LET live == [policy EXCEPT !.tun_ifindex = tun]
        rules == render_rules(live) IN
    IF apply_refuses(policy) THEN [result |-> "Validation", rules |-> <<>>]
    ELSE IF decide_live(found, prior) = "RefuseLookalike"
         THEN [result |-> "Lookalike", rules |-> <<>>]
    ELSE [result |-> IF validate(rules, live) /\ enforcement_probe(rules, uplink)
                     THEN "Ok" ELSE "Validation",
          rules |-> rules]

\* Nothing of the tunnel exists at boot: loopback stands in for both sides.
apply_early_firewall(nonce_mark) ==
    apply(LO, LO, Policy(0, TRUE, <<>>, nonce_mark), <<>>, NoRecord)

-----------------------------------------------------------------------------
(* Finding the uplink (adapters.rs) through whichever manager owns the      *)
(* host, the conflict survey, the backend of the resolver and the two       *)
(* resolver validations (dns.rs), and the gate of the namespace tests       *)
(* (netns.rs). A tool's answer is a set of at most one reply: empty when the *)
(* tool could not be started. A reply has its exit status and its lines, in *)
(* order, each line a record of the words the parsers look at.              *)

NoDevice == "none"

Uplink(ifname, gateway, servers) ==
    [error |-> "none", ifname |-> ifname, gateway |-> gateway, dns_servers |-> servers]

AdapterError(kind) ==
    [error |-> kind, ifname |-> NoDevice, gateway |-> NoDevice, dns_servers |-> <<>>]

Reply(tool) == CHOOSE reply \in tool : TRUE

Succeeds(tool) == tool # {} /\ Reply(tool).ok

FirstLine(lines, Test(_)) ==
    LET i == SelectInSeq(lines, Test) IN IF i = 0 THEN <<>> ELSE <<lines[i]>>

\* nmcli general, then networkctl list; the kernel otherwise.
detect_adapter(host) ==
    IF Succeeds(host.nmcli_general) THEN "NetworkManager"
    ELSE IF Succeeds(host.networkctl_list) THEN "Networkd"
    ELSE "Native"

\* The exit status is not looked at: what counts is the first line.
parse_default_route(lines) ==
    IF lines = <<>> \/ lines[1].dev = NoDevice THEN AdapterError("NoUplink")
    ELSE Uplink(lines[1].dev, lines[1].via, <<>>)

native_uplink(host) ==
    IF host.ip_route = {} THEN AdapterError("ToolUnavailable")
    ELSE parse_default_route(Reply(host.ip_route).lines)

\* The first connected ethernet or wifi device of a whole line, and the
\* servers among its IP4.DNS lines that are addresses.
nm_uplink(host) ==
    LET found == FirstLine(Reply(host.nmcli_status).lines,
                     LAMBDA line : /\ line.fields >= 4
                                   /\ line.type \in {"ethernet", "wifi"}
                                   /\ line.state = "connected")
    IN IF host.nmcli_status = {} THEN AdapterError("ToolUnavailable")
       ELSE IF ~Reply(host.nmcli_status).ok THEN AdapterError("ManagerOutput")
       ELSE IF found = <<>> THEN AdapterError("NoUplink")
       ELSE IF host.nmcli_show = {} THEN AdapterError("ToolUnavailable")
       ELSE Uplink(found[1].dev, NoDevice,
                   SelectSeq(Reply(host.nmcli_show).lines,
                             LAMBDA line : line.key = "IP4.DNS" /\ line.address))

\* "carrier" is looked for inside the line, so "no-carrier" matches as well.
networkd_uplink(host) ==
    LET found == FirstLine(Reply(host.networkctl_list).lines,
                     LAMBDA line : /\ line.state \in {"routable", "carrier", "no-carrier"}
                                   /\ line.dev \notin {NoDevice, "lo"})
    IN IF host.networkctl_list = {} THEN AdapterError("ToolUnavailable")
       ELSE IF ~Reply(host.networkctl_list).ok THEN AdapterError("ManagerOutput")
       ELSE IF found = <<>> THEN AdapterError("NoUplink")
       ELSE Uplink(found[1].dev, NoDevice, <<>>)

discover_uplink(host) ==
    CASE detect_adapter(host) = "NetworkManager" -> nm_uplink(host)
      [] detect_adapter(host) = "Networkd" -> networkd_uplink(host)
      [] detect_adapter(host) = "Native" -> native_uplink(host)

\* One event per interface of the name, from a directory that may be closed.
detect_conflicts(tun_name, links) ==
    {[kind |-> "CompetingTun", blocking |-> TRUE] : link \in links \cap {tun_name}}

detect_backend(resolved_runs) ==
    IF resolved_runs THEN "SystemdResolved" ELSE "ResolvConf"

\* In system mode every resolver has to be a permitted LAN resolver.
validate_system_mode(resolvers, permitted) == resolvers \subseteq permitted

validate_netshield_exclusion(mode, netshield) == ~(mode = "Custom" /\ netshield)

\* The runner's flag, and the namespace it recorded is the one we are in.
in_managed_netns(flag, recorded, namespace) ==
    flag /\ recorded # {} /\ namespace # {} /\ recorded = namespace

-----------------------------------------------------------------------------
(* Questions put to the kill switch, one policy at a time, and to the       *)
(* discovery of the uplink. What the rendered chain does to a packet is     *)
(* compared with what the policy permits, bit by bit.                       *)

TUN == 5
UPLINK == 2
MARK == 3

Addresses(family) == [1 .. WIDTH[family] -> 0 .. 2 ^ BITS - 1]
Packets ==
    UNION {[oif : {LO, UPLINK, TUN}, nfproto : {family}, daddr : Addresses(family),
            dport : {PROBE_PORT, DHCP_PORT}, mark : {0, MARK}] : family \in {"v4", "v6"}}

Permit(oif, family, addr, len) ==
    [oif |-> oif, dest |-> [family |-> family, addr |-> addr, len |-> len]]
Permits ==
    {<<>>} \union
    UNION {{<<Permit(UPLINK, family, addr, len)>> :
                addr \in Addresses(family), len \in 0 .. WIDTH[family] * BITS + 1} :
           family \in {"v4", "v6"}}
    \union {<<Permit(UPLINK, "v4", [i \in 1 .. WIDTH["v4"] |-> 1], len),
              Permit(TUN, "v6", [i \in 1 .. WIDTH["v6"] |-> 2], 1)>> : len \in 1 .. 3}

\* A table of our name with these markers.
Tables == {<<>>, <<<<1>>>>, <<<<2>>>>, <<<<1, 2>>>>, <<<<1>>, <<1>>>>}

AsksSwitch(q) ==
    \/ \E dhcp \in BOOLEAN, permits \in Permits, mark \in {0, MARK} :
          q = [kind |-> "switch", policy |-> Policy(0, dhcp, permits, mark),
               uplink |-> UPLINK, found |-> <<>>, prior |-> NoRecord]
    \/ \E found \in Tables, prior \in {NoRecord, 1, 2}, uplink \in {LO, UPLINK, TUN} :
          q = [kind |-> "switch", policy |-> Policy(0, TRUE, <<>>, MARK),
               uplink |-> uplink, found |-> found, prior |-> prior]

-----------------------------------------------------------------------------
Ran(lines) == {[ok |-> TRUE, lines |-> lines]}
Failing(lines) == {[ok |-> FALSE, lines |-> lines]}
Absent == {}

Wired(state, fields) == [dev |-> "eth0", type |-> "ethernet", state |-> state, fields |-> fields]
Bridge == [dev |-> "virbr0", type |-> "bridge", state |-> "connected", fields |-> 4]
Wifi == [dev |-> "wlan0", type |-> "wifi", state |-> "connected", fields |-> 4]
Loop == [dev |-> "lo", state |-> "carrier"]
Routable == [dev |-> "eth0", state |-> "routable"]
Dangling == [dev |-> "eth1", state |-> "off"]
Dns(address) == [key |-> "IP4.DNS", address |-> address]

AsksUplink(q) ==
    \E general \in {Absent, Failing(<<>>), Ran(<<>>)},
       status \in {Absent, Failing(<<Wifi>>), Ran(<<>>)}
                  \union {Ran(<<Wired(state, fields), Bridge, Wifi>>) :
                            state \in {"connected", "unavailable"}, fields \in 3 .. 4},
       show \in {Absent, Ran(<<Dns(TRUE), [key |-> "GENERAL", address |-> TRUE], Dns(FALSE)>>)},
       list \in {Absent, Failing(<<Routable>>), Ran(<<Loop, Dangling>>), Ran(<<Loop, Routable>>)},
       route \in {Absent, Ran(<<>>), Failing(<<>>), Ran(<<[dev |-> "none", via |-> "gw"]>>),
                  Ran(<<[dev |-> "eth2", via |-> "gw"]>>)} :
        q = [kind |-> "uplink",
             host |-> [nmcli_general |-> general, nmcli_status |-> status, nmcli_show |-> show,
                       networkctl_list |-> list, ip_route |-> route]]

-----------------------------------------------------------------------------
Asks(q) == AsksSwitch(q) \/ AsksUplink(q)

Answer(q) ==
    IF q.kind = "switch" THEN apply(TUN, q.uplink, q.policy, q.found, q.prior)
    ELSE discover_uplink(q.host)

\* Bit k of an address, the first being the one sent first.
Bit(addr, k) == (addr[(k - 1) \div BITS + 1] \div 2 ^ (BITS - 1 - ((k - 1) % BITS))) % 2

InPrefix(packet, dest) ==
    /\ packet.nfproto = dest.family
    /\ \A k \in 1 .. dest.len : Bit(packet.daddr, k) = Bit(dest.addr, k)

Permitted(packet, policy) ==
    \/ packet.oif \in {TUN, LO}
    \/ packet.mark = policy.bypass_mark
    \/ policy.allow_dhcp_v4 /\ packet.nfproto = "v4" /\ packet.dport = DHCP_PORT
    \/ \E permit \in ToSet(policy.lan_permits) :
          packet.oif = permit.oif /\ InPrefix(packet, permit.dest)

\* A switch that reports success lets out exactly the packets its policy
\* permits: the tunnel's, loopback's, the marked ones, DHCP's, and those to
\* the LAN prefixes, whose host bits and length may be anything but a prefix
\* of no bits. It has then seen a packet of the uplink's die, and it has
\* never replaced a table it had not made (render_rules, apply).
PermitsAreExact(q, a) ==
    a.result = "Ok" =>
        /\ \A packet \in Packets :
              Verdict(a.rules, packet) = "Accept" <=> Permitted(packet, q.policy)
        /\ ~Permitted(ProbePacket(q.uplink), q.policy)
        /\ \A packet \in Packets : ~Permitted(packet, q.policy) =>
              Counts(a.rules, terminal_drop_packets(a.rules), packet)
        /\ q.policy.bypass_mark # 0
        /\ \A permit \in ToSet(q.policy.lan_permits) : permit.dest.len > 0
        /\ q.found = <<>> \/ q.found = <<<<q.prior>>>>

\* The uplink is a device that the manager owning the host says is up, and a
\* tool that fails is an error, never another manager's answer
\* (discover_uplink).
UplinkIsTheManagers(q, a) ==
    LET owns(tool) == tool # {} /\ \E reply \in tool : reply.ok
        devices(tool) == UNION {{line.dev : line \in ToSet(reply.lines)} : reply \in tool}
    IN a.error = "none" =>
         IF owns(q.host.nmcli_general)
         THEN /\ owns(q.host.nmcli_status) /\ a.ifname \in {"eth0", "wlan0"}
              /\ a.ifname = "eth0" => \E reply \in q.host.nmcli_status :
                                         Wired("connected", 4) \in ToSet(reply.lines)
              /\ \A i \in DOMAIN a.dns_servers : a.dns_servers[i] = Dns(TRUE)
         ELSE IF owns(q.host.networkctl_list)
         THEN a.ifname \in devices(q.host.networkctl_list) \ {"lo", "eth1"}
         ELSE a.ifname \in devices(q.host.ip_route) \ {"none"} /\ a.gateway = "gw"

Right(q, a) == IF q.kind = "switch" THEN PermitsAreExact(q, a) ELSE UplinkIsTheManagers(q, a)
=============================================================================

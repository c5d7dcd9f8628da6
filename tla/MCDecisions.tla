---------------------------- MODULE MCDecisions ----------------------------
EXTENDS Decisions

MCRank == [CH |-> 1, SE |-> 2, US |-> 3]
MCRegion == [CH |-> "europe", SE |-> "europe", US |-> "north-america"]

Server(id, name, entry, exit, gateway, features, tier, status, physicals, score, load) ==
    LogicalServer(id, name, entry, exit, <<exit, "Title">>, gateway, features, tier,
                  status, physicals, score, load)

Up(protocols) == PhysicalServer(TRUE, protocols)
Down(protocols) == PhysicalServer(FALSE, protocols)

Fleet ==
    << Server(1, "CH#1", "CH", "CH", "", {}, 0, "online", {Up({"WireguardUdp"})}, 3, 50),
       Server(2, "US#1", "US", "US", "", {"P2p"}, 2, "online",
              {Up({"Stealth"}), Down({"WireguardUdp"})}, 1, -1),
       Server(3, "SE-CH#1", "SE", "CH", "", {"SecureCore"}, 2, "online",
              {Up({"WireguardUdp"})}, 2, 20),
       Server(4, "CH#1", "CH", "CH", "acme", {"Tor"}, 0, "online",
              {Up({"WireguardUdp"})}, -1, 10),
       Server(5, "US#2", "US", "US", "", {}, 0, "online",
              {Up({"WireguardUdp"}), Down({"Stealth"})}, 3, 50) >>

MCCatalogs == {SelectSeq(Fleet, LAMBDA s : s.id \in ids) : ids \in SUBSET (1 .. 5)}

MCTargets ==
    {Target("Fastest", ""), Target("Random", ""), Target("Country", "CH"),
     Target("Country", "ch"), Target("City", <<"US", "upper">>),
     Target("Server", "CH#1"), Target("Server", "SE-CH#1"), Target("Gateway", "acme"),
     Target("Special", "P2p"), SecureCore("", "CH"), SecureCore("SE", "SE"),
     Target("Group", "streaming-us"), Target("Group", "fastest-excluding-my-country"),
     Target("Group", "random-country"), Target("Group", "europe"),
     Target("Group", "max-security")}

MCModifiers ==
    {NoModifiers,
     [NoModifiers EXCEPT !.by = "load"],
     [NoModifiers EXCEPT !.by = "latency"],
     [NoModifiers EXCEPT !.by = "speed"],
     [NoModifiers EXCEPT !.excluded_countries = {"CH"}],
     [NoModifiers EXCEPT !.excluded_entry_countries = {"SE"}],
     [NoModifiers EXCEPT !.excluded_servers = {"US#1"}],
     [NoModifiers EXCEPT !.required_features = {"Tor"}],
     [NoModifiers EXCEPT !.optional_features = {"P2p"}, !.by = "balanced"],
     [NoModifiers EXCEPT !.required_features = {"PortForwarding"}],
     [NoModifiers EXCEPT !.required_protocol = "Stealth"],
     [NoModifiers EXCEPT !.physical_country = "US"]}

MCConfigs ==
    {[physical_country |-> "", excluded_entry_countries |-> {},
      excluded_exit_countries |-> {}, regional_default_ranking |-> "",
      weights |-> [DEFAULT_WEIGHTS EXCEPT !.latency = 0]],
     [physical_country |-> "CH", excluded_entry_countries |-> {"SE"},
      excluded_exit_countries |-> {}, regional_default_ranking |-> "latency",
      weights |-> DEFAULT_WEIGHTS]}

Account(plan, tier, business) ==
    VpnEntitlements(plan, tier, business, IF plan = "Paid" THEN "yes" ELSE "no")

MCAccounts ==
    {NoAccount, Account("Free", 0, "no"), Account("Paid", 2, "no"),
     Account("Paid", 2, "yes")}

MCLocations == {"", "US"}

MCLatency == (1 :> 30) @@ (2 :> 10)

MCDraws == <<5, 3, 4, 1, 2>>
=============================================================================

---------------------------- MODULE CommandLine ----------------------------
(***************************************************************************)
(* One command of the command-line client, end to end: its arguments        *)
(* (apps/cli), the request the SDK sends (crates/client), the role it needs *)
(* (crates/ipc/src/authz.rs), the handler that answers it                   *)
(* (apps/daemon/src/lib.rs, crates/core/src/state.rs) and the exit code.    *)
(*                                                                         *)
(* A reply is [ok, kind, value, code]. What the services behind the handler *)
(* would answer is a record `world`, so that one command is a function of   *)
(* its arguments, its input lines, the peer and the world.                  *)
(***************************************************************************)
EXTENDS TrustWalk

RpcErrorCodes ==
    {"NotImplemented", "InvalidParams", "UnsupportedProtocol", "PermissionDenied",
     "NotAuthenticated", "EntitlementMissing", "NoEligibleServer", "NetworkUnavailable",
     "TunnelFailed", "KillSwitchFailed", "DnsConfigFailed", "FirewallFailed",
     "SplitTunnelFailed", "PortForwardingFailed", "DaemonBusy", "ConfigInvalid",
     "CredentialBackendUnavailable", "SecureCoreUnavailable", "ProtocolUnavailable",
     "UpstreamCapabilityBlocked", "UnsupportedChallenge", "ConfirmationRequired",
     "RateLimited", "CredentialPersistenceUnhealthy", "Internal"}

Reply(kind, value) == [ok |-> TRUE, kind |-> kind, value |-> value, code |-> ""]
Refusal(code) == [ok |-> FALSE, kind |-> "", value |-> "", code |-> code]

Request(method, value) == [method |-> method, value |-> value]
Plain(method) == Request(method, "")

-----------------------------------------------------------------------------
(* The daemon.                                                              *)

\* redact_state_for_peer: the owner is shown to themself and to root.
redact_state_for_peer(owner, uid) ==
    IF owner # {} /\ uid \notin owner /\ uid # ROOT_UID THEN {} ELSE owner

INTERACTIVE_NAMES == {"session", "username", "password"}

\* DaemonCore::handle_request, for what the daemon's handler leaves to it.
handle_request(request) ==
    IF request.method = "Ping" THEN Reply("Pong", request.value)
    ELSE IF request.method \in {"Connect", "Disconnect"} THEN Refusal("NotImplemented")
    ELSE Refusal("Internal")

\* DaemonHandler::with_auth around one call on the installed adapter.
with_auth(world, reply) == IF world.auth THEN reply ELSE Refusal("NotImplemented")

\* A call on the account adapter that may fail: world.account is "" or the
\* code api_error_to_rpc gives its error.
fallible(world, reply) == IF world.account = "" THEN reply ELSE Refusal(world.account)

\* What is read from the cached catalog: a cache that fails its strict load
\* fails closed, an absent one is an empty answer.
from_cache(world, reply) ==
    IF world.catalog = "refused" THEN Refusal("ConfigInvalid") ELSE reply

\* The wire form of a manual refresh's outcome.
refreshed(outcome) ==
    CASE outcome \in {"Changed", "NotModified", "RateLimited", "Failed"} ->
            Reply("ServersRefreshed", outcome)
      [] outcome = "ConfirmationRequired" -> Refusal("ConfirmationRequired")
      [] outcome = "Suppressed" -> Refusal("RateLimited")
      [] outcome = "Unavailable" -> Refusal("Internal")

\* A login step's answer: an outcome of the wire, or the error's code.
stepped(step) == IF step \in RpcErrorCodes THEN Refusal(step) ELSE Reply("LoginStep", step)

handle(peer, request, world) ==
    LET method == request.method IN
    CASE method = "Shutdown" -> Reply("Acknowledged", "")
      [] method = "GetState" -> Reply("State", redact_state_for_peer(world.owner, peer.uid))
      [] method = "SubmitCredential" ->
            IF request.value \in INTERACTIVE_NAMES THEN Reply("Acknowledged", "")
            ELSE Refusal("InvalidParams")
      [] method = "GetAccount" ->
            IF world.auth THEN fallible(world, Reply("Account", world.status))
            ELSE Reply("Account", "LoggedOut")
      [] method = "Select" ->
            IF world.select = "" THEN Reply("Selected", request.value) ELSE Refusal(world.select)
      [] method = "GroupsList" -> from_cache(world, Reply("Groups", ""))
      [] method = "GroupShow" ->
            IF request.value \in world.groups
            THEN from_cache(world, Reply("Group", request.value)) ELSE Refusal("InvalidParams")
      [] method = "ServersList" -> from_cache(world, Reply("Servers", world.catalog))
      [] method = "ServersRefresh" ->
            refreshed(IF request.value = "" THEN world.refresh ELSE world.confirmed)
      [] method = "BeginLogin" -> with_auth(world, stepped(world.login))
      [] method \in {"SubmitTwoFactor", "SubmitFidoPayload"} ->
            with_auth(world, stepped(world.second))
      [] method = "RefreshSession" ->
            with_auth(world, fallible(world, Reply("LoginStatus", world.status)))
      [] method = "Logout" -> with_auth(world, fallible(world, Reply("Acknowledged", "")))
      [] OTHER -> handle_request(request)

\* What the session answers a request of this peer.
served(peer, request, world) ==
    LET refusal == authorize(required_role(request.method), peer)
    IN IF refusal # "" THEN Refusal(refusal) ELSE handle(peer, request, world)

-----------------------------------------------------------------------------
(* The SDK.                                                                 *)

\* The result each SDK method takes for its request's answer.
Expected ==
    [Ping |-> "Pong", GetState |-> "State", Connect |-> "Acknowledged",
     Disconnect |-> "Acknowledged", Shutdown |-> "Acknowledged", ServersList |-> "Servers",
     ServersRefresh |-> "ServersRefreshed", BeginLogin |-> "LoginStep",
     SubmitTwoFactor |-> "LoginStep", SubmitFidoPayload |-> "LoginStep",
     RefreshSession |-> "LoginStatus", Logout |-> "Acknowledged",
     SubmitCredential |-> "Acknowledged", GetAccount |-> "Account", Select |-> "Selected",
     GroupsList |-> "Groups", GroupShow |-> "Group"]

unexpected_result(request, reply) == reply.ok /\ reply.kind # Expected[request.method]

\* The reply as the SDK's caller sees it.
requested(peer, request, world) ==
    LET reply == served(peer, request, world)
    IN IF unexpected_result(request, reply) THEN Refusal("Internal") ELSE reply

rpc_exit_code(code) ==
    CASE code \in {"NotImplemented", "UnsupportedProtocol", "DaemonBusy", "Internal",
                   "UpstreamCapabilityBlocked", "UnsupportedChallenge",
                   "ConfirmationRequired", "RateLimited"} -> 1
      [] code = "InvalidParams" -> 2
      [] code = "NotAuthenticated" -> 3
      [] code = "EntitlementMissing" -> 4
      [] code = "NoEligibleServer" -> 5
      [] code = "NetworkUnavailable" -> 6
      [] code = "TunnelFailed" -> 7
      [] code = "KillSwitchFailed" -> 8
      [] code = "DnsConfigFailed" -> 9
      [] code = "FirewallFailed" -> 10
      [] code = "SplitTunnelFailed" -> 11
      [] code = "PortForwardingFailed" -> 12
      [] code = "PermissionDenied" -> 14
      [] code = "ConfigInvalid" -> 15
      [] code \in {"CredentialBackendUnavailable", "CredentialPersistenceUnhealthy"} -> 16
      [] code = "SecureCoreUnavailable" -> 17
      [] code = "ProtocolUnavailable" -> 18

DAEMON_UNAVAILABLE == 13

\* checks_for: the trust checks are waived only by a debug build's flag.
checks_for(dev_flag, debug_build) == ~(debug_build /\ dev_flag = "1")

\* resolve_socket_path: the flag, then the environment, then the default. An
\* option is a set of at most one path.
resolve_socket_path(flag, environment) ==
    CHOOSE path \in IF flag # {} THEN flag
                    ELSE IF environment # {} THEN environment ELSE {"default"} : TRUE

\* connect_with_socket_override: whether the daemon is reached and trusted.
connect_with_socket_override(flag, host) ==
    LET path == resolve_socket_path(flag, host.environment)
    IN connect(checks_for(host.dev_flag, host.debug_build), host.paths[path],
               host.listeners[path]) = ""

-----------------------------------------------------------------------------
(* Arguments.                                                               *)

Bare == {"fastest", "random", "p2p", "tor", "secure-core"}
Valued == {"country", "state", "city", "server", "gateway", "group", "profile"}
BadTarget == [kind |-> "", value |-> "", entry |-> "", exit |-> ""]

parse_with_secure_core(words, entry, exit) ==
    LET head == words[1]
        sides == head = "secure-core"
    IN IF words = <<>> THEN BadTarget
       ELSE IF head \in Bare /\ Len(words) = 1
       THEN [kind |-> head, value |-> "", entry |-> IF sides THEN entry ELSE "",
             exit |-> IF sides THEN exit ELSE ""]
       ELSE IF head \in Valued /\ Len(words) = 2
       THEN [kind |-> head, value |-> words[2], entry |-> "", exit |-> ""]
       ELSE BadTarget

FEATURES == {"p2p", "tor", "secure-core", "streaming", "ipv6", "port-forwarding"}
PROTOCOLS == {"wireguard-udp", "wireguard-tcp", "stealth"}

parse_features(words) == words \subseteq FEATURES
parse_protocol(word) == word \in PROTOCOLS \union {""}

\* SelectionModifiers as the flags give them; by, physical country and
\* protocol are "" when not given.
NoFlags == [by |-> "", physical_country |-> "", excluded |-> {}, require |-> {}, protocol |-> ""]

\* connect_modifier_refusal: a flag that only --dry-run honours.
connect_modifier_refusal_Protocol(flags) == flags.by # "" \/ flags.protocol # ""

connect_modifier_refusal(flags) == flags # NoFlags

-----------------------------------------------------------------------------
(* Commands. An outcome is the requests sent, in order, and the exit code.  *)

Exits(code, sent) == [exit |-> IF code = "" THEN 0 ELSE rpc_exit_code(code), sent |-> sent]

\* One request whose refusal is the command's.
once(session, request) ==
    IF ~session.reached THEN [exit |-> DAEMON_UNAVAILABLE, sent |-> <<>>]
    ELSE Exits(requested(session.peer, request, session.world).code, <<request>>)

select_command(session, target, flags) ==
    once(session, Request("Select", [target |-> target, flags |-> flags]))

\* select, and connect --dry-run: every argument parses before anything is sent.
Selects(session, target, flags) ==
    IF target = BadTarget \/ ~parse_features(flags.require) \/ ~parse_protocol(flags.protocol)
    THEN Exits("InvalidParams", <<>>)
    ELSE select_command(session, target, flags)

connects(session, arguments) ==
    LET target == parse_with_secure_core(arguments.target, arguments.entry, arguments.exit)
    IN IF /\ arguments.entry # "" \/ arguments.exit # ""
          /\ arguments.target = <<>> \/ arguments.target[1] # "secure-core"
       THEN Exits("InvalidParams", <<>>)
       ELSE IF target = BadTarget THEN Exits("InvalidParams", <<>>)
       ELSE IF arguments.dry_run THEN Selects(session, target, arguments.flags)
       ELSE IF connect_modifier_refusal(arguments.flags) THEN Exits("NotImplemented", <<>>)
       ELSE once(session, Request("Connect", target))

\* refresh_report_result: an attempt that brought nothing is an error.
refresh_report_result(reply) ==
    IF ~reply.ok THEN reply.code
    ELSE IF reply.value = "RateLimited" THEN "RateLimited"
    ELSE IF reply.value = "Failed" THEN "Internal" ELSE ""

\* servers refresh: a demanded confirmation is given by --yes or by the user,
\* and the carried token is then spent on a second request.
servers_refresh(session, arguments) ==
    LET ask == Plain("ServersRefresh")
        confirm == Request("ServersRefresh", "token")
        reply == requested(session.peer, ask, session.world)
        again == requested(session.peer, confirm, session.world)
    IN IF ~session.reached THEN [exit |-> DAEMON_UNAVAILABLE, sent |-> <<>>]
       ELSE IF reply.code # "ConfirmationRequired"
       THEN Exits(refresh_report_result(reply), <<ask>>)
       ELSE IF ~arguments.yes /\ arguments.no_input THEN Exits("InvalidParams", <<ask>>)
       ELSE IF ~arguments.yes /\ ~arguments.answers THEN Exits("", <<ask>>)
       ELSE Exits(refresh_report_result(again), <<ask, confirm>>)

\* login_with_inputs: both lines are read before the daemon is contacted; a
\* challenge without a one-time code is one this client cannot answer. Of the
\* reads, the first arguments.readable succeed (the end of input is an empty
\* line, not a failure).
login_with_inputs(session, arguments) ==
    LET begin == Plain("BeginLogin")
        second == Plain("SubmitTwoFactor")
        reply == requested(session.peer, begin, session.world)
        final == requested(session.peer, second, session.world)
    IN IF arguments.tty \/ arguments.readable < 2 THEN Exits("InvalidParams", <<>>)
       ELSE IF ~session.reached THEN [exit |-> DAEMON_UNAVAILABLE, sent |-> <<>>]
       ELSE IF ~reply.ok THEN Exits(reply.code, <<begin>>)
       ELSE IF reply.value = "Session" THEN Exits("", <<begin>>)
       ELSE IF reply.value = "Blocked" THEN Exits("UpstreamCapabilityBlocked", <<begin>>)
       ELSE IF reply.value = "FidoChallenge" THEN Exits("UnsupportedChallenge", <<begin>>)
       ELSE IF arguments.readable < 3 THEN Exits("InvalidParams", <<begin>>)
       ELSE IF ~final.ok THEN Exits(final.code, <<begin, second>>)
       ELSE Exits(IF final.value = "Session" THEN "" ELSE "InvalidParams", <<begin, second>>)

\* daemon status pings, then reads the state.
daemon_status(session) ==
    LET ping == Request("Ping", "ping") IN
    IF once(session, ping).exit # 0 THEN once(session, ping)
    ELSE [once(session, Plain("GetState")) EXCEPT !.sent = <<ping>> \o @]

\* The grammar: the commands, those with subcommands under each of them.
Subcommands ==
    {"credentials status", "credentials migrate", "credentials import-provisioned-session",
     "credentials forget-password", "servers refresh", "group list", "group show",
     "daemon status", "daemon start", "daemon stop"}
Command ==
    {"login", "logout", "account", "status", "connect", "disconnect", "servers", "select",
     "protocols", "integration", "change-server", "reconnect", "config", "profile", "split",
     "dns", "port", "killswitch", "lan", "debug"} \union Subcommands

\* planned: commands of the grammar that are refused.
planned ==
    {"protocols", "integration", "change-server", "reconnect", "config", "profile", "split",
     "dns", "port", "killswitch", "lan", "debug", "credentials migrate",
     "credentials import-provisioned-session", "credentials forget-password"}

status(session) == once(session, Plain("GetState"))

daemon(session, sub) ==
    CASE sub = "status" -> daemon_status(session)
      [] sub = "stop" -> once(session, Plain("Shutdown"))
      [] sub = "start" -> Exits("NotImplemented", <<>>)

\* group, group list and group show; filtered_groups_catalog is what list
\* prints.
group_command(session, sub, id) ==
    once(session, IF sub = "show" THEN Request("GroupShow", id) ELSE Plain("GroupsList"))

filtered_groups_catalog(groups, origin) ==
    {group \in groups : origin \in {"", group.origin}}

account_command(session) == once(session, Plain("GetAccount"))

run(command, arguments, session) ==
    CASE command = "status" -> status(session)
      [] command = "daemon stop" -> daemon(session, "stop")
      [] command = "daemon status" -> daemon(session, "status")
      [] command = "daemon start" -> daemon(session, "start")
      [] command = "connect" -> connects(session, arguments)
      [] command = "disconnect" -> once(session, Plain("Disconnect"))
      [] command = "servers" -> once(session, Plain("ServersList"))
      [] command = "servers refresh" -> servers_refresh(session, arguments)
      [] command \in {"account", "credentials status"} -> account_command(session)
      [] command = "select" ->
            Selects(session, parse_with_secure_core(arguments.target, "", ""), arguments.flags)
      [] command = "group list" -> group_command(session, "list", "")
      [] command = "group show" -> group_command(session, "show", arguments.group)
      [] command = "logout" -> once(session, Plain("Logout"))
      [] command = "login" -> login_with_inputs(session, arguments)
      [] command \in planned -> Exits("NotImplemented", <<>>)

-----------------------------------------------------------------------------
(* Questions put to the command-line client, and what any answer has to     *)
(* satisfy, stated on the requests that were sent and on what the daemon    *)
(* answered to each.                                                        *)

User == 7

-----------------------------------------------------------------------------
(* Hosts: where the socket is looked for, and who listens behind it.        *)

Component(kind, writers, uid) == [kind |-> kind, writers |-> writers, uid |-> uid, gid |-> 0]
SocketPath(leaf, directory) ==
    [absolute |-> TRUE, dots |-> FALSE, under_root |-> TRUE, components |-> <<leaf, directory>>]

Leaves == {Component("socket", {"group"}, 0), Component("socket", {"world"}, 0),
           Component("socket", {}, User), Component("absent", {}, 0), Component("link", {}, 0)}
Directories == {Component("directory", {}, 0), Component("directory", {"group"}, 0)}
Clean == SocketPath(Component("socket", {"group"}, 0), Component("directory", {}, 0))

Listeners == {<<>>, <<[uid |-> 0]>>, <<[uid |-> User]>>}

\* The default socket is a clean one; the one the environment names varies.
Host(path, listener, dev_flag, debug_build) ==
    [environment |-> {"named"}, dev_flag |-> dev_flag, debug_build |-> debug_build,
     paths |-> [named |-> path, default |-> Clean],
     listeners |-> [named |-> listener, default |-> <<[uid |-> 0]>>]]

Hosts == {Host(SocketPath(leaf, directory), listener, dev_flag, debug_build) :
            leaf \in Leaves, directory \in Directories, listener \in Listeners,
            dev_flag \in {"", "1"}, debug_build \in BOOLEAN}
Reachable == Host(Clean, <<[uid |-> 0]>>, "", FALSE)
Stopped == Host(Clean, <<>>, "", FALSE)

-----------------------------------------------------------------------------
(* Worlds: what the services behind the daemon's handler would answer.      *)

World == [owner |-> {User}, auth |-> TRUE, account |-> "", status |-> "LoggedIn",
          catalog |-> "cached", groups |-> {"europe"}, select |-> "", refresh |-> "Changed",
          confirmed |-> "Changed", login |-> "Session", second |-> "Session"]

Refreshes == {"Changed", "NotModified", "RateLimited", "Failed", "ConfirmationRequired",
              "Suppressed", "Unavailable"}
Logins == {"Session", "Blocked", "FidoChallenge", "TwoFactorChallenge", "NotAuthenticated",
           "NetworkUnavailable"}

Worlds ==
    {World, [World EXCEPT !.auth = FALSE], [World EXCEPT !.account = "NetworkUnavailable"],
     [World EXCEPT !.catalog = "refused"], [World EXCEPT !.select = "NoEligibleServer"],
     [World EXCEPT !.owner = {}], [World EXCEPT !.owner = {User + 1}]}
RefreshWorlds == {[World EXCEPT !.refresh = r, !.confirmed = c] : r \in Refreshes, c \in Refreshes}
LoginWorlds == {[World EXCEPT !.login = l, !.second = s] : l \in Logins, s \in Logins}

-----------------------------------------------------------------------------
(* Arguments.                                                               *)

Arguments ==
    [target |-> <<"fastest">>, entry |-> "", exit |-> "", dry_run |-> FALSE, flags |-> NoFlags,
     group |-> "europe", yes |-> FALSE, no_input |-> FALSE, answers |-> FALSE, tty |-> FALSE,
     readable |-> 3]

Targets == {<<>>, <<"fastest">>, <<"fastest", "now">>, <<"country">>, <<"country", "CH">>,
            <<"secure-core">>, <<"nowhere">>}
Flags == {NoFlags, [NoFlags EXCEPT !.by = "load"], [NoFlags EXCEPT !.physical_country = "CH"],
          [NoFlags EXCEPT !.excluded = {"CH"}], [NoFlags EXCEPT !.require = {"p2p"}],
          [NoFlags EXCEPT !.require = {"speed"}], [NoFlags EXCEPT !.protocol = "stealth"],
          [NoFlags EXCEPT !.protocol = "morse"]}

ArgumentsOf(command) ==
    CASE command \in {"connect", "select"} ->
            {[Arguments EXCEPT !.target = target, !.entry = entry, !.dry_run = dry,
                               !.flags = flags] :
                target \in Targets, entry \in {"", "SE"}, dry \in BOOLEAN, flags \in Flags}
      [] command = "servers refresh" ->
            {[Arguments EXCEPT !.yes = yes, !.no_input = quiet, !.answers = answers] :
                yes \in BOOLEAN, quiet \in BOOLEAN, answers \in BOOLEAN}
      [] command = "login" ->
            {[Arguments EXCEPT !.tty = tty, !.readable = lines] :
                tty \in BOOLEAN, lines \in 0 .. 3}
      [] command = "group show" -> {Arguments, [Arguments EXCEPT !.group = "atlantis"]}
      [] OTHER -> {Arguments}

Question(command, arguments, host, uid, world) ==
    [kind |-> "command", command |-> command, arguments |-> arguments, host |-> host,
     peer |-> [uid |-> uid], world |-> world]

WorldsOf(command) ==
    CASE command = "servers refresh" -> RefreshWorlds
      [] command = "login" -> LoginWorlds
      [] OTHER -> Worlds

\* The questions asked: every command, and two of them on every host.
Asks(q) ==
    \/ \E command \in Command : \E arguments \in ArgumentsOf(command),
          host \in {Reachable, Stopped}, uid \in {ROOT_UID, User}, world \in WorldsOf(command) :
             q = Question(command, arguments, host, uid, world)
    \/ \E command \in {"status", "login"}, host \in Hosts :
          q = Question(command, Arguments, host, User, World)

SessionOf(q) ==
    [reached |-> connect_with_socket_override({}, q.host), peer |-> q.peer, world |-> q.world]

Answer(q) == run(q.command, q.arguments, SessionOf(q))

-----------------------------------------------------------------------------
\* What the daemon answered to the requests that were sent.
Replies(q, a) == [i \in DOMAIN a.sent |-> served(q.peer, a.sent[i], q.world)]

\* The last answer brought what the command is for.
Brought(q, reply) ==
    /\ reply.ok
    /\ q.command = "servers refresh" => reply.value \in {"Changed", "NotModified"}
    /\ q.command = "login" => reply.value = "Session"

Declined(q, replies) ==
    /\ q.command = "servers refresh" /\ ~q.arguments.yes /\ ~q.arguments.no_input
    /\ ~q.arguments.answers /\ Last(replies).code = "ConfirmationRequired"

\* The socket and its listener are root's, and no one else could replace them.
SocketIsRoots(host) ==
    /\ host.listeners["named"] = <<[uid |-> ROOT_UID]>>
    /\ \A c \in ToSet(host.paths["named"].components) :
          c.uid = ROOT_UID /\ c.kind \in {"socket", "directory"} /\ "world" \notin c.writers
    /\ host.paths["named"].components[2].writers = {}

\* A command succeeds exactly when the daemon did what it is for, or the user
\* declined; a refusal of the daemon's is the exit code (run, rpc_exit_code).
ExitIsHonest(q, a) ==
    LET replies == Replies(q, a) IN
    /\ a.exit = 0 <=> /\ a.sent # <<>>
                      /\ Brought(q, Last(replies)) \/ Declined(q, replies)
    /\ a.sent # <<>> => \/ Last(replies).ok
                        \/ Last(replies).code = "ConfirmationRequired"
                        \/ a.exit = rpc_exit_code(Last(replies).code)

\* No argument is dropped: what a request does not carry is refused before
\* anything is sent, and a confirmation is spent only when the daemon asked
\* for it and the user gave it (connect_modifier_refusal, servers_refresh).
NothingIsAssumed(q, a) ==
    /\ q.command = "connect" /\ a.sent # <<>> =>
         \/ a.sent[1].method = "Select" /\ a.sent[1].value.flags = q.arguments.flags
         \/ a.sent[1].method = "Connect" /\ q.arguments.flags = NoFlags
    /\ q.command \in {"connect", "select"} /\ a.sent # <<>> =>
         q.arguments.flags.require \subseteq FEATURES
    /\ q.command = "servers refresh" /\ Len(a.sent) = 2 =>
         /\ q.arguments.yes \/ (q.arguments.answers /\ ~q.arguments.no_input)
         /\ Replies(q, a)[1].code = "ConfirmationRequired"

\* A release build talks to root's daemon only, only root stops it, and only
\* root and the owner read who owns the connection (connect, authorize,
\* redact_state_for_peer).
OnlyRootsDaemon(q, a) ==
    /\ a.sent # <<>> => SocketIsRoots(q.host) \/ (q.host.debug_build /\ q.host.dev_flag = "1")
    /\ q.command = "daemon stop" /\ a.exit = 0 => q.peer.uid = ROOT_UID
    /\ q.command = "status" /\ a.exit = 0 /\ q.peer.uid # ROOT_UID =>
         Replies(q, a)[1].value \subseteq {q.peer.uid}

Right(q, a) == ExitIsHonest(q, a) /\ NothingIsAssumed(q, a) /\ OnlyRootsDaemon(q, a)
=============================================================================

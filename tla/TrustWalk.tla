----------------------------- MODULE TrustWalk -----------------------------
(***************************************************************************)
(* Who may be believed: the store's walk of a document's path               *)
(* (store/src/fs_trust.rs), the client's walk of the daemon socket's path   *)
(* and the peer it connects to (ipc/src/peer.rs, ipc/src/client.rs), and    *)
(* the role each request needs (ipc/src/authz.rs).                          *)
(*                                                                         *)
(* A path is [absolute, dots, under_root, components], its components from  *)
(* the leaf up to the trust root. A component is [kind, writers, uid, gid]: *)
(* writers are the classes beyond the owner with write permission, a kind   *)
(* of "absent" or "hidden" is one that lstat does not find or may not see.  *)
(***************************************************************************)
EXTENDS Integers, SequencesExt

ROOT_UID == 0
ROOT_GID == 0

\* component_chain: what is wrong with the path's spelling.
component_chain(path) ==
    IF ~path.absolute THEN "NotAbsolute"
    ELSE IF path.dots THEN "RelativeComponent"
    ELSE IF ~path.under_root THEN "NotUnderTrustRoot" ELSE ""

\* The two passes of a walk: the first defect from the leaf up ("" is none),
\* then the owners.
Walk(path, defects, owned) ==
    LET first == SelectInSeq(defects, LAMBDA d : d # "")
    IN IF component_chain(path) # "" THEN component_chain(path)
       ELSE IF first # 0 THEN defects[first]
       ELSE IF ~owned THEN "NotRootOwned" ELSE ""

\* fs_trust::verify_trusted_path. An absent component carries no defect when
\* the caller allows it.
verify_trusted_path(path, missing_leaf) ==
    LET component(i) == path.components[i]
        defect(i) ==
            IF component(i).kind \in {"absent", "hidden"}
            THEN IF missing_leaf = "Allow" /\ component(i).kind = "absent" THEN "" ELSE "Io"
            ELSE IF component(i).kind = "link" THEN "Symlink"
            ELSE IF i = 1 /\ component(i).kind # "file" THEN "NotARegularFile"
            ELSE IF i # 1 /\ component(i).kind # "directory" THEN "NotADirectory"
            ELSE IF component(i).writers # {} THEN "GroupWorldWritable" ELSE ""
        foreign(i) == /\ component(i).kind # "absent"
                      /\ component(i).uid # ROOT_UID \/ component(i).gid # ROOT_GID
    IN Walk(path, [i \in DOMAIN path.components |-> defect(i)],
            \A i \in DOMAIN path.components : ~foreign(i))

\* peer::walk_socket_trust. The leaf is a socket that a group may write to
\* and own: it is handed to the client group.
walk_socket_trust(path) ==
    LET component(i) == path.components[i]
        defect(i) ==
            IF component(i).kind \in {"absent", "hidden"} THEN "Io"
            ELSE IF component(i).kind = "link" THEN "Symlink"
            ELSE IF i = 1
            THEN IF component(i).kind # "socket" THEN "NotASocket"
                 ELSE IF "world" \in component(i).writers THEN "WorldWritableSocket" ELSE ""
            ELSE IF component(i).kind # "directory" THEN "NotADirectory"
            ELSE IF component(i).writers # {} THEN "GroupWorldWritable" ELSE ""
        foreign(i) == \/ component(i).uid # ROOT_UID
                      \/ i # 1 /\ component(i).gid # ROOT_GID
    IN Walk(path, [i \in DOMAIN path.components |-> defect(i)],
            \A i \in DOMAIN path.components : ~foreign(i))

\* client::verify_socket_trusted: a socket that is not there is unreachable,
\* anything else the walk refuses is untrusted.
verify_socket_trusted(path) ==
    LET refusal == walk_socket_trust(path) IN
    IF refusal = "" THEN ""
    ELSE IF refusal = "Io" /\ path.components[1].kind = "absent" THEN "Unreachable"
    ELSE "Untrusted"

\* PeerCredentials::is_root, of the process at the other end.
is_root(peer) == peer.uid = ROOT_UID

\* IpcClient::connect up to the handshake: the walk, the connect, and the
\* credentials the kernel captured when the peer listened.
connect(checks, path, listener) ==
    LET untrusted == IF checks THEN verify_socket_trusted(path) ELSE "" IN
    IF untrusted # "" THEN untrusted
    ELSE IF listener = <<>> THEN "Unreachable"
    ELSE IF checks /\ ~is_root(listener[1]) THEN "Untrusted" ELSE ""

Methods ==
    {"Ping", "GetState", "Connect", "Disconnect", "ServersList", "ServersRefresh",
     "BeginLogin", "SubmitTwoFactor", "SubmitFidoPayload", "RefreshSession", "Logout",
     "SubmitCredential", "GetAccount", "Select", "GroupsList", "GroupShow", "Shutdown"}

required_role(method) == IF method = "Shutdown" THEN "Admin" ELSE "AnyUser"

authorize(role, peer) ==
    IF role = "Admin" /\ ~is_root(peer) THEN "PermissionDenied" ELSE ""
=============================================================================

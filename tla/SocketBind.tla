----------------------------- MODULE SocketBind -----------------------------
(***************************************************************************)
(* Binding the daemon's socket (crates/ipc/src/server/bind.rs): the runtime *)
(* directory is pinned, an entry at the public name is judged and a stale   *)
(* socket removed, the new socket is born in a private staging directory,   *)
(* given its mode and only then linked under the public name, and a root    *)
(* daemon hands it to the client group. Each system call is a step.         *)
(*                                                                         *)
(* A daemon process binds once, so its staging serial is always the first   *)
(* and the staging directory's name is the same in every process. An inode  *)
(* is a socket a run of a daemon has created, or 0 for what is not one.     *)
(***************************************************************************)
EXTENDS Integers, FiniteSets

CONSTANTS
    Daemons,      \* processes of the daemon
    Umasks,       \* modes a socket may be born with: "0660", "0777", ...
    Privileges,   \* whether the daemon may run as root
    Groups,       \* the client group: "none", "known" or "unknown"
    Overlap,      \* two starts may be under way at once
    MaxStarts,    \* bound: starts of a daemon
    MaxFaults     \* bound: system calls that fail, and crashes

VARIABLES
    dir,      \* the runtime directory's mode, or "absent"
    public,   \* the entry at the public name
    staging,  \* the staging directory: whether there, its mode, its socket
    inodes,   \* per socket: mode, group, and whether its listener is open
    procs,    \* per daemon: the next step, its socket, root or not, group
    starts, faults

vars == <<dir, public, staging, inodes, procs, starts, faults>>

Nothing == [kind |-> "none", inode |-> 0]
Socket(i) == [kind |-> "socket", inode |-> i]
NoStaging == [there |-> FALSE, mode |-> "none", inode |-> 0]

\* What an operator may have left at the name: links are judged by what they
\* lead to.
Foreign == {[kind |-> k, inode |-> 0] :
               k \in {"file", "directory", "link_to_file", "dangling_link", "link_loop"}}

Down == [pc |-> "down", inode |-> 0, root |-> FALSE, group |-> "none"]

TypeOK ==
    /\ dir \in {"absent", "0755", "0700", "0777"}
    /\ public \in {Nothing} \cup {Socket(i) : i \in 1 .. starts} \cup Foreign
           \cup {[kind |-> "link_to_socket", inode |-> i] : i \in 1 .. starts}
    /\ staging.inode \in 0 .. starts /\ staging.there \in BOOLEAN
    /\ DOMAIN inodes \subseteq 1 .. starts
    /\ \A d \in Daemons : procs[d].inode \in 0 .. starts
    /\ starts \in 0 .. MaxStarts /\ faults \in 0 .. MaxFaults

Init ==
    /\ dir \in {"absent", "0700", "0777"}
    /\ public \in IF dir = "absent" THEN {Nothing} ELSE {Nothing} \cup Foreign
    /\ staging = NoStaging /\ inodes = <<>>
    /\ procs = [d \in Daemons |-> Down]
    /\ starts = 0 /\ faults = 0

At(d, step) == procs[d].pc = step
Go(d, step) == procs' = [procs EXCEPT ![d].pc = step]
Fine == UNCHANGED faults
Fault == faults < MaxFaults /\ faults' = faults + 1

\* bind returns the error and the process exits; its listener closes.
Closed(i) == [j \in DOMAIN inodes |->
                 IF j = i THEN [inodes[j] EXCEPT !.open = FALSE] ELSE inodes[j]]
Exit(d) == /\ procs' = [procs EXCEPT ![d] = Down]
           /\ inodes' = Closed(procs[d].inode)

\* A call fails when its object is gone, or for a reason of its own.
Fails(d, gone) ==
    /\ Fault \/ (gone /\ Fine)
    /\ Exit(d) /\ UNCHANGED <<dir, public, staging, starts>>

-----------------------------------------------------------------------------
(* bind_with_resolved up to the listener.                                   *)

bind_with_group(d) ==
    /\ At(d, "down") /\ starts < MaxStarts
    /\ Overlap \/ \A other \in Daemons : procs[other].pc \in {"down", "serving"}
    /\ starts' = starts + 1
    /\ \E root \in Privileges, group \in Groups :
          procs' = [procs EXCEPT ![d] = [pc |-> "pin", inode |-> 0, root |-> root,
                                         group |-> group]]
    /\ dir' = IF dir = "absent" THEN "0700" ELSE dir
    /\ UNCHANGED <<public, staging, inodes, faults>>

pin_runtime_dir(d) ==
    /\ At(d, "pin")
    /\ \/ /\ Fine /\ dir' = "0755" /\ Go(d, "inspect")
          /\ UNCHANGED <<public, staging, inodes, starts>>
       \/ Fails(d, FALSE)

\* connect(2) to the name, through a link: only a listener answers.
Live(entry) == entry.inode # 0 /\ inodes[entry.inode].open

\* Only a socket, or a link to one, is probed, and only one that refuses the
\* connection may be removed; any other entry stands.
refuse_unless_stale_socket(entry) ==
    IF entry.kind \in {"socket", "link_to_socket"} /\ ~Live(entry)
    THEN "remove" ELSE "refuse"

Inspect(d) ==
    /\ At(d, "inspect")
    /\ \/ /\ Fine
          /\ \/ public = Nothing /\ Go(d, "unstage") /\ UNCHANGED inodes
             \/ /\ public # Nothing
                /\ \/ /\ refuse_unless_stale_socket(public) = "remove"
                      /\ Go(d, "remove") /\ UNCHANGED inodes
                   \/ /\ refuse_unless_stale_socket(public) = "refuse"
                      /\ Exit(d)
          /\ UNCHANGED <<dir, public, staging, starts>>
       \/ Fails(d, FALSE)

\* remove_file: the name goes, whatever is there by now; a link's target
\* stays.
Remove(d) ==
    /\ At(d, "remove")
    /\ \/ /\ Fine /\ public # Nothing
          /\ public' = Nothing /\ Go(d, "unstage")
          /\ UNCHANGED <<dir, staging, inodes, starts>>
       \/ Fails(d, public = Nothing)

-----------------------------------------------------------------------------
(* bind_socket_staged.                                                      *)

\* A failure past the directory's creation takes the directory away.
StagedFails(d, gone) ==
    /\ Fault \/ (gone /\ Fine)
    /\ staging' = NoStaging /\ Exit(d)
    /\ UNCHANGED <<dir, public, starts>>

Unstage(d) ==
    /\ At(d, "unstage") /\ Fine
    /\ staging' = NoStaging /\ Go(d, "mkdir")
    /\ UNCHANGED <<dir, public, inodes, starts>>

CreateStaging(d) ==
    /\ At(d, "mkdir")
    /\ \/ /\ Fine /\ ~staging.there
          /\ staging' = [there |-> TRUE, mode |-> "0755", inode |-> 0]
          /\ Go(d, "close_dir") /\ UNCHANGED <<dir, public, inodes, starts>>
       \/ Fails(d, staging.there)

CloseStaging(d) ==
    /\ At(d, "close_dir")
    /\ \/ /\ Fine /\ staging.there
          /\ staging' = [staging EXCEPT !.mode = "0700"]
          /\ Go(d, "bind") /\ UNCHANGED <<dir, public, inodes, starts>>
       \/ StagedFails(d, ~staging.there)

\* The socket is born with whatever mode the umask leaves.
BindStaged(d) ==
    /\ At(d, "bind")
    /\ \/ /\ Fine /\ staging.there /\ staging.inode = 0
          /\ \E born \in Umasks :
                LET i == Cardinality(DOMAIN inodes) + 1 IN
                /\ inodes' = [j \in 1 .. i |-> IF j < i THEN inodes[j]
                                 ELSE [mode |-> born, group |-> "own", open |-> TRUE]]
                /\ staging' = [staging EXCEPT !.inode = i]
                /\ procs' = [procs EXCEPT ![d].pc = "staged_mode", ![d].inode = i]
          /\ UNCHANGED <<dir, public, starts>>
       \/ StagedFails(d, ~staging.there \/ staging.inode # 0)

Moded(i) == [inodes EXCEPT ![i].mode = "0660"]

set_socket_mode_staged_After(d) ==
    /\ At(d, "staged_mode") /\ Fine /\ Go(d, "link")
    /\ UNCHANGED <<dir, public, staging, inodes, starts>>

\* set_socket_mode on the staged name.
set_socket_mode_staged(d) ==
    /\ At(d, "staged_mode")
    /\ \/ /\ Fine /\ staging.inode # 0
          /\ inodes' = Moded(staging.inode)
          /\ Go(d, "link") /\ UNCHANGED <<dir, public, staging, starts>>
       \/ StagedFails(d, staging.inode = 0)

\* hard_link never replaces what is there.
Publish(d) ==
    /\ At(d, "link")
    /\ \/ /\ Fine /\ public = Nothing /\ staging.inode # 0
          /\ public' = Socket(staging.inode)
          /\ Go(d, "unlink_staged") /\ UNCHANGED <<dir, staging, inodes, starts>>
       \/ StagedFails(d, public # Nothing \/ staging.inode = 0)

\* The staged name and the directory go; neither result is looked at.
UnlinkStaged(d) ==
    /\ At(d, "unlink_staged")
    /\ \/ Fine /\ staging' = NoStaging
       \/ Fault /\ UNCHANGED staging
    /\ Go(d, "mode")
    /\ UNCHANGED <<dir, public, inodes, starts>>

-----------------------------------------------------------------------------
(* The rest of bind_with_resolved, and the server's end.                    *)

set_socket_mode(d) ==
    /\ At(d, "mode")
    /\ \/ /\ Fine /\ public.inode # 0
          /\ inodes' = Moded(public.inode)
          /\ Go(d, "group") /\ UNCHANGED <<dir, public, staging, starts>>
       \/ Fails(d, public.inode = 0)

\* The hand-off is a root daemon's; an unknown group fails the bind.
chown_socket_group(d) ==
    LET p == procs[d]
        handed == p.group # "none" /\ p.root IN
    /\ At(d, "group")
    /\ \/ /\ Fine /\ ~handed /\ Go(d, "serving") /\ UNCHANGED inodes
       \/ /\ Fine /\ handed /\ p.group = "known" /\ public.inode # 0
          /\ inodes' = [inodes EXCEPT ![public.inode].group = "client"]
          /\ Go(d, "serving")
       \/ Fine /\ handed /\ (p.group = "unknown" \/ public.inode = 0) /\ Exit(d)
       \/ Fault /\ handed /\ Exit(d)
    /\ UNCHANGED <<dir, public, staging, starts>>

\* Drop for IpcServer: the name goes, then the listener.
Stop(d) ==
    /\ At(d, "serving")
    /\ public' = IF public.kind = "directory" THEN public ELSE Nothing
    /\ Exit(d) /\ UNCHANGED <<dir, staging, starts, faults>>

Crash(d) ==
    /\ ~At(d, "down") /\ Fault
    /\ Exit(d) /\ UNCHANGED <<dir, public, staging, starts>>

\* While nothing runs an operator may turn a left socket into a link to it.
Relink ==
    /\ \A d \in Daemons : At(d, "down")
    /\ public.kind = "socket"
    /\ public' = [public EXCEPT !.kind = "link_to_socket"]
    /\ UNCHANGED <<dir, staging, inodes, procs, starts, faults>>

Step(d) ==
    \/ bind_with_group(d) \/ pin_runtime_dir(d) \/ Inspect(d) \/ Remove(d)
    \/ Unstage(d) \/ CreateStaging(d) \/ CloseStaging(d) \/ BindStaged(d)
    \/ set_socket_mode_staged(d) \/ Publish(d) \/ UnlinkStaged(d)
    \/ set_socket_mode(d) \/ chown_socket_group(d) \/ Stop(d) \/ Crash(d)

Next == Relink \/ \E d \in Daemons : Step(d)

Spec == Init /\ [][Next]_vars

-----------------------------------------------------------------------------
(* The properties.                                                          *)

\* A daemon that serves is the one the public name leads to, with the pinned
\* mode and the configured group, and stays so whatever another start does:
\* a live daemon's socket is never displaced.
ServingIsReachable ==
    \A d \in Daemons : At(d, "serving") =>
        /\ public = Socket(procs[d].inode)
        /\ dir = "0755"
        /\ inodes[public.inode] =
              [mode |-> "0660", open |-> TRUE,
               group |-> IF procs[d].root /\ procs[d].group = "known"
                         THEN "client" ELSE "own"]

\* The public name only ever meets a socket of the pinned mode: there is no
\* moment between the name's appearance and the mode's.
PublishedIsPinned ==
    public.kind = "socket" => inodes[public.inode].mode = "0660"

\* Starting never removes an entry that is not a stale socket: not a file, a
\* directory or a link to one, which answer a probe like a stale socket does.
OthersEntriesSurvive ==
    (public \in Foreign) => UNCHANGED public
=============================================================================

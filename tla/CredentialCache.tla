-------------------------- MODULE CredentialCache --------------------------
(***************************************************************************)
(* The encrypted cache of protocol/src/cache.rs: the master keyfile that    *)
(* the first opener creates, the directory it lies in, and the entries      *)
(* sealed under it, over a disk that forgets what was not synced.           *)
(*                                                                         *)
(* The keyfile and the entries lie in one directory, the daemon's state     *)
(* directory. A file's bytes are synced before its name appears, so a name  *)
(* is whole or absent; whether the name outlives a power loss is a matter   *)
(* of its directory. An opener is a process, or a thread of one.            *)
(***************************************************************************)
EXTENDS Naturals, FiniteSets

CONSTANTS
    Openers,
    CacheKeys,      \* CacheKey's variants that occur
    Sizes,          \* plaintext sizes that are put
    MAX_PLAINTEXT_LEN,
    MaxKeys,        \* bound: master keys drawn
    MaxPuts,        \* bound: values put
    MaxFaults,      \* bound: system calls that fail
    MaxStops        \* bound: crashes, of one opener or of the power

VARIABLES
    now,        \* what the file system shows
    durable,    \* what it is certain to show after a power loss
    opener,     \* where each opener is and the key it holds
    keys,       \* master keys drawn so far
    puts,       \* values put so far
    faults,
    stops

vars == <<now, durable, opener, keys, puts, faults, stops>>

\* key = 0: no keyfile. value = 0: no entry. temps are the raw keys that a
\* publication has left beside the keyfile.
NoEntry == [value |-> 0, key |-> 0, name |-> ""]
Empty == [dir |-> FALSE, key |-> 0, temps |-> {}, entries |-> [k \in CacheKeys |-> NoEntry]]
Down == [at |-> "down", key |-> 0, created |-> FALSE, entry |-> NoEntry]

TypeOK ==
    /\ \A d \in {now, durable} :
        /\ d.dir \in BOOLEAN /\ d.key \in 0 .. MaxKeys /\ d.temps \subseteq 1 .. MaxKeys
        /\ \A k \in CacheKeys : d.entries[k].key \in 0 .. MaxKeys
    /\ \A p \in Openers : opener[p].key \in 0 .. MaxKeys

Init ==
    /\ now = Empty /\ durable = Empty
    /\ opener = [p \in Openers |-> Down]
    /\ keys = 0 /\ puts = 0 /\ faults = 0 /\ stops = 0

At(p, label) == opener[p].at = label
Go(p, label) == opener' = [opener EXCEPT ![p].at = label]
Fine == UNCHANGED <<faults, stops>>
Fault == faults < MaxFaults /\ faults' = faults + 1 /\ UNCHANGED stops

\* An open that fails reports to its caller, who has no cache.
Fails(p) == opener' = [opener EXCEPT ![p] = Down]

\* sync_parent_dir of a file in the directory: its names are durable.
Synced == [now EXCEPT !.dir = durable.dir]

-----------------------------------------------------------------------------
(* open                                                                     *)

Start(p) ==
    /\ At(p, "down")
    /\ Go(p, "read_keyfile")
    /\ UNCHANGED <<now, durable, keys, puts>> /\ Fine

\* read_keyfile, on the first look and again after a lost race. A key that
\* is accepted has its name synced first.
read_keyfile_Unsynced(p, label, absent) ==
    /\ At(p, label)
    /\ \/ /\ now.key = 0 /\ absent /\ UNCHANGED durable /\ Fine
       \/ /\ now.key # 0
          /\ opener' = [opener EXCEPT ![p].at = "init", ![p].key = now.key]
          /\ UNCHANGED durable /\ Fine
       \/ now.key # 0 /\ Fails(p) /\ Fault /\ UNCHANGED durable
    /\ UNCHANGED <<now, keys, puts>>

read_keyfile(p, label, absent) ==
    /\ At(p, label)
    /\ \/ /\ now.key = 0 /\ absent /\ UNCHANGED durable /\ Fine
       \/ /\ now.key # 0
          /\ opener' = [opener EXCEPT ![p].at = "init", ![p].key = now.key]
          /\ durable' = Synced /\ Fine
       \/ now.key # 0 /\ Fails(p) /\ Fault /\ UNCHANGED durable
    /\ UNCHANGED <<now, keys, puts>>

Look(p) == read_keyfile(p, "read_keyfile", Go(p, "collect"))

\* The winner's key; one that has vanished is an error.
Reload(p) == read_keyfile(p, "lost", Fails(p))

\* collect_new_components: the opener that finds no directory answers for it.
collect_new_components(p) ==
    \E stage \in {<<"collect", "create">>, <<"init", "create_init">>} :
        /\ At(p, stage[1])
        /\ opener' = [opener EXCEPT ![p].at = stage[2], ![p].created = ~now.dir]
        /\ UNCHANGED <<now, durable, keys, puts>> /\ Fine

\* create_dir_all.
create_dir_all(p) ==
    \E stage \in {<<"create", "sync">>, <<"create_init", "sync_init">>} :
        /\ At(p, stage[1])
        /\ \/ now' = [now EXCEPT !.dir = TRUE] /\ Go(p, stage[2]) /\ Fine
           \/ Fails(p) /\ Fault /\ UNCHANGED now
        /\ UNCHANGED <<durable, keys, puts>>

\* sync_new_components; when it fails, remove_created_components takes the
\* directory away again if nothing is in it.
sync_new_components(p) ==
    \E stage \in {<<"sync", "publish">>, <<"sync_init", "open">>} :
        /\ At(p, stage[1])
        /\ \/ /\ durable' = IF opener[p].created THEN [durable EXCEPT !.dir = now.dir]
                            ELSE durable
              /\ Go(p, stage[2]) /\ Fine /\ UNCHANGED now
           \/ /\ opener[p].created
              /\ now' = IF [now EXCEPT !.dir = FALSE] = Empty THEN Empty ELSE now
              /\ Fails(p) /\ Fault /\ UNCHANGED durable
        /\ UNCHANGED <<keys, puts>>

-----------------------------------------------------------------------------
(* create_keyfile_no_replace                                                *)

\* A fresh key, whole and synced under a temporary name of its own.
WriteTemp(p) ==
    /\ At(p, "publish") /\ keys < MaxKeys
    /\ keys' = keys + 1
    /\ \/ /\ now.dir
          /\ now' = [now EXCEPT !.temps = @ \cup {keys'}]
          /\ opener' = [opener EXCEPT ![p].at = "link", ![p].key = keys']
          /\ Fine
       \/ ~now.dir /\ Fails(p) /\ Fine /\ UNCHANGED now
       \/ Fails(p) /\ Fault /\ UNCHANGED now
    /\ UNCHANGED <<durable, puts>>

Unlinked(p) == [now EXCEPT !.temps = @ \ {opener[p].key}]

\* hard_link: the first name stands.
hard_link(p) ==
    /\ At(p, "link")
    /\ \/ /\ now.key = 0
          /\ now' = [now EXCEPT !.key = opener[p].key] /\ Go(p, "unlink") /\ Fine
       \/ /\ now.key # 0
          /\ now' = Unlinked(p) /\ Go(p, "lost") /\ Fine
       \/ now' = Unlinked(p) /\ Fails(p) /\ Fault
    /\ UNCHANGED <<durable, keys, puts>>

Unlink(p) ==
    /\ At(p, "unlink")
    /\ \/ now' = Unlinked(p) /\ Go(p, "sync_key") /\ Fine
       \/ Fails(p) /\ Fault /\ UNCHANGED now
    /\ UNCHANGED <<durable, keys, puts>>

SyncKey(p) ==
    /\ At(p, "sync_key")
    /\ \/ durable' = Synced /\ Go(p, "init") /\ Fine
       \/ Fails(p) /\ Fault /\ UNCHANGED durable
    /\ UNCHANGED <<now, keys, puts>>

-----------------------------------------------------------------------------
(* An open cache.                                                           *)

\* write_entry up to the rename: a value too large is refused before it is
\* sealed; the name it is sealed under travels with it.
write_entry(p) ==
    \E k \in CacheKeys, size \in Sizes :
        /\ At(p, "open") /\ puts < MaxPuts
        /\ puts' = puts + 1
        /\ \/ /\ size <= MAX_PLAINTEXT_LEN /\ now.dir
              /\ now' = [now EXCEPT !.entries[k] =
                            [value |-> puts', key |-> opener[p].key, name |-> k]]
              /\ opener' = [opener EXCEPT ![p].at = "sync_entry",
                                          ![p].entry = now'.entries[k]]
              /\ Fine
           \/ size > MAX_PLAINTEXT_LEN /\ Fine /\ UNCHANGED <<now, opener>>
           \/ Fault /\ UNCHANGED <<now, opener>>
        /\ UNCHANGED <<durable, keys>>

\* try_remove: an entry that is not there is removed too.
try_remove(p) ==
    \E k \in CacheKeys :
        /\ At(p, "open") /\ now.entries[k] # NoEntry
        /\ now' = [now EXCEPT !.entries[k] = NoEntry]
        /\ opener' = [opener EXCEPT ![p].at = "sync_entry",
                                    ![p].entry = [NoEntry EXCEPT !.name = k]]
        /\ UNCHANGED <<durable, keys, puts>> /\ Fine

\* The parent's sync, and only then Ok.
SyncEntry(p) ==
    /\ At(p, "sync_entry")
    /\ \/ durable' = Synced /\ Fine
       \/ Fault /\ UNCHANGED durable
    /\ opener' = [opener EXCEPT ![p].at = "open", ![p].entry = NoEntry]
    /\ UNCHANGED <<now, keys, puts>>

\* read_entry: what was sealed under another key or another name is absent.
read_entry(p, k) ==
    IF now.entries[k].key = opener[p].key /\ now.entries[k].name = k
    THEN now.entries[k].value ELSE 0

-----------------------------------------------------------------------------
(* What may happen to them.                                                 *)

Crash(p) ==
    /\ opener[p] # Down /\ stops < MaxStops
    /\ stops' = stops + 1
    /\ opener' = [opener EXCEPT ![p] = Down]
    /\ UNCHANGED <<now, durable, keys, puts, faults>>

\* Of every name, the power leaves what the file system last showed or what
\* was synced; without its directory there is none.
PowerLoss ==
    /\ stops < MaxStops /\ stops' = stops + 1
    /\ \E dir \in {now.dir, durable.dir}, key \in {now.key, durable.key},
          temps \in {now.temps, durable.temps},
          kept \in [CacheKeys -> {now, durable}] :
        now' = IF ~dir THEN Empty
               ELSE [dir |-> TRUE, key |-> key, temps |-> temps,
                     entries |-> [k \in CacheKeys |-> kept[k].entries[k]]]
    /\ durable' = now'
    /\ opener' = [p \in Openers |-> Down]
    /\ UNCHANGED <<keys, puts, faults>>

Next ==
    \/ \E p \in Openers :
        \/ Start(p) \/ Look(p) \/ Reload(p) \/ collect_new_components(p)
        \/ create_dir_all(p) \/ sync_new_components(p)
        \/ WriteTemp(p) \/ hard_link(p) \/ Unlink(p) \/ SyncKey(p)
        \/ write_entry(p) \/ try_remove(p) \/ SyncEntry(p) \/ Crash(p)
    \/ PowerLoss

Spec == Init /\ [][Next]_vars

-----------------------------------------------------------------------------
\* However openers race for the first key, and wherever one stops or the
\* power goes, every entry on the disk was sealed under the key in the
\* keyfile, and every open cache reads it back: nothing stored is ever
\* orphaned (open, create_keyfile_no_replace, read_keyfile).
KeyOpensEveryEntry ==
    \A k \in CacheKeys : now.entries[k] # NoEntry =>
        /\ now.entries[k].key = now.key
        /\ \A p \in Openers : opener[p].at \in {"open", "sync_entry"} =>
            read_entry(p, k) = now.entries[k].value
=============================================================================

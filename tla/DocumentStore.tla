--------------------------- MODULE DocumentStore ---------------------------
(***************************************************************************)
(* The documents the daemon keeps on disk or in a keyring: the session     *)
(* envelope with its three writable stores (encrypted-local, keyring,      *)
(* memory), the daemon state, the scheduler's deadlines, the catalog and   *)
(* the user's location.  Each has a loader that fails closed and a writer  *)
(* that replaces the document by renaming a synced sibling over it.        *)
(*                                                                         *)
(* Threads of one daemon load and save; the process may be restarted, with *)
(* the same process id or another, and the machine may lose its power.     *)
(* What a power failure does to unsynced bytes and to an unsynced rename   *)
(* is the file system's doing and is external.                             *)
(***************************************************************************)
EXTENDS Integers, FiniteSets, Sequences

CONSTANTS
    Kinds,          \* the documents looked at
    Threads,        \* threads that load and save
    Pids,           \* process ids a restarted daemon may get
    Sizes,          \* of documents to save: "small", "bulky", "large"
    Defects,        \* what may become of the stored bytes behind the store
    MaxSaves,       \* saves of one behaviour
    MaxFaults       \* restarts, power failures and outside changes

VARIABLES
    kind,           \* the document of this behaviour
    target,         \* the document's directory entry: <<>> or <<file>>
    settled,        \* the entry the file system has made durable
    temps,          \* sibling files left or in use, by <<pid, sequence>>
    pid, TEMP_SEQ,  \* the process and its temporary-file counter
    trusted,        \* whether the path passes the walk of fs_trust
    bind,           \* the keyring store holds a bound entry
    threads,        \* what each thread is doing
    saves, faults   \* budgets used

vars == <<kind, target, settled, temps, pid, TEMP_SEQ, trusted, bind, threads, saves, faults>>

-----------------------------------------------------------------------------
(* Documents and disciplines.                                               *)

\* A document's content: the generation it attests (the save that wrote it,
\* where the document has no generation), its size class and its defect.
\* A "bulky" document is under the cap until it is serialized.
Content(generation, size, defect) ==
    [generation |-> generation, size |-> size, defect |-> defect]

\* A file: its content, whether all its bytes are written and whether they
\* are synced, and whether its mode is owner-only.
File(content, private) ==
    [content |-> content, whole |-> FALSE, synced |-> FALSE, private |-> private]

\* Where each loader walks the path, and how each writer creates its sibling.
Walk == [session |-> "after", keyring |-> "never", memory |-> "never",
         state |-> "never", deadlines |-> "before", catalog |-> "before",
         location |-> "before"]

OnDisk(k) == k \notin {"keyring", "memory"}
Enveloped(k) == k \in {"session", "keyring"}
CreatedPrivate(k) == k \in {"session", "location"}

\* The strict parse of an envelope: serde with unknown fields denied, the
\* schema, the digest over the credentials.
verify_integrity(content) == content.defect # "digest"

parse_strict(content) ==
    /\ content.defect # "malformed"
    /\ content.defect # "schema"
    /\ verify_integrity(content)

\* The parses of the other documents. The state document has no schema check;
\* a cached catalog's body must still pass the live model.
load_validated(k, content) ==
    CASE k = "state" -> content.defect # "malformed"
      [] k = "catalog" -> content.defect \notin {"malformed", "schema", "drift"}
      [] OTHER -> content.defect \notin {"malformed", "schema"}

Parses(k, content) ==
    /\ content.size = "small"
    /\ IF k \in {"session", "keyring"} THEN parse_strict(content) ELSE load_validated(k, content)

-----------------------------------------------------------------------------
(* Threads.                                                                 *)

Idle == [pc |-> "idle", held |-> <<>>, doc |-> <<>>, temp |-> <<>>,
         overtaken |-> FALSE, result |-> ""]

Init ==
    /\ kind \in Kinds
    /\ target = <<>> /\ settled = <<>>
    /\ temps = [n \in Pids \X (0 .. MaxSaves) |-> <<>>]
    /\ pid \in Pids /\ TEMP_SEQ = 0
    /\ trusted = TRUE
    /\ bind = FALSE
    /\ threads = [t \in Threads |-> Idle]
    /\ saves = 0 /\ faults = 0

\* Failed calls, restarts, power failures and outside changes are counted.
Fault == faults < MaxFaults /\ faults' = faults + 1
Fails(ok) == IF ok THEN UNCHANGED faults ELSE Fault

Step(t, pc) == threads' = [threads EXCEPT ![t].pc = pc, ![t].result = ""]

Return(t, result) ==
    threads' = [threads EXCEPT ![t].pc = "idle", ![t].doc = <<>>, ![t].temp = <<>>,
                               ![t].overtaken = FALSE, ![t].result = result]

\* A load that ends well leaves the thread holding what it read.
Loaded(t, held) ==
    threads' = [threads EXCEPT ![t].pc = "idle", ![t].held = held, ![t].doc = <<>>,
                               ![t].result = "loaded"]

\* Where a load goes once its document is read and parsed: the session's
\* walk comes last, the others have walked already.
Parsed(t, found) ==
    IF Walk[kind] = "after"
    THEN threads' = [threads EXCEPT ![t].pc = "walk", ![t].doc = found]
    ELSE Loaded(t, found)

\* load, load_strict: the start of a load of any document.
load(t) ==
    /\ threads[t].pc = "idle"
    /\ Step(t, IF Walk[kind] = "before" THEN "walk" ELSE "read")
    /\ UNCHANGED <<kind, target, settled, temps, pid, TEMP_SEQ, trusted, bind, saves, faults>>

\* The walk of the path. It rejects a tree that is not ours; before the read,
\* a missing leaf is allowed, after it a missing leaf is an absent document.
verify_trusted_path(t) ==
    /\ threads[t].pc = "walk"
    /\ IF Walk[kind] = "before"
       THEN IF trusted THEN Step(t, "read") ELSE Return(t, "untrusted")
       ELSE IF ~trusted THEN Return(t, "untrusted")
       ELSE IF target = <<>> THEN Loaded(t, <<>>)
       ELSE Loaded(t, threads[t].doc)
    /\ UNCHANGED <<kind, target, settled, temps, pid, TEMP_SEQ, trusted, bind, saves, faults>>

\* One pinned open, the size gate, the bounded read and the strict parse: all
\* of one inode. An absent document is no error.
open_pinned(t) ==
    /\ threads[t].pc = "read" /\ OnDisk(kind)
    /\ IF target = <<>> THEN Loaded(t, <<>>)
       ELSE IF Parses(kind, target[1].content) /\ target[1].whole
       THEN Parsed(t, <<target[1].content>>)
       ELSE Return(t, "refused")
    /\ UNCHANGED <<kind, target, settled, temps, pid, TEMP_SEQ, trusted, bind, saves, faults>>

\* bound and bind_now: the entry is bound at the first use, and only a bind
\* that succeeded is kept.
bound(up) == bind' = (bind \/ up)

\* KeyringSessionStore::load over read_bytes.
read_bytes(t, up) ==
    /\ Fails(up)
    /\ threads[t].pc = "read" /\ kind = "keyring"
    /\ bound(up)
    /\ IF ~up THEN Return(t, "unavailable")
       ELSE IF target = <<>> THEN Loaded(t, <<>>)
       ELSE IF Parses(kind, target[1].content) THEN Loaded(t, <<target[1].content>>)
       ELSE Return(t, "refused")
    /\ UNCHANGED <<kind, target, settled, temps, pid, TEMP_SEQ, trusted, saves>>

\* MemorySessionStore::load.
memory_load(t) ==
    /\ threads[t].pc = "read" /\ kind = "memory"
    /\ Loaded(t, IF target = <<>> THEN <<>> ELSE <<target[1].content>>)
    /\ UNCHANGED <<kind, target, settled, temps, pid, TEMP_SEQ, trusted, bind, saves, faults>>

-----------------------------------------------------------------------------
(* Saves.                                                                   *)

\* SessionEnvelope::new and regenerate: the envelope a thread writes follows
\* the one it holds.
regenerate(held) == IF held = <<>> THEN 1 ELSE held[1].generation + 1

\* The caller's document. Documents without a generation number their saves.
Offered(t, size) ==
    Content(IF Enveloped(kind) \/ kind = "memory" THEN regenerate(threads[t].held) ELSE saves + 1,
            size, "")

\* Another thread's document appeared: saves past their comparison are overtaken.
Overtake(t, ts) ==
    [u \in Threads |-> IF u # t /\ ts[u].doc # <<>> THEN [ts[u] EXCEPT !.overtaken = TRUE]
                       ELSE ts[u]]

\* save: the catalog's body is checked before anything else, an envelope is
\* compared with the stored one first, memory just holds the new envelope.
save(t, size) ==
    /\ threads[t].pc = "idle" /\ saves < MaxSaves
    /\ saves' = saves + 1
    /\ LET offered == Offered(t, size) IN
       CASE kind = "memory" ->
              /\ target' = <<[File(offered, TRUE) EXCEPT !.whole = TRUE]>>
              /\ threads' = [threads EXCEPT ![t].held = <<offered>>, ![t].result = "saved"]
         [] kind = "catalog" /\ size = "large" -> Return(t, "TooLarge") /\ UNCHANGED target
         [] OTHER ->
              /\ threads' = [threads EXCEPT ![t].doc = <<offered>>, ![t].result = "",
                     ![t].pc = IF Enveloped(kind) THEN "floor" ELSE "serialize"]
              /\ UNCHANGED target
    /\ UNCHANGED <<kind, settled, temps, pid, TEMP_SEQ, trusted, bind, faults>>

Floor_Loads(t, up) ==
    /\ Fails(up)
    /\ threads[t].pc = "floor" /\ (up \/ kind = "keyring")
    /\ IF kind = "keyring" THEN bound(up) ELSE UNCHANGED bind
    /\ IF ~up THEN Return(t, "unavailable")
       ELSE threads' = [threads EXCEPT ![t].pc = "serialize", ![t].overtaken = FALSE]
    /\ UNCHANGED <<kind, target, settled, temps, pid, TEMP_SEQ, trusted, saves>>

\* The monotonicity floor of an envelope save: a stored envelope of a higher
\* generation refuses it, and one that does not load fails it.
Floor(t, up) ==
    /\ Fails(up)
    /\ threads[t].pc = "floor" /\ (up \/ kind = "keyring")
    /\ IF kind = "keyring" THEN bound(up) ELSE UNCHANGED bind
    /\ IF ~up THEN Return(t, "unavailable")
       ELSE IF target # <<>> /\ ~(Parses(kind, target[1].content) /\ target[1].whole)
       THEN Return(t, "refused")
       ELSE IF target # <<>> /\ threads[t].doc[1].generation < target[1].content.generation
       THEN Return(t, "StaleGeneration")
       ELSE threads' = [threads EXCEPT ![t].pc = "serialize", ![t].overtaken = FALSE]
    /\ UNCHANGED <<kind, target, settled, temps, pid, TEMP_SEQ, trusted, saves>>

\* The cap on the serialized bytes, and the sibling's name: process id and
\* counter. The counter moves whatever happens to the file.
serialize(t) ==
    /\ threads[t].pc = "serialize"
    /\ IF threads[t].doc[1].size # "small"
       THEN Return(t, "TooLarge") /\ UNCHANGED TEMP_SEQ
       ELSE IF ~OnDisk(kind) THEN Step(t, "rename") /\ UNCHANGED TEMP_SEQ
       ELSE /\ threads' = [threads EXCEPT ![t].pc = "create", ![t].temp = <<pid, TEMP_SEQ>>]
            /\ TEMP_SEQ' = TEMP_SEQ + 1
    /\ UNCHANGED <<kind, target, settled, temps, pid, trusted, bind, saves, faults>>

Temp(t) == threads[t].temp

\* The open of the sibling. The session's must not exist; the others' is
\* truncated, and an older file keeps the mode it had.
create(t, ok) ==
    /\ Fails(ok)
    /\ threads[t].pc = "create"
    /\ LET old == temps[Temp(t)] IN
       IF ~ok \/ (kind = "session" /\ old # <<>>)
       THEN Return(t, "Io") /\ UNCHANGED temps
       ELSE /\ temps' = [temps EXCEPT ![Temp(t)] =
                   <<File(threads[t].doc[1],
                          IF old = <<>> THEN CreatedPrivate(kind) ELSE old[1].private)>>]
            /\ Step(t, "write")
    /\ UNCHANGED <<kind, target, settled, pid, TEMP_SEQ, trusted, bind, saves>>

\* write_all, which may stop early and leave a partial sibling behind.
write_all(t, ok) ==
    /\ Fails(ok)
    /\ threads[t].pc = "write"
    /\ temps' = [temps EXCEPT ![Temp(t)][1].whole = ok]
    /\ IF ok THEN Step(t, "sync") ELSE Return(t, "Io")
    /\ UNCHANGED <<kind, target, settled, pid, TEMP_SEQ, trusted, bind, saves>>

sync_all_Skipped(t, ok) ==
    /\ ok /\ threads[t].pc = "sync"
    /\ Step(t, "rename")
    /\ UNCHANGED <<kind, target, settled, temps, pid, TEMP_SEQ, trusted, bind, saves, faults>>

\* sync_all.
sync_all(t, ok) ==
    /\ Fails(ok)
    /\ threads[t].pc = "sync"
    /\ temps' = [temps EXCEPT ![Temp(t)][1].synced = ok]
    /\ IF ok THEN Step(t, "rename") ELSE Return(t, "Io")
    /\ UNCHANGED <<kind, target, settled, pid, TEMP_SEQ, trusted, bind, saves>>

\* rename over the document; a save that is done has handed its envelope over.
rename(t, ok) ==
    /\ Fails(ok)
    /\ threads[t].pc = "rename" /\ OnDisk(kind)
    /\ IF ok
       THEN /\ target' = temps[Temp(t)]
            /\ temps' = [temps EXCEPT ![Temp(t)] = <<>>]
            /\ threads' = [Overtake(t, threads) EXCEPT
                  ![t] = [Idle EXCEPT !.held = threads[t].doc, !.result = "saved"]]
       ELSE Return(t, "Io") /\ UNCHANGED <<target, temps>>
    /\ UNCHANGED <<kind, settled, pid, TEMP_SEQ, trusted, bind, saves>>

\* set_secret: the keyring replaces its entry in one call.
set_secret(t, up) ==
    /\ Fails(up)
    /\ threads[t].pc = "rename" /\ kind = "keyring"
    /\ IF up
       THEN /\ target' = <<[File(threads[t].doc[1], TRUE) EXCEPT !.whole = TRUE, !.synced = TRUE]>>
            /\ settled' = target'
            /\ threads' = [Overtake(t, threads) EXCEPT
                  ![t] = [Idle EXCEPT !.held = threads[t].doc, !.result = "saved"]]
       ELSE Return(t, "unavailable") /\ UNCHANGED <<target, settled>>
    /\ bound(up)
    /\ UNCHANGED <<kind, temps, pid, TEMP_SEQ, trusted, saves>>

-----------------------------------------------------------------------------
(* The world around the store.                                              *)

\* The file system writes the directory out in its own time.
Settle ==
    /\ settled # target
    /\ settled' = target
    /\ UNCHANGED <<kind, target, temps, pid, TEMP_SEQ, trusted, bind, threads, saves, faults>>

\* The daemon stops and starts: memory is gone, the counter starts over and
\* files stay as they are.
Restart(p) ==
    /\ Fault
    /\ pid' = p /\ TEMP_SEQ' = 0 /\ bind' = FALSE
    /\ threads' = [t \in Threads |-> Idle]
    /\ target' = IF kind = "memory" THEN <<>> ELSE target
    /\ settled' = IF kind = "memory" THEN <<>> ELSE settled
    /\ UNCHANGED <<kind, temps, trusted, saves>>

\* After a power failure a file has all its bytes only if they were synced.
Torn(file) == [file EXCEPT !.whole = @ /\ file.synced]

PowerLoss(p, entry) ==
    /\ Fault /\ entry \in {target, settled}
    /\ pid' = p /\ TEMP_SEQ' = 0 /\ bind' = FALSE
    /\ threads' = [t \in Threads |-> Idle]
    /\ target' = IF kind = "memory" \/ entry = <<>> THEN <<>> ELSE <<Torn(entry[1])>>
    /\ settled' = target'
    /\ temps' = [n \in DOMAIN temps |->
                    IF temps[n] = <<>> THEN <<>> ELSE <<Torn(temps[n][1])>>]
    /\ UNCHANGED <<kind, trusted, saves>>

\* The document is removed, the tree's modes change, or the bytes are no
\* longer a document of ours.
Remove ==
    /\ Fault /\ kind # "memory" /\ target # <<>>
    /\ target' = <<>> /\ settled' = <<>>
    /\ UNCHANGED <<kind, temps, pid, TEMP_SEQ, trusted, bind, threads, saves>>

Loosen ==
    /\ Fault /\ OnDisk(kind) /\ trusted
    /\ trusted' = FALSE
    /\ UNCHANGED <<kind, target, settled, temps, pid, TEMP_SEQ, bind, threads, saves>>

Applies(k, defect) ==
    CASE defect = "digest" -> Enveloped(k)
      [] defect = "drift" -> k = "catalog"
      [] OTHER -> k # "memory"

Damage(defect) ==
    /\ Fault /\ Applies(kind, defect) /\ target # <<>>
    /\ target' = <<[target[1] EXCEPT !.content =
            IF defect = "grown" THEN [@ EXCEPT !.size = "large", !.defect = defect]
            ELSE [@ EXCEPT !.defect = defect]]>>
    /\ settled' = target'
    /\ UNCHANGED <<kind, temps, pid, TEMP_SEQ, trusted, bind, threads, saves>>

Next ==
    \/ \E t \in Threads :
         \/ load(t) \/ verify_trusted_path(t) \/ open_pinned(t) \/ memory_load(t)
         \/ \E up \in BOOLEAN : read_bytes(t, up) \/ Floor(t, up) \/ set_secret(t, up)
         \/ \E size \in Sizes : save(t, size)
         \/ serialize(t)
         \/ \E ok \in BOOLEAN :
              create(t, ok) \/ write_all(t, ok) \/ sync_all(t, ok) \/ rename(t, ok)
    \/ Settle
    \/ \E p \in Pids : Restart(p) \/ \E entry \in {target, settled} : PowerLoss(p, entry)
    \/ Remove \/ Loosen
    \/ \E defect \in Defects : Damage(defect)

Spec == Init /\ [][Next]_vars

-----------------------------------------------------------------------------
(* Properties.                                                              *)

\* The variables have the types the code gives them.
IsContent(c) == c.generation \in 0 .. MaxSaves /\ c.defect \in Defects \cup {""}
IsFile(f) == IsContent(f.content) /\ {f.whole, f.synced, f.private} \subseteq BOOLEAN

TypeOK ==
    /\ kind \in Kinds /\ pid \in Pids /\ TEMP_SEQ \in 0 .. MaxSaves
    /\ trusted \in BOOLEAN /\ bind \in BOOLEAN
    /\ \A file \in {target, settled} \cup {temps[n] : n \in DOMAIN temps} :
           file = <<>> \/ IsFile(file[1])
    /\ \A t \in Threads : \A doc \in {threads[t].held, threads[t].doc} :
           doc = <<>> \/ IsContent(doc[1])

\* Whatever the moment of a restart or a power failure, what stands under the
\* document's name is whole and is one its own loader takes: the sibling is
\* complete and synced before the rename, and its serialized size is checked
\* before it is created (session.rs save, catalog.rs store). Leftovers of an
\* earlier process under the same name do not matter.
StoredIsLoadable ==
    kind # "memory" /\ target # <<>> /\ target[1].content.defect = ""
        => target[1].whole /\ Parses(kind, target[1].content)

\* A thread never holds an envelope or a cached document that no save wrote:
\* a grown, malformed, foreign-schema, digest-broken or drifted document is
\* refused, at the load and as the floor of a save. The state document is
\* the exception, it is loaded whatever its schema version.
NothingUnsavedIsHeld ==
    \A t \in Threads : threads[t].held # <<>> =>
        LET held == threads[t].held[1] IN
        /\ held.size = "small" \/ kind = "memory"
        /\ held.defect = "" \/ (kind = "state" /\ held.defect = "schema")

\* A stored envelope gives way to one of a lower generation only in a race:
\* the writer compared, another save landed, and then the writer's rename or
\* set_secret took effect (the residual session.rs names). A save that runs
\* alone refuses to go back, whatever its thread had loaded before.
GenerationFallsOnlyInARace ==
    (Enveloped(kind) /\ faults' = faults /\ target # <<>> /\ target' # <<>>
            /\ target'[1].content.generation < target[1].content.generation)
        => \E t \in Threads : threads[t].overtaken /\ threads'[t].result = "saved"

\* The session and the location never lie in a file others may read, not even
\* in a sibling that a failed save or a restart left behind.
SecretsStayPrivate ==
    CreatedPrivate(kind) =>
        \A file \in {target} \cup {temps[n] : n \in DOMAIN temps} : file # <<>> => file[1].private
=============================================================================

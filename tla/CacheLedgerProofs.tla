------------------------- MODULE CacheLedgerProofs -------------------------
(***************************************************************************)
(* The credential cache and the feature ledger, for every number of openers *)
(* and keys, every bound of the queue and any number of faults. A behaviour *)
(* is one of a single part, so each has an invariant of its own.            *)
(***************************************************************************)
EXTENDS MCNetwork, Sequences, TLAPS

\* A step of the whole is a step of the part in question or leaves it alone.
LEMMA PartSteps ==
    ASSUME [Next]_vars
    PROVE  /\ part' = part
           /\ Is("session") => [Net!Next]_net
           /\ Is("sockets") => [Outer!Next]_outer
           /\ Is("cache") => [Cache!Next]_cache
           /\ Is("ledger") => [Ledger!Next]_ledger
  BY DEF Next, vars, NetStep, OuterStep, CacheStep, LedgerStep, Is

\* The part in question starts in an initial state of its own.
LEMMA PartStarts ==
    ASSUME Init
    PROVE  /\ Is("session") => Net!Init
           /\ Is("sockets") => Outer!Init
           /\ Is("cache") => Cache!Init
           /\ Is("ledger") => Ledger!Init
  BY Zenon DEF Init, Is

-----------------------------------------------------------------------------
(* The credential cache.                                                    *)

Entry == [value : Nat, key : 0 .. MaxKeys, name : CacheKeys \cup {""}]
Disk == [dir : BOOLEAN, key : 0 .. MaxKeys, temps : SUBSET (1 .. MaxKeys),
         entries : [CacheKeys -> Entry]]
Places == {"down", "read_keyfile", "collect", "create", "sync", "publish", "link", "lost",
           "unlink", "sync_key", "init", "create_init", "sync_init", "open", "sync_entry"}
Opener == [at : Places, key : 0 .. MaxKeys, created : BOOLEAN, entry : Entry]

CacheTypes ==
    /\ now \in Disk /\ durable \in Disk /\ opener \in [Openers -> Opener]
    /\ keys \in 0 .. MaxKeys /\ puts \in Nat

\* An entry was sealed under its own name with the key in the keyfile, whose
\* name is durable.
Sealed(k, e) ==
    e # Cache!NoEntry =>
        e.key = now.key /\ e.name = k /\ durable.key = now.key /\ now.key # 0

\* An opener past the publication of its key holds the key in the keyfile; one
\* past its synchronisation holds a key no power loss takes back.
Fits(o) ==
    /\ o.at = "link" => o.key # 0
    /\ o.at \in {"unlink", "sync_key"} => o.key = now.key /\ now.key # 0
    /\ o.at \in {"init", "create_init", "sync_init", "open", "sync_entry"} =>
          o.key = now.key /\ durable.key = now.key /\ now.key # 0

\* A keyfile that is durable is the one that shows. Entries exist only under a
\* durable key: that no power loss orphans them needs both disks.
KeyInv ==
    /\ durable.key \in {0, now.key}
    /\ \A k \in CacheKeys : Sealed(k, now.entries[k]) /\ Sealed(k, durable.entries[k])
    /\ \A p \in Openers : Fits(opener[p])

\* The records that actions write are of their types.
LEMMA CacheRecords ==
    /\ Cache!NoEntry \in Entry /\ Cache!Empty \in Disk /\ Cache!Down \in Opener
    /\ \A d \in Disk :
          /\ \A b \in BOOLEAN : [d EXCEPT !.dir = b] \in Disk
          /\ \A n \in 0 .. MaxKeys : [d EXCEPT !.key = n] \in Disk
          /\ \A t \in SUBSET (1 .. MaxKeys) : [d EXCEPT !.temps = t] \in Disk
          /\ \A k \in CacheKeys, e \in Entry : [d EXCEPT !.entries[k] = e] \in Disk
  <1>1. Cache!NoEntry \in Entry  BY NetworkAssumption DEF Cache!NoEntry, Entry
  <1>2. Cache!Empty \in Disk  BY <1>1, NetworkAssumption DEF Cache!Empty, Disk
  <1>3. Cache!Down \in Opener
    BY <1>1, NetworkAssumption DEF Cache!Down, Opener, Places
  <1>4. ASSUME NEW d \in Disk, NEW b \in BOOLEAN PROVE [d EXCEPT !.dir = b] \in Disk
    BY DEF Disk
  <1>5. ASSUME NEW d \in Disk, NEW n \in 0 .. MaxKeys PROVE [d EXCEPT !.key = n] \in Disk
    BY DEF Disk
  <1>6. ASSUME NEW d \in Disk, NEW t \in SUBSET (1 .. MaxKeys)
        PROVE [d EXCEPT !.temps = t] \in Disk
    BY DEF Disk
  <1>7. ASSUME NEW d \in Disk, NEW k \in CacheKeys, NEW e \in Entry
        PROVE [d EXCEPT !.entries[k] = e] \in Disk
    BY DEF Disk
  <1>8. QED  BY Zenon, <1>1, <1>2, <1>3, <1>4, <1>5, <1>6, <1>7

\* An empty disk has no entry and no key.
LEMMA EmptyDisk ==
    /\ Cache!Empty.key = 0 /\ \A k \in CacheKeys : Cache!Empty.entries[k] = Cache!NoEntry
    /\ Cache!Down.at = "down"
  BY DEF Cache!Empty, Cache!Down

\* Before any opener runs there is no key and no entry.
LEMMA CacheStarts == ASSUME Cache!Init PROVE CacheTypes /\ KeyInv
  <1>1. CacheTypes  BY CacheRecords, NetworkAssumption DEF Cache!Init, CacheTypes
  <1>2. KeyInv  BY EmptyDisk DEF Cache!Init, KeyInv, Sealed, Fits
  <1>3. QED  BY <1>1, <1>2

\* A step of one opener that leaves the keyfile and the entries as they show,
\* and at most makes them durable.
LEMMA MovesKeep ==
    ASSUME KeyInv, NEW p \in Openers, NEW o, opener \in [Openers -> Opener],
           opener' = [opener EXCEPT ![p] = o],
           now'.key = now.key, now'.entries = now.entries,
           \/ durable'.key = durable.key /\ durable'.entries = durable.entries
           \/ durable'.key = now.key /\ durable'.entries = now.entries,
           Fits(o)'
    PROVE KeyInv'
  <1>1. durable'.key \in {durable.key, now.key}  OBVIOUS
  <1>2. durable'.key \in {0, now'.key}  BY <1>1 DEF KeyInv
  <1>3. ASSUME NEW q \in Openers PROVE Fits(opener[q])'
    <2>1. CASE q = p  BY <2>1
    <2>2. CASE q # p
      <3>1. opener'[q] = opener[q] /\ Fits(opener[q])  BY <2>2 DEF KeyInv
      <3>2. QED  BY <3>1, <1>1 DEF Fits
    <2>3. QED  BY <2>1, <2>2
  <1>4. ASSUME NEW k \in CacheKeys
        PROVE Sealed(k, now.entries[k])' /\ Sealed(k, durable.entries[k])'
    <2>1. Sealed(k, now.entries[k]) /\ Sealed(k, durable.entries[k])  BY DEF KeyInv
    <2>2. QED  BY <2>1, <1>1 DEF Sealed
  <1>5. QED  BY <1>2, <1>3, <1>4 DEF KeyInv

\* The opener's record becomes this one.
Placed(p, label, n, created, e) ==
    opener' = [opener EXCEPT ![p] = [at |-> label, key |-> n, created |-> created, entry |-> e]]

\* The same of an opener that is at a label, with the key it had or another.
LEMMA OpenerMoves ==
    ASSUME CacheTypes, KeyInv, NEW p \in Openers, NEW label \in Places,
           NEW n \in 0 .. MaxKeys, NEW created \in BOOLEAN, NEW e \in Entry,
           Placed(p, label, n, created, e),
           now' \in Disk, now'.key = now.key, now'.entries = now.entries,
           durable' \in Disk,
           \/ durable'.key = durable.key /\ durable'.entries = durable.entries
           \/ durable'.key = now.key /\ durable'.entries = now.entries,
           keys' \in 0 .. MaxKeys, puts' \in Nat,
           label = "link" => n # 0,
           label \in {"unlink", "sync_key"} => n = now.key /\ now.key # 0,
           label \in {"init", "create_init", "sync_init", "open", "sync_entry"} =>
              n = now.key /\ durable'.key = now.key /\ now.key # 0
    PROVE CacheTypes' /\ KeyInv'
  <1> PICK o : o = [at |-> label, key |-> n, created |-> created, entry |-> e]  BY Zenon
  <1>1. o \in Opener /\ o.at = label /\ o.key = n  BY DEF Opener
  <1>2. opener' = [opener EXCEPT ![p] = o] /\ opener \in [Openers -> Opener]
    BY DEF CacheTypes, Placed
  <1>3. opener' \in [Openers -> Opener]  BY <1>1, <1>2
  <1>4. CacheTypes'  BY <1>3 DEF CacheTypes
  <1>5. Fits(o)'  BY <1>1 DEF Fits
  <1>6. KeyInv'  BY Zenon, <1>2, <1>5, MovesKeep
  <1>7. QED  BY <1>4, <1>6

\* An opener's record at another label ...
LEMMA OpenerAt ==
    ASSUME NEW o \in Opener, NEW label
    PROVE  [o EXCEPT !.at = label] =
              [at |-> label, key |-> o.key, created |-> o.created, entry |-> o.entry]
  BY DEF Opener

\* ... with another key ...
LEMMA OpenerKey ==
    ASSUME NEW o \in Opener, NEW label, NEW n
    PROVE  [o EXCEPT !.at = label, !.key = n] =
              [at |-> label, key |-> n, created |-> o.created, entry |-> o.entry]
  <1>1. PICK a : a = [at |-> label, key |-> o.key, created |-> o.created, entry |-> o.entry]
    BY Zenon
  <1>2. a = [o EXCEPT !.at = label]  BY <1>1 DEF Opener
  <1>3. [a EXCEPT !.key = n] =
           [at |-> label, key |-> n, created |-> o.created, entry |-> o.entry]
    BY <1>1
  <1>4. [o EXCEPT !.at = label, !.key = n] = [a EXCEPT !.key = n]  BY <1>2, Zenon
  <1>5. QED  BY <1>3, <1>4, Zenon

\* ... answering for the directory or not ...
LEMMA OpenerCreated ==
    ASSUME NEW o \in Opener, NEW label, NEW n
    PROVE  [o EXCEPT !.at = label, !.created = n] =
              [at |-> label, key |-> o.key, created |-> n, entry |-> o.entry]
  <1>1. PICK a : a = [at |-> label, key |-> o.key, created |-> o.created, entry |-> o.entry]
    BY Zenon
  <1>2. a = [o EXCEPT !.at = label]  BY <1>1 DEF Opener
  <1>3. [a EXCEPT !.created = n] =
           [at |-> label, key |-> o.key, created |-> n, entry |-> o.entry]
    BY <1>1
  <1>4. [o EXCEPT !.at = label, !.created = n] = [a EXCEPT !.created = n]  BY <1>2, Zenon
  <1>5. QED  BY <1>3, <1>4, Zenon

\* ... or with another entry to write.
LEMMA OpenerEntry ==
    ASSUME NEW o \in Opener, NEW label, NEW n
    PROVE  [o EXCEPT !.at = label, !.entry = n] =
              [at |-> label, key |-> o.key, created |-> o.created, entry |-> n]
  <1>1. PICK a : a = [at |-> label, key |-> o.key, created |-> o.created, entry |-> o.entry]
    BY Zenon
  <1>2. a = [o EXCEPT !.at = label]  BY <1>1 DEF Opener
  <1>3. [a EXCEPT !.entry = n] =
           [at |-> label, key |-> o.key, created |-> o.created, entry |-> n]
    BY <1>1
  <1>4. [o EXCEPT !.at = label, !.entry = n] = [a EXCEPT !.entry = n]  BY <1>2, Zenon
  <1>5. QED  BY <1>3, <1>4, Zenon

\* What the label steps write to the opener.
LEMMA OpenerWrites ==
    ASSUME CacheTypes, NEW p \in Openers
    PROVE  /\ opener[p].key \in 0 .. MaxKeys /\ opener[p].created \in BOOLEAN
           /\ opener[p].entry \in Entry /\ opener[p].at \in Places
           /\ \A label : Cache!Go(p, label) =>
                Placed(p, label, opener[p].key, opener[p].created, opener[p].entry)
           /\ \A label, n : opener' = [opener EXCEPT ![p].at = label, ![p].key = n] =>
                Placed(p, label, n, opener[p].created, opener[p].entry)
           /\ \A label, n : opener' = [opener EXCEPT ![p].at = label, ![p].created = n] =>
                Placed(p, label, opener[p].key, n, opener[p].entry)
           /\ \A label, n : opener' = [opener EXCEPT ![p].at = label, ![p].entry = n] =>
                Placed(p, label, opener[p].key, opener[p].created, n)
           /\ Cache!Fails(p) => Placed(p, "down", 0, FALSE, Cache!NoEntry)
  <1>1. opener[p] \in Opener /\ opener \in [Openers -> Opener]  BY DEF CacheTypes
  <1>2. /\ opener[p].key \in 0 .. MaxKeys /\ opener[p].created \in BOOLEAN
        /\ opener[p].entry \in Entry /\ opener[p].at \in Places
    BY <1>1 DEF Opener
  <1>3. ASSUME NEW label, Cache!Go(p, label)
        PROVE Placed(p, label, opener[p].key, opener[p].created, opener[p].entry)
    <2>1. opener' = [opener EXCEPT ![p] = [opener[p] EXCEPT !.at = label]]
      BY <1>3 DEF Cache!Go
    <2>2. QED  BY Zenon, <1>1, <2>1, OpenerAt DEF Placed
  <1>4. ASSUME NEW label, NEW n, opener' = [opener EXCEPT ![p].at = label, ![p].key = n]
        PROVE Placed(p, label, n, opener[p].created, opener[p].entry)
    <2>1. opener' = [opener EXCEPT ![p] = [opener[p] EXCEPT !.at = label, !.key = n]]
      BY Zenon, <1>4
    <2>2. [opener[p] EXCEPT !.at = label, !.key = n] =
             [at |-> label, key |-> n, created |-> opener[p].created, entry |-> opener[p].entry]
      BY <1>1, OpenerKey, Zenon
    <2>3. QED  BY <2>1, <2>2, Zenon DEF Placed
  <1>5. ASSUME NEW label, NEW n, opener' = [opener EXCEPT ![p].at = label, ![p].created = n]
        PROVE Placed(p, label, opener[p].key, n, opener[p].entry)
    <2>1. opener' = [opener EXCEPT ![p] = [opener[p] EXCEPT !.at = label, !.created = n]]
      BY Zenon, <1>5
    <2>2. [opener[p] EXCEPT !.at = label, !.created = n] =
             [at |-> label, key |-> opener[p].key, created |-> n, entry |-> opener[p].entry]
      BY <1>1, OpenerCreated, Zenon
    <2>3. QED  BY <2>1, <2>2, Zenon DEF Placed
  <1>6. ASSUME NEW label, NEW n, opener' = [opener EXCEPT ![p].at = label, ![p].entry = n]
        PROVE Placed(p, label, opener[p].key, opener[p].created, n)
    <2>1. opener' = [opener EXCEPT ![p] = [opener[p] EXCEPT !.at = label, !.entry = n]]
      BY Zenon, <1>6
    <2>2. [opener[p] EXCEPT !.at = label, !.entry = n] =
             [at |-> label, key |-> opener[p].key, created |-> opener[p].created, entry |-> n]
      BY <1>1, OpenerEntry, Zenon
    <2>3. QED  BY <2>1, <2>2, Zenon DEF Placed
  <1>7. Cache!Fails(p) => Placed(p, "down", 0, FALSE, Cache!NoEntry)
    BY DEF Cache!Fails, Cache!Down, Placed
  <1>8. QED  BY <1>2, <1>3, <1>4, <1>5, <1>6, <1>7, Zenon

\* An opener whose open fails, or that crashes, gives up its place.
LEMMA FailKeeps ==
    ASSUME CacheTypes, KeyInv, NEW p \in Openers, Cache!Fails(p),
           now' \in Disk, now'.key = now.key, now'.entries = now.entries,
           durable' = durable, keys' \in 0 .. MaxKeys, puts' = puts
    PROVE CacheTypes' /\ KeyInv'
  <1>1. Placed(p, "down", 0, FALSE, Cache!NoEntry)  BY Zenon, OpenerWrites
  <1>2. "down" \in Places /\ 0 \in 0 .. MaxKeys  BY NetworkAssumption DEF Places
  <1>3. durable' \in Disk /\ puts' \in Nat  BY DEF CacheTypes
  <1>4. QED  BY Zenon, <1>1, <1>2, <1>3, OpenerMoves, CacheRecords

\* sync_parent_dir makes what shows durable.
LEMMA SyncedDisk ==
    ASSUME CacheTypes, durable' = Cache!Synced
    PROVE  /\ durable' \in Disk /\ durable'.key = now.key /\ durable'.entries = now.entries
  BY DEF CacheTypes, Cache!Synced, Disk

\* A look at the keyfile takes the key that shows, made durable first.
LEMMA ReadsKeep ==
    ASSUME CacheTypes, KeyInv, NEW p \in Openers, Cache!Look(p) \/ Cache!Reload(p)
    PROVE CacheTypes' /\ KeyInv'
  <1>t. /\ now \in Disk /\ durable \in Disk /\ now.key \in 0 .. MaxKeys
        /\ keys \in 0 .. MaxKeys /\ puts \in Nat
    BY DEF CacheTypes, Disk
  <1>u. now' = now /\ keys' = keys /\ puts' = puts
    BY DEF Cache!Look, Cache!Reload, Cache!read_keyfile
  <1>1. CASE Cache!Go(p, "collect") /\ durable' = durable
    <2>1. "collect" \in Places  BY DEF Places
    <2>2. Placed(p, "collect", opener[p].key, opener[p].created, opener[p].entry)
      BY <1>1, OpenerWrites, Zenon
    <2>3. /\ opener[p].key \in 0 .. MaxKeys /\ opener[p].created \in BOOLEAN
          /\ opener[p].entry \in Entry
      BY Zenon, OpenerWrites
    <2>4. QED  BY <1>1, <1>t, <1>u, <2>1, <2>2, <2>3, OpenerMoves
  <1>2. CASE Cache!Fails(p) /\ durable' = durable
    BY <1>2, <1>t, <1>u, FailKeeps
  <1>3. CASE /\ now.key # 0 /\ durable' = Cache!Synced
             /\ opener' = [opener EXCEPT ![p].at = "init", ![p].key = now.key]
    <2>1. Placed(p, "init", now.key, opener[p].created, opener[p].entry)
      BY <1>3, OpenerWrites, Zenon
    <2>2. "init" \in Places  BY DEF Places
    <2>3. opener[p].created \in BOOLEAN /\ opener[p].entry \in Entry
      BY Zenon, OpenerWrites
    <2>4. durable' \in Disk /\ durable'.key = now.key /\ durable'.entries = now.entries
      BY <1>3, SyncedDisk
    <2>5. QED  BY <1>3, <1>t, <1>u, <2>1, <2>2, <2>3, <2>4, OpenerMoves
  <1>4. QED
    BY <1>1, <1>2, <1>3 DEF Cache!Look, Cache!Reload, Cache!read_keyfile

\* A step to another label, by an opener that may be there.
LEMMA GoKeeps ==
    ASSUME CacheTypes, KeyInv, NEW p \in Openers, NEW label \in Places, Cache!Go(p, label),
           now' \in Disk, now'.key = now.key, now'.entries = now.entries,
           durable' \in Disk,
           \/ durable'.key = durable.key /\ durable'.entries = durable.entries
           \/ durable'.key = now.key /\ durable'.entries = now.entries,
           keys' = keys, puts' = puts,
           label # "link",
           label \in {"unlink", "sync_key"} => opener[p].key = now.key /\ now.key # 0,
           label \in {"init", "create_init", "sync_init", "open", "sync_entry"} =>
              opener[p].key = now.key /\ durable'.key = now.key /\ now.key # 0
    PROVE CacheTypes' /\ KeyInv'
  <1>1. Placed(p, label, opener[p].key, opener[p].created, opener[p].entry)
    BY OpenerWrites, Zenon
  <1>2. /\ opener[p].key \in 0 .. MaxKeys /\ opener[p].created \in BOOLEAN
        /\ opener[p].entry \in Entry
    BY Zenon, OpenerWrites
  <1>3. keys' \in 0 .. MaxKeys /\ puts' \in Nat  BY DEF CacheTypes
  <1>4. QED  BY <1>1, <1>2, <1>3, OpenerMoves

\* What the types and the invariant say of one opener.
LEMMA OpenerFits ==
    ASSUME CacheTypes, KeyInv, NEW p \in Openers
    PROVE  /\ now \in Disk /\ durable \in Disk /\ now.key \in 0 .. MaxKeys
           /\ keys \in 0 .. MaxKeys /\ puts \in Nat
           /\ Fits(opener[p]) /\ durable.key \in {0, now.key}
           /\ opener[p].key \in 0 .. MaxKeys /\ opener[p].created \in BOOLEAN
           /\ opener[p].entry \in Entry
  BY Zenon, OpenerWrites DEF CacheTypes, KeyInv, Disk

\* Cache::open begins and touches nothing on the disk.
LEMMA StartKeeps ==
    ASSUME CacheTypes, KeyInv, NEW p \in Openers, Cache!Start(p)
    PROVE CacheTypes' /\ KeyInv'
  <1>1. /\ Cache!Go(p, "read_keyfile") /\ now' = now /\ durable' = durable
        /\ keys' = keys /\ puts' = puts /\ "read_keyfile" \in Places
    BY DEF Cache!Start, Places
  <1>2. QED  BY <1>1, OpenerFits, GoKeeps

\* The opener that finds no directory answers for it, before its key and after.
LEMMA CollectKeeps ==
    ASSUME CacheTypes, KeyInv, NEW p \in Openers, Cache!collect_new_components(p)
    PROVE CacheTypes' /\ KeyInv'
  <1>1. PICK stage \in {<<"collect", "create">>, <<"init", "create_init">>} :
           /\ Cache!At(p, stage[1])
           /\ opener' = [opener EXCEPT ![p].at = stage[2], ![p].created = ~now.dir]
           /\ now' = now /\ durable' = durable /\ keys' = keys /\ puts' = puts
    BY Zenon DEF Cache!collect_new_components
  <1>2. Placed(p, stage[2], opener[p].key, ~now.dir, opener[p].entry)
    BY <1>1, OpenerWrites, Zenon
  <1>3. (~now.dir) \in BOOLEAN  BY OpenerFits DEF Disk
  <1>4. stage[2] \in {"create", "create_init"} /\ stage[2] \in Places  BY DEF Places
  <1>5. stage[2] = "create_init" =>
           opener[p].key = now.key /\ durable.key = now.key /\ now.key # 0
    BY <1>1, OpenerFits DEF Cache!At, Fits
  <1>6. QED  BY Zenon, <1>1, <1>2, <1>3, <1>4, <1>5, OpenerFits, OpenerMoves

\* create_new takes the keyfile's name only where there is none.
LEMMA CreateKeeps ==
    ASSUME CacheTypes, KeyInv, NEW p \in Openers, Cache!create_dir_all(p)
    PROVE CacheTypes' /\ KeyInv'
  <1>1. PICK stage \in {<<"create", "sync">>, <<"create_init", "sync_init">>} :
           /\ Cache!At(p, stage[1])
           /\ \/ now' = [now EXCEPT !.dir = TRUE] /\ Cache!Go(p, stage[2])
              \/ Cache!Fails(p) /\ now' = now
           /\ durable' = durable /\ keys' = keys /\ puts' = puts
    BY DEF Cache!create_dir_all
  <1>2. CASE now' = [now EXCEPT !.dir = TRUE] /\ Cache!Go(p, stage[2])
    <2>1. now' \in Disk /\ now'.key = now.key /\ now'.entries = now.entries
      BY Zenon, <1>2, OpenerFits DEF Disk
    <2>2. stage[2] \in {"sync", "sync_init"} /\ stage[2] \in Places  BY DEF Places
    <2>3. stage[2] = "sync_init" =>
             opener[p].key = now.key /\ durable.key = now.key /\ now.key # 0
      BY <1>1, OpenerFits DEF Cache!At, Fits
    <2>4. QED  BY Zenon, <1>1, <1>2, <2>1, <2>2, <2>3, OpenerFits, GoKeeps
  <1>3. CASE Cache!Fails(p) /\ now' = now
    BY <1>1, <1>3, OpenerFits, FailKeeps
  <1>4. QED  BY <1>1, <1>2, <1>3

\* A directory that is taken away again held neither keyfile nor entry.
LEMMA SyncNewKeeps ==
    ASSUME CacheTypes, KeyInv, NEW p \in Openers, Cache!sync_new_components(p)
    PROVE CacheTypes' /\ KeyInv'
  <1>1. PICK stage \in {<<"sync", "publish">>, <<"sync_init", "open">>} :
           /\ Cache!At(p, stage[1])
           /\ \/ /\ durable' = IF opener[p].created THEN [durable EXCEPT !.dir = now.dir]
                               ELSE durable
                 /\ Cache!Go(p, stage[2]) /\ now' = now
              \/ /\ now' = IF [now EXCEPT !.dir = FALSE] = Cache!Empty THEN Cache!Empty
                           ELSE now
                 /\ Cache!Fails(p) /\ durable' = durable
           /\ keys' = keys /\ puts' = puts
    BY DEF Cache!sync_new_components
  <1>2. CASE /\ durable' = IF opener[p].created THEN [durable EXCEPT !.dir = now.dir]
                           ELSE durable
             /\ Cache!Go(p, stage[2]) /\ now' = now
    <2>1. durable' \in Disk /\ durable'.key = durable.key /\ durable'.entries = durable.entries
      BY <1>2, OpenerFits DEF Disk
    <2>2. stage[2] \in {"publish", "open"} /\ stage[2] \in Places  BY DEF Places
    <2>3. stage[2] = "open" =>
             opener[p].key = now.key /\ durable.key = now.key /\ now.key # 0
      BY <1>1, OpenerFits DEF Cache!At, Fits
    <2>4. QED  BY <1>1, <1>2, <2>1, <2>2, <2>3, OpenerFits, GoKeeps
  <1>3. CASE /\ now' = IF [now EXCEPT !.dir = FALSE] = Cache!Empty THEN Cache!Empty ELSE now
             /\ Cache!Fails(p) /\ durable' = durable
    <2>1. now' \in Disk /\ now'.key = now.key /\ now'.entries = now.entries
      <3>1. CASE [now EXCEPT !.dir = FALSE] = Cache!Empty
        <4>1. now' = [now EXCEPT !.dir = FALSE]  BY <1>3, <3>1
        <4>2. QED  BY Zenon, <4>1, OpenerFits DEF Disk
      <3>2. CASE [now EXCEPT !.dir = FALSE] # Cache!Empty  BY <1>3, <3>2, OpenerFits
      <3>3. QED  BY <3>1, <3>2
    <2>2. QED  BY <1>1, <1>3, <2>1, OpenerFits, FailKeeps
  <1>4. QED  BY <1>1, <1>2, <1>3

\* Only keys are drawn and temporary names come and go before the link.
LEMMA WriteTempKeeps ==
    ASSUME CacheTypes, KeyInv, NEW p \in Openers, Cache!WriteTemp(p)
    PROVE CacheTypes' /\ KeyInv'
  <1>1. /\ keys' = keys + 1 /\ keys < MaxKeys /\ durable' = durable /\ puts' = puts
        /\ \/ /\ now' = [now EXCEPT !.temps = @ \cup {keys'}]
              /\ opener' = [opener EXCEPT ![p].at = "link", ![p].key = keys']
           \/ Cache!Fails(p) /\ now' = now
    BY DEF Cache!WriteTemp
  <1>2. keys' \in 0 .. MaxKeys /\ keys' \in 1 .. MaxKeys /\ keys' # 0
    BY <1>1, OpenerFits, NetworkAssumption
  <1>3. CASE /\ now' = [now EXCEPT !.temps = @ \cup {keys'}]
             /\ opener' = [opener EXCEPT ![p].at = "link", ![p].key = keys']
    <2>1. now' \in Disk /\ now'.key = now.key /\ now'.entries = now.entries
      BY <1>2, <1>3, OpenerFits DEF Disk
    <2>2. Placed(p, "link", keys', opener[p].created, opener[p].entry)
      BY <1>3, OpenerWrites, Zenon
    <2>3. "link" \in Places  BY DEF Places
    <2>4. QED  BY <1>1, <1>2, <2>1, <2>2, <2>3, OpenerFits, OpenerMoves
  <1>4. CASE Cache!Fails(p) /\ now' = now
    BY <1>1, <1>2, <1>4, OpenerFits, FailKeeps
  <1>5. QED  BY <1>1, <1>3, <1>4

\* A disk without a keyfile that held no entry still holds none.
LEMMA UnlinkedDisk ==
    ASSUME CacheTypes, NEW p \in Openers, now' = Cache!Unlinked(p)
    PROVE  now' \in Disk /\ now'.key = now.key /\ now'.entries = now.entries
  BY DEF CacheTypes, Cache!Unlinked, Disk

\* The first name stands: before it there is no entry, and no opener past the
\* publication.
LEMMA LinkKeeps ==
    ASSUME CacheTypes, KeyInv, NEW p \in Openers, Cache!hard_link(p)
    PROVE CacheTypes' /\ KeyInv'
  <1>1. /\ opener[p].at = "link" /\ opener[p].key # 0
        /\ durable' = durable /\ keys' = keys /\ puts' = puts
    BY OpenerFits DEF Cache!hard_link, Cache!At, Fits
  <1>2. CASE /\ now.key = 0
             /\ now' = [now EXCEPT !.key = opener[p].key] /\ Cache!Go(p, "unlink")
    <2>1. now' \in Disk /\ now'.key = opener[p].key /\ now'.entries = now.entries
      BY <1>2, OpenerFits DEF Disk
    <2>2. PICK o : o = [at |-> "unlink", key |-> opener[p].key,
                        created |-> opener[p].created, entry |-> opener[p].entry]
      BY Zenon
    <2>3. opener' = [opener EXCEPT ![p] = o]  BY <1>2, <2>2, OpenerWrites DEF Placed
    <2>4. o \in Opener  BY <2>2, OpenerFits DEF Opener, Places
    <2>5. CacheTypes'  BY <1>1, <2>1, <2>3, <2>4 DEF CacheTypes
    <2>6. durable.key = 0  BY <1>2, OpenerFits
    <2>7. ASSUME NEW q \in Openers PROVE Fits(opener[q])'
      <3>1. CASE q = p
        <4>1. opener'[q] = o  BY <2>3, <3>1 DEF CacheTypes
        <4>2. QED  BY <4>1, <2>1, <2>2, <1>1 DEF Fits
      <3>2. CASE q # p
        <4>1. opener'[q] = opener[q] /\ Fits(opener[q])
          BY <2>3, <3>2 DEF CacheTypes, KeyInv
        <4>2. QED  BY <4>1, <1>2 DEF Fits
      <3>3. QED  BY <3>1, <3>2
    <2>8. ASSUME NEW k \in CacheKeys
          PROVE Sealed(k, now.entries[k])' /\ Sealed(k, durable.entries[k])'
      <3>1. Sealed(k, now.entries[k]) /\ Sealed(k, durable.entries[k])  BY DEF KeyInv
      <3>2. now.entries[k] = Cache!NoEntry /\ durable.entries[k] = Cache!NoEntry
        BY <3>1, <1>2 DEF Sealed
      <3>3. now'.entries[k] = Cache!NoEntry /\ durable'.entries[k] = Cache!NoEntry
        BY <3>2, <2>1, <1>1
      <3>4. QED  BY <3>3, Zenon DEF Sealed
    <2>9. KeyInv'  BY <1>1, <2>6, <2>7, <2>8 DEF KeyInv
    <2>10. QED  BY <2>5, <2>9
  <1>3. CASE now' = Cache!Unlinked(p) /\ Cache!Go(p, "lost")
    <2>1. "lost" \in Places  BY DEF Places
    <2>2. QED  BY <1>1, <1>3, <2>1, UnlinkedDisk, OpenerFits, GoKeeps
  <1>4. CASE now' = Cache!Unlinked(p) /\ Cache!Fails(p)
    BY <1>1, <1>4, UnlinkedDisk, OpenerFits, FailKeeps
  <1>5. QED  BY <1>2, <1>3, <1>4 DEF Cache!hard_link

\* A failed keyfile is unlinked before anything was sealed under it.
LEMMA UnlinkKeeps ==
    ASSUME CacheTypes, KeyInv, NEW p \in Openers, Cache!Unlink(p)
    PROVE CacheTypes' /\ KeyInv'
  <1>1. /\ opener[p].at = "unlink" /\ opener[p].key = now.key /\ now.key # 0
        /\ durable' = durable /\ keys' = keys /\ puts' = puts
    BY OpenerFits DEF Cache!Unlink, Cache!At, Fits
  <1>2. CASE now' = Cache!Unlinked(p) /\ Cache!Go(p, "sync_key")
    <2>1. "sync_key" \in Places  BY DEF Places
    <2>2. QED  BY <1>1, <1>2, <2>1, UnlinkedDisk, OpenerFits, GoKeeps
  <1>3. CASE Cache!Fails(p) /\ now' = now
    BY <1>1, <1>3, OpenerFits, FailKeeps
  <1>4. QED  BY <1>2, <1>3 DEF Cache!Unlink

\* From here on the key is one that no power loss takes back.
LEMMA SyncKeyKeeps ==
    ASSUME CacheTypes, KeyInv, NEW p \in Openers, Cache!SyncKey(p)
    PROVE CacheTypes' /\ KeyInv'
  <1>1. /\ opener[p].at = "sync_key" /\ opener[p].key = now.key /\ now.key # 0
        /\ now' = now /\ keys' = keys /\ puts' = puts
    BY OpenerFits DEF Cache!SyncKey, Cache!At, Fits
  <1>2. CASE durable' = Cache!Synced /\ Cache!Go(p, "init")
    <2>1. "init" \in Places  BY DEF Places
    <2>2. QED  BY <1>1, <1>2, <2>1, SyncedDisk, OpenerFits, GoKeeps
  <1>3. CASE Cache!Fails(p) /\ durable' = durable
    BY <1>1, <1>3, OpenerFits, FailKeeps
  <1>4. QED  BY <1>2, <1>3 DEF Cache!SyncKey

\* An open cache changes one entry: to one under its own name and the key in
\* the keyfile, or to none.
LEMMA EntryKeeps ==
    ASSUME CacheTypes, KeyInv, NEW p \in Openers, opener[p].at = "open",
           NEW k \in CacheKeys, NEW e \in Entry, NEW f \in Entry,
           e = Cache!NoEntry \/ (e.key = opener[p].key /\ e.name = k),
           now' = [now EXCEPT !.entries[k] = e],
           opener' = [opener EXCEPT ![p].at = "sync_entry", ![p].entry = f],
           durable' = durable, keys' = keys, puts' \in Nat
    PROVE CacheTypes' /\ KeyInv'
  <1>1. opener[p].key = now.key /\ durable.key = now.key /\ now.key # 0
    BY OpenerFits DEF Fits
  <1>2. /\ now' \in Disk /\ now'.key = now.key
        /\ \A j \in CacheKeys : now'.entries[j] = IF j = k THEN e ELSE now.entries[j]
    BY OpenerFits DEF Disk
  <1>3. PICK o : o = [at |-> "sync_entry", key |-> opener[p].key,
                      created |-> opener[p].created, entry |-> f]
    BY Zenon
  <1>4. Placed(p, "sync_entry", opener[p].key, opener[p].created, f)  BY OpenerWrites, Zenon
  <1>5. opener' = [opener EXCEPT ![p] = o]  BY Zenon, <1>3, <1>4 DEF Placed
  <1>6. o \in Opener  BY <1>3, OpenerFits DEF Opener, Places
  <1>7. CacheTypes'  BY Zenon, <1>2, <1>5, <1>6 DEF CacheTypes
  <1>8. ASSUME NEW q \in Openers PROVE Fits(opener[q])'
    <2>1. CASE q = p
      <3>1. opener'[q] = o  BY Zenon, <1>5, <2>1 DEF CacheTypes
      <3>2. QED  BY <3>1, <1>1, <1>2, <1>3 DEF Fits
    <2>2. CASE q # p
      <3>1. opener'[q] = opener[q] /\ Fits(opener[q])
        BY <1>5, <2>2 DEF CacheTypes, KeyInv
      <3>2. QED  BY <3>1, <1>2 DEF Fits
    <2>3. QED  BY <2>1, <2>2
  <1>9. ASSUME NEW j \in CacheKeys
        PROVE Sealed(j, now.entries[j])' /\ Sealed(j, durable.entries[j])'
    <2>1. Sealed(j, now.entries[j]) /\ Sealed(j, durable.entries[j])  BY DEF KeyInv
    <2>2. QED  BY <1>1, <1>2, <2>1 DEF Sealed
  <1>10. KeyInv'  BY Zenon, <1>1, <1>2, <1>8, <1>9 DEF KeyInv
  <1>11. QED  BY <1>7, <1>10

\* An entry is written under the key its opener holds.
LEMMA WriteEntryKeeps ==
    ASSUME CacheTypes, KeyInv, NEW p \in Openers, Cache!write_entry(p)
    PROVE CacheTypes' /\ KeyInv'
  <1>1. PICK k \in CacheKeys, size \in Sizes :
           /\ opener[p].at = "open" /\ puts' = puts + 1 /\ durable' = durable /\ keys' = keys
           /\ \/ /\ now' = [now EXCEPT !.entries[k] =
                              [value |-> puts', key |-> opener[p].key, name |-> k]]
                 /\ opener' = [opener EXCEPT ![p].at = "sync_entry",
                                             ![p].entry = now'.entries[k]]
              \/ now' = now /\ opener' = opener
    BY DEF Cache!write_entry, Cache!At
  <1>2. puts' \in Nat  BY <1>1, OpenerFits
  <1>3. CASE /\ now' = [now EXCEPT !.entries[k] =
                          [value |-> puts', key |-> opener[p].key, name |-> k]]
             /\ opener' = [opener EXCEPT ![p].at = "sync_entry", ![p].entry = now'.entries[k]]
    <2>1. PICK e : e = [value |-> puts', key |-> opener[p].key, name |-> k]  BY Zenon
    <2>2. e \in Entry /\ e.key = opener[p].key /\ e.name = k
      BY Zenon, <1>2, <2>1, OpenerFits DEF Entry
    <2>3. now' = [now EXCEPT !.entries[k] = e]  BY <1>3, <2>1
    <2>4. now'.entries[k] = e  BY <2>3, OpenerFits DEF Disk
    <2>5. opener' = [opener EXCEPT ![p].at = "sync_entry", ![p].entry = e]
      BY <1>3, <2>4, Zenon
    <2>6. QED  BY Zenon, <1>1, <1>2, <2>2, <2>3, <2>5, EntryKeeps
  <1>4. CASE now' = now /\ opener' = opener
    BY <1>1, <1>2, <1>4 DEF CacheTypes, KeyInv, Sealed, Fits
  <1>5. QED  BY <1>1, <1>3, <1>4

\* Removing an entry leaves the others sealed as they were.
LEMMA RemovedEntry ==
    ASSUME NEW k \in CacheKeys PROVE [Cache!NoEntry EXCEPT !.name = k] \in Entry
  <1>1. Cache!NoEntry \in [value : Nat, key : 0 .. MaxKeys, name : CacheKeys \cup {""}]
    BY Zenon, CacheRecords DEF Entry
  <1>2. QED  BY Zenon, <1>1 DEF Entry

\* remove takes an entry away and leaves the key.
LEMMA RemoveKeeps ==
    ASSUME CacheTypes, KeyInv, NEW p \in Openers, Cache!try_remove(p)
    PROVE CacheTypes' /\ KeyInv'
  <1>1. PICK k \in CacheKeys :
           /\ opener[p].at = "open" /\ now' = [now EXCEPT !.entries[k] = Cache!NoEntry]
           /\ opener' = [opener EXCEPT ![p].at = "sync_entry",
                                       ![p].entry = [Cache!NoEntry EXCEPT !.name = k]]
           /\ durable' = durable /\ keys' = keys /\ puts' = puts
    BY Zenon DEF Cache!try_remove, Cache!At
  <1>2. PICK f : f = [Cache!NoEntry EXCEPT !.name = k]  BY Zenon
  <1>3. f \in Entry  BY <1>2, RemovedEntry
  <1>4. opener' = [opener EXCEPT ![p].at = "sync_entry", ![p].entry = f]
    BY <1>1, <1>2, Zenon
  <1>5. puts' \in Nat /\ Cache!NoEntry \in Entry  BY <1>1, OpenerFits, CacheRecords
  <1>6. QED  BY Zenon, <1>1, <1>3, <1>4, <1>5, EntryKeeps

\* The directory is synchronised: what is visible becomes durable.
LEMMA SyncEntryKeeps ==
    ASSUME CacheTypes, KeyInv, NEW p \in Openers, Cache!SyncEntry(p)
    PROVE CacheTypes' /\ KeyInv'
  <1>1. /\ opener[p].at = "sync_entry" /\ now' = now /\ keys' = keys /\ puts' = puts
        /\ durable' = Cache!Synced \/ durable' = durable
        /\ opener' = [opener EXCEPT ![p].at = "open", ![p].entry = Cache!NoEntry]
    BY DEF Cache!SyncEntry, Cache!At
  <1>2. opener[p].key = now.key /\ durable.key = now.key /\ now.key # 0
    BY <1>1, OpenerFits DEF Fits
  <1>3. Placed(p, "open", opener[p].key, opener[p].created, Cache!NoEntry)
    BY <1>1, OpenerWrites, Zenon
  <1>4. "open" \in Places /\ Cache!NoEntry \in Entry  BY CacheRecords DEF Places
  <1>5. /\ durable' \in Disk /\ durable'.key = now.key
        /\ \/ durable'.key = durable.key /\ durable'.entries = durable.entries
           \/ durable'.key = now.key /\ durable'.entries = now.entries
    BY <1>1, <1>2, SyncedDisk, OpenerFits
  <1>6. QED  BY <1>1, <1>2, <1>3, <1>4, <1>5, OpenerFits, OpenerMoves

\* A power loss leaves what was durable, key and entries alike.
LEMMA CrashKeeps ==
    ASSUME CacheTypes, KeyInv, NEW p \in Openers, Cache!Crash(p)
    PROVE CacheTypes' /\ KeyInv'
  <1>1. /\ Cache!Fails(p) /\ now' = now /\ durable' = durable
        /\ keys' = keys /\ puts' = puts
    BY DEF Cache!Crash, Cache!Fails
  <1>2. QED  BY <1>1, OpenerFits, FailKeeps

\* Whatever mixture of the two disks a power loss leaves, an entry of it was
\* sealed under the key both of them show.
LEMMA PowerLossKeeps ==
    ASSUME CacheTypes, KeyInv, Cache!PowerLoss
    PROVE CacheTypes' /\ KeyInv'
  <1>1. /\ durable' = now' /\ opener' = [p \in Openers |-> Cache!Down]
        /\ keys' = keys /\ puts' = puts
    BY DEF Cache!PowerLoss
  <1>2. opener' \in [Openers -> Opener] /\ \A p \in Openers : Fits(opener[p])'
    <2>1. opener' \in [Openers -> Opener]  BY <1>1, CacheRecords
    <2>2. ASSUME NEW p \in Openers PROVE Fits(opener[p])'
      <3>1. opener'[p].at = "down"  BY <1>1, EmptyDisk
      <3>2. QED  BY <3>1 DEF Fits
    <2>3. QED  BY <2>1, <2>2
  <1>3. PICK dir \in {now.dir, durable.dir}, key \in {now.key, durable.key},
             temps \in {now.temps, durable.temps}, kep \in [CacheKeys -> {now, durable}] :
           now' = IF ~dir THEN Cache!Empty
                  ELSE [dir |-> TRUE, key |-> key, temps |-> temps,
                        entries |-> [k \in CacheKeys |-> kep[k].entries[k]]]
    BY Zenon DEF Cache!PowerLoss
  <1>4. CASE ~dir
    <2>1. now' = Cache!Empty /\ durable' = Cache!Empty  BY <1>1, <1>3, <1>4
    <2>2. CacheTypes'  BY <1>1, <1>2, <2>1, CacheRecords DEF CacheTypes
    <2>3. KeyInv'  BY <1>2, <2>1, EmptyDisk DEF KeyInv, Sealed
    <2>4. QED  BY <2>2, <2>3
  <1>5. CASE dir
    <2>1. PICK E : E = [k \in CacheKeys |-> kep[k].entries[k]]  BY Zenon
    <2>2. now' = [dir |-> TRUE, key |-> key, temps |-> temps, entries |-> E]
      BY <1>3, <1>5, <2>1
    <2>3. /\ now.entries \in [CacheKeys -> Entry] /\ durable.entries \in [CacheKeys -> Entry]
          /\ key \in 0 .. MaxKeys /\ temps \in SUBSET (1 .. MaxKeys)
      BY DEF CacheTypes, Disk
    <2>4. \A k \in CacheKeys : E[k] \in {now.entries[k], durable.entries[k]}
      BY <2>1
    <2>5. E \in [CacheKeys -> Entry]  BY <2>1, <2>3, <2>4
    <2>6. now' \in Disk  BY <2>2, <2>3, <2>5 DEF Disk
    <2>7. CacheTypes'  BY <1>1, <1>2, <2>6 DEF CacheTypes
    <2>8. now'.key = key /\ durable'.key = key /\ now'.entries = E /\ durable'.entries = E
      BY <1>1, <2>2
    <2>9. ASSUME NEW k \in CacheKeys, E[k] # Cache!NoEntry
          PROVE E[k].key = key /\ E[k].name = k /\ key # 0
      <3>1. Sealed(k, now.entries[k]) /\ Sealed(k, durable.entries[k])  BY DEF KeyInv
      <3>2. PICK e : e = E[k]  OBVIOUS
      <3>3. e \in {now.entries[k], durable.entries[k]} /\ e # Cache!NoEntry
        BY <2>4, <2>9, <3>2
      <3>4. e.key = now.key /\ e.name = k /\ durable.key = now.key /\ now.key # 0
        BY <3>1, <3>3 DEF Sealed
      <3>5. QED  BY <3>2, <3>4
    <2>10. \A k \in CacheKeys : Sealed(k, now.entries[k])' /\ Sealed(k, durable.entries[k])'
      BY <2>8, <2>9 DEF Sealed
    <2>11. KeyInv'  BY <1>2, <2>8, <2>10 DEF KeyInv
    <2>12. QED  BY <2>7, <2>11
  <1>6. dir \in BOOLEAN  BY DEF CacheTypes, Disk
  <1>7. QED  BY <1>4, <1>5, <1>6

\* Every step of every opener keeps the key that opens the entries.
LEMMA CacheSteps ==
    ASSUME CacheTypes, KeyInv, [Cache!Next]_cache
    PROVE CacheTypes' /\ KeyInv'
  <1>1. ASSUME NEW p \in Openers,
               \/ Cache!Start(p) \/ Cache!Look(p) \/ Cache!Reload(p)
               \/ Cache!collect_new_components(p) \/ Cache!create_dir_all(p)
               \/ Cache!sync_new_components(p) \/ Cache!WriteTemp(p) \/ Cache!hard_link(p)
               \/ Cache!Unlink(p) \/ Cache!SyncKey(p) \/ Cache!write_entry(p)
               \/ Cache!try_remove(p) \/ Cache!SyncEntry(p) \/ Cache!Crash(p)
        PROVE CacheTypes' /\ KeyInv'
    BY <1>1, StartKeeps, ReadsKeep, CollectKeeps, CreateKeeps, SyncNewKeeps, WriteTempKeeps,
       LinkKeeps, UnlinkKeeps, SyncKeyKeeps, WriteEntryKeeps, RemoveKeeps, SyncEntryKeeps,
       CrashKeeps
  <1>2. CASE Cache!PowerLoss  BY <1>2, PowerLossKeeps
  <1>3. CASE UNCHANGED cache
    BY Zenon, <1>3 DEF cache, CacheTypes, KeyInv, Sealed, Fits
  <1>4. QED  BY <1>1, <1>2, <1>3 DEF Cache!Next

\* However many openers race for the first key, however often a system call
\* fails, and wherever one of them stops or the power goes, the keyfile opens
\* every entry on the disk (cache.rs open, create_keyfile_no_replace).
THEOREM NothingIsOrphaned == Spec => []KeyOpensEveryEntry
  <1> DEFINE Inv == Is("cache") => CacheTypes /\ KeyInv
  <1>1. Init => Inv  BY PartStarts, CacheStarts
  <1>2. Inv /\ [Next]_vars => Inv'
    <2> SUFFICES ASSUME Inv, [Next]_vars, Is("cache")' PROVE CacheTypes' /\ KeyInv'
      OBVIOUS
    <2>1. Is("cache") /\ [Cache!Next]_cache  BY PartSteps DEF Is
    <2>2. QED  BY <2>1, CacheSteps
  <1>3. Inv => KeyOpensEveryEntry
    <2> SUFFICES ASSUME CacheTypes, KeyInv PROVE Cache!TypeOK /\ Cache!KeyOpensEveryEntry
      BY DEF KeyOpensEveryEntry
    <2>1. Cache!TypeOK  BY Zenon DEF Cache!TypeOK, CacheTypes, Disk, Entry, Opener
    <2>2. ASSUME NEW k \in CacheKeys, now.entries[k] # Cache!NoEntry
          PROVE  /\ now.entries[k].key = now.key
                 /\ \A p \in Openers : opener[p].at \in {"open", "sync_entry"} =>
                       Cache!read_entry(p, k) = now.entries[k].value
      <3>1. now.entries[k].key = now.key /\ now.entries[k].name = k
        BY <2>2 DEF KeyInv, Sealed
      <3>2. ASSUME NEW p \in Openers, opener[p].at \in {"open", "sync_entry"}
            PROVE Cache!read_entry(p, k) = now.entries[k].value
        <4>1. opener[p].key = now.key  BY <3>2 DEF KeyInv, Fits
        <4>2. QED  BY <3>1, <4>1 DEF Cache!read_entry
      <3>3. QED  BY <3>1, <3>2
    <2>3. QED  BY <2>1, <2>2 DEF Cache!KeyOpensEveryEntry
  <1>4. QED  BY <1>1, <1>2, <1>3, PTL DEF Spec

-----------------------------------------------------------------------------
(* The feature ledger and its forwarding lane.                              *)

Told == {<<>>} \cup {<<r>> : r \in Ledger!Request}
Kinds == {"", "State", "Stats", "AgentStats", "ForkSelectorNeeded", "CertificateFatal",
          "ApiError", "SettingRefused"}
Args == Told \cup Ledger!SettingTypes \cup {"", "invalid", "wg", "agent"}
Occurrence == [kind : Kinds, arg : Args, stamp : Nat]

\* A state tells the applied settings or none, a refusal names a setting, and
\* an event has an argument only where its class does.
Meant(e) ==
    /\ e.kind = "State" => e.arg \in Told
    /\ e.kind = "SettingRefused" => e.arg \in Ledger!SettingTypes
    /\ Ledger!IsControl(e) => Ledger!Owes(e) = Ledger!critical_class(e)

Calling == [at : {"idle", "entered", "forward", "full"}, epoch : Nat, event : Occurrence,
            updates : Nat]
Proof == [applied : Nat \X Nat, refused : [Ledger!SettingTypes -> Nat \X Nat]]

LedgerTypes ==
    /\ requested \in Ledger!Request /\ refused \subseteq Ledger!SettingTypes /\ applied \in Told
    /\ updates \in 0 .. MaxUpdates /\ sessions \in Nat /\ proof \in Proof
    /\ callback \in Calling /\ queue \in Seq(Occurrence) /\ critical \subseteq Occurrence
    /\ Len(queue) <= Bound
    /\ Meant(callback.event) /\ \A e \in critical : Ledger!IsControl(e) /\ Meant(e)

\* The epoch counts the requests, a callback that has not reached the ledger
\* carries the count it began with, and every verdict was recorded under the
\* count in force.
Answers ==
    /\ epoch = updates
    /\ callback.at = "entered" => callback.epoch = callback.updates
    /\ applied # <<>> => proof.applied = Ledger!Now
    /\ \A s \in refused : proof.refused[s] = Ledger!Now

\* Where a class of control event that is owed may be. A callback that has not
\* reached the ledger owes nothing yet.
Held(c) ==
    \/ \E i \in DOMAIN queue : Ledger!Owes(queue[i]) = c
    \/ \E e \in critical : Ledger!Owes(e) = c
    \/ callback.at \in {"forward", "full"} /\ Ledger!Owes(callback.event) = c

Controls == {"ForkSelectorNeeded", "CertificateFatal", "ApiError", "SettingRefused"}

LedgerInv == LedgerTypes /\ Answers /\ \A c \in owed : c[1] \in Controls /\ Held(c)

\* An event of a kind whose argument is as the kind has it.
LEMMA EventMeans ==
    ASSUME NEW k \in Kinds, NEW a \in Args, NEW e, e = Ledger!Event(k, a), k # "State",
           k = "SettingRefused" => a \in Ledger!SettingTypes,
           k \in {"ForkSelectorNeeded", "CertificateFatal"} => a = ""
    PROVE  e \in Occurrence /\ Meant(e)
  <1>1. e \in Occurrence /\ e.kind = k /\ e.arg = a  BY Zenon DEF Ledger!Event, Occurrence
  <1>2. CASE k \in {"ForkSelectorNeeded", "CertificateFatal"}
    BY Zenon, <1>1, <1>2 DEF Meant, Ledger!Owes, Ledger!critical_class
  <1>3. CASE k \in {"SettingRefused", "ApiError"}
    BY Zenon, <1>1, <1>3 DEF Meant, Ledger!Owes, Ledger!critical_class
  <1>4. CASE k \notin {"ForkSelectorNeeded", "CertificateFatal", "SettingRefused", "ApiError"}
    BY Zenon, <1>1, <1>4 DEF Meant, Ledger!IsControl
  <1>5. QED  BY Zenon, <1>2, <1>3, <1>4

\* Events are of the shapes the callbacks and the ledger rely on.
LEMMA EventsMean ==
    /\ \A info \in Told : /\ Ledger!StateEvent(info) \in Occurrence
                          /\ Meant(Ledger!StateEvent(info))
    /\ \A events \in Ledger!translate_event : events # <<>> =>
          events[1] \in Occurrence /\ Meant(events[1])
    /\ Ledger!Idle \in Calling /\ Meant(Ledger!Idle.event) /\ Ledger!Idle.at = "idle"
  <1>1. ASSUME NEW info \in Told
        PROVE Ledger!StateEvent(info) \in Occurrence /\ Meant(Ledger!StateEvent(info))
    BY Zenon DEF Ledger!StateEvent, Occurrence, Kinds, Args, Meant, Ledger!IsControl
  <1>2. ASSUME NEW events \in Ledger!translate_event, events # <<>>
        PROVE events[1] \in Occurrence /\ Meant(events[1])
    <2>1. ASSUME NEW s \in Ledger!SettingTypes, events = <<Ledger!Event("SettingRefused", s)>>
          PROVE events[1] \in Occurrence /\ Meant(events[1])
      <3>1. events[1] = Ledger!Event("SettingRefused", s)  BY <2>1
      <3>2. "SettingRefused" \in Kinds /\ s \in Args  BY Zenon DEF Kinds, Args
      <3>3. QED  BY Zenon, <3>1, <3>2, EventMeans
    <2>2. CASE events = <<Ledger!Event("Stats", "wg")>>
      <3>1. events[1] = Ledger!Event("Stats", "wg")  BY <2>2
      <3>2. "Stats" \in Kinds /\ "wg" \in Args  BY DEF Kinds, Args
      <3>3. QED  BY Zenon, <3>1, <3>2, EventMeans
    <2>3. CASE events = <<Ledger!Event("AgentStats", "agent")>>
      <3>1. events[1] = Ledger!Event("AgentStats", "agent")  BY <2>3
      <3>2. "AgentStats" \in Kinds /\ "agent" \in Args  BY DEF Kinds, Args
      <3>3. QED  BY Zenon, <3>1, <3>2, EventMeans
    <2>4. CASE events = <<Ledger!Event("ForkSelectorNeeded", "")>>
      <3>1. events[1] = Ledger!Event("ForkSelectorNeeded", "")  BY Zenon, <2>4
      <3>2. "ForkSelectorNeeded" \in Kinds /\ "" \in Args  BY DEF Kinds, Args
      <3>3. QED  BY Zenon, <3>1, <3>2, EventMeans
    <2>5. CASE events = <<Ledger!Event("CertificateFatal", "")>>
      <3>1. events[1] = Ledger!Event("CertificateFatal", "")  BY Zenon, <2>5
      <3>2. "CertificateFatal" \in Kinds /\ "" \in Args  BY DEF Kinds, Args
      <3>3. QED  BY Zenon, <3>1, <3>2, EventMeans
    <2>6. CASE events = <<Ledger!Event("ApiError", "invalid")>>
      <3>1. events[1] = Ledger!Event("ApiError", "invalid")  BY <2>6
      <3>2. "ApiError" \in Kinds /\ "invalid" \in Args  BY DEF Kinds, Args
      <3>3. QED  BY Zenon, <3>1, <3>2, EventMeans
    <2>7. CASE events = <<Ledger!Event("ApiError", "")>>
      <3>1. events[1] = Ledger!Event("ApiError", "")  BY Zenon, <2>7
      <3>2. "ApiError" \in Kinds /\ "" \in Args  BY DEF Kinds, Args
      <3>3. QED  BY Zenon, <3>1, <3>2, EventMeans
    <2>8. QED
      BY <1>2, <2>1, <2>2, <2>3, <2>4, <2>5, <2>6, <2>7, Zenon DEF Ledger!translate_event
  <1>3. Ledger!Idle \in Calling /\ Meant(Ledger!Idle.event) /\ Ledger!Idle.at = "idle"
    <2>1. Ledger!Event("", "") \in Occurrence /\ Meant(Ledger!Event("", ""))
      BY DEF Ledger!Event, Occurrence, Kinds, Args, Meant, Ledger!IsControl
    <2>2. QED  BY Zenon, <2>1 DEF Ledger!Idle, Calling
  <1>4. QED  BY <1>1, <1>2, <1>3

\* The ledger starts with a request nobody has answered.
LEMMA LedgerStarts == ASSUME Ledger!Init PROVE LedgerInv
  <1>1. proof \in Proof
    <2>1. [s \in Ledger!SettingTypes |-> <<0, 0>>] \in [Ledger!SettingTypes -> Nat \X Nat]
      OBVIOUS
    <2>2. QED  BY <2>1 DEF Ledger!Init, Proof
  <1>2. /\ requested \in Ledger!Request /\ refused = {} /\ applied = <<>> /\ applied \in Told
        /\ updates = 0 /\ sessions = 0 /\ epoch = 0 /\ callback = Ledger!Idle
        /\ queue = <<>> /\ critical = {} /\ owed = {}
    BY DEF Ledger!Init, Told
  <1>3. queue \in Seq(Occurrence) /\ Len(queue) <= Bound  BY <1>2, NetworkAssumption
  <1>4. updates \in 0 .. MaxUpdates /\ sessions \in Nat  BY <1>2, NetworkAssumption
  <1>5. callback \in Calling /\ Meant(callback.event) /\ callback.at = "idle"
    BY <1>2, EventsMean
  <1>6. LedgerTypes  BY <1>1, <1>2, <1>3, <1>4, <1>5 DEF LedgerTypes
  <1>7. Answers  BY <1>2, <1>5 DEF Answers
  <1>8. QED  BY <1>2, <1>6, <1>7 DEF LedgerInv

\* What the invariant says of the callback.
LEMMA CallbackFacts ==
    ASSUME LedgerInv
    PROVE  /\ callback \in Calling /\ callback.event \in Occurrence /\ Meant(callback.event)
           /\ callback.epoch \in Nat /\ callback.updates \in Nat /\ updates \in Nat
           /\ sessions \in Nat /\ epoch = updates
  BY DEF LedgerInv, LedgerTypes, Answers, Calling

\* A callback that enters snapshots the epoch and the count of requests.
LEMMA EnterKeeps ==
    ASSUME LedgerInv, NEW e \in Occurrence, Meant(e), Ledger!Enter(e)
    PROVE LedgerInv'
  <1>1. /\ callback.at = "idle"
        /\ callback' = [at |-> "entered", epoch |-> epoch, event |-> e, updates |-> updates]
        /\ requested' = requested /\ applied' = applied /\ refused' = refused /\ epoch' = epoch
        /\ queue' = queue /\ critical' = critical /\ owed' = owed /\ updates' = updates
        /\ sessions' = sessions /\ proof' = proof
    BY DEF Ledger!Enter, Ledger!ledger, Ledger!lane
  <1>2. /\ callback' \in Calling /\ callback'.event = e /\ callback'.at = "entered"
        /\ callback'.epoch = callback'.updates
    BY <1>1, CallbackFacts DEF Calling
  <1>3. LedgerTypes'  BY <1>1, <1>2 DEF LedgerInv, LedgerTypes
  <1>4. Answers'  BY Zenon, <1>1, <1>2 DEF LedgerInv, Answers, Ledger!Now
  <1>5. \A c \in owed' : c[1] \in Controls /\ Held(c)'  BY Zenon, <1>1 DEF LedgerInv, Held
  <1>6. QED  BY Zenon, <1>3, <1>4, <1>5 DEF LedgerInv

\* The callback's turn at the ledger: its verdict counts only under the epoch
\* it began with, which is then the count of requests.
LEMMA NoteKeeps ==
    ASSUME LedgerInv, Ledger!Note
    PROVE LedgerInv'
  <1> DEFINE stale == callback.event.kind = "SettingRefused" /\ callback.epoch # epoch
  <1>1. /\ callback.at = "entered" /\ callback.epoch = callback.updates
        /\ queue' = queue /\ critical' = critical /\ updates' = updates
        /\ requested' = requested /\ epoch' = epoch
    BY DEF Ledger!Note, LedgerInv, Answers, Ledger!note_applied, Ledger!note_unconfirmed,
       Ledger!note_refused, Ledger!ledger
  <1>2. /\ callback' \in Calling /\ Meant(callback.event)'
        /\ callback'.at \in {"idle", "forward"}
        /\ ~stale => /\ callback'.at = "forward"
                     /\ callback'.event.kind = callback.event.kind
                     /\ callback'.event.arg = callback.event.arg
    <2>1. CASE stale
      <3>1. callback' = Ledger!Idle  BY <2>1 DEF Ledger!Note
      <3>2. QED  BY <2>1, <3>1, EventsMean
    <2>2. CASE ~stale
      <3>1. callback' = [callback EXCEPT !.at = "forward", !.event.stamp = callback.epoch]
        BY <2>2 DEF Ledger!Note
      <3>2. /\ callback' \in Calling /\ callback'.at = "forward"
            /\ callback'.event.kind = callback.event.kind
            /\ callback'.event.arg = callback.event.arg
        BY Zenon, <3>1, CallbackFacts DEF Calling, Occurrence
      <3>3. Meant(callback.event)'
        BY Zenon, <3>2, CallbackFacts DEF Meant, Ledger!IsControl, Ledger!Owes, Ledger!critical_class
      <3>4. QED  BY <3>2, <3>3
    <2>3. QED  BY <2>1, <2>2
  <1>3. /\ applied' \in Told /\ refused' \subseteq Ledger!SettingTypes
        /\ proof' \in Proof /\ sessions' \in Nat
        /\ applied' # <<>> => proof'.applied = <<updates, sessions'>>
        /\ \A s \in refused' : proof'.refused[s] = <<updates, sessions'>>
    <2>t. /\ applied \in Told /\ refused \subseteq Ledger!SettingTypes /\ proof \in Proof
          /\ sessions \in Nat /\ updates \in Nat /\ callback.updates \in Nat
          /\ applied # <<>> => proof.applied = <<updates, sessions>>
          /\ \A s \in refused : proof.refused[s] = <<updates, sessions>>
          /\ epoch = updates
      BY CallbackFacts DEF LedgerInv, LedgerTypes, Answers, Ledger!Now
    <2>1. CASE callback.event.kind = "State" /\ callback.event.arg # <<>>
      <3>1. PICK r \in Ledger!Request : callback.event.arg = <<r>>
        BY <2>1, CallbackFacts DEF Meant, Told
      <3>2. Ledger!note_applied(r, callback.epoch)  BY <2>1, <3>1 DEF Ledger!Note
      <3>3. CASE callback.epoch # epoch
        <4>1. applied' = applied /\ proof' = proof /\ refused' = refused /\ sessions' = sessions
          BY <3>2, <3>3 DEF Ledger!note_applied
        <4>2. QED  BY <2>t, <4>1
      <3>4. CASE callback.epoch = epoch
        <4>1. /\ applied' = <<r>> /\ refused' = refused /\ sessions' = sessions
              /\ proof' = [proof EXCEPT !.applied = <<callback.updates, sessions>>]
          BY <3>2, <3>4 DEF Ledger!note_applied
        <4>2. callback.updates = updates  BY <1>1, <2>t, <3>4
        <4>3. /\ proof' \in Proof /\ proof'.applied = <<updates, sessions>>
              /\ proof'.refused = proof.refused
          BY Zenon, <2>t, <4>1, <4>2 DEF Proof
        <4>4. applied' \in Told  BY <4>1 DEF Told
        <4>5. QED  BY <2>t, <4>1, <4>3, <4>4
      <3>5. QED  BY <3>3, <3>4
    <2>2. CASE callback.event.kind = "State" /\ callback.event.arg = <<>>
      <3>1. applied' = <<>> /\ refused' = {} /\ sessions' = sessions + 1 /\ proof' = proof
        BY <2>2 DEF Ledger!Note, Ledger!note_unconfirmed
      <3>2. QED  BY <2>t, <3>1 DEF Told
    <2>3. CASE callback.event.kind = "SettingRefused"
      <3>1. PICK s \in Ledger!SettingTypes : callback.event.arg = s
        BY <2>3, CallbackFacts DEF Meant
      <3>2. Ledger!note_refused(s, callback.epoch)  BY <2>3, <3>1 DEF Ledger!Note
      <3>3. CASE callback.epoch # epoch
        <4>1. applied' = applied /\ proof' = proof /\ refused' = refused /\ sessions' = sessions
          BY <3>2, <3>3 DEF Ledger!note_refused
        <4>2. QED  BY <2>t, <4>1
      <3>4. CASE callback.epoch = epoch
        <4>1. /\ applied' = applied /\ refused' = refused \cup {s} /\ sessions' = sessions
              /\ proof' = [proof EXCEPT !.refused[s] = <<callback.updates, sessions>>]
          BY <3>2, <3>4 DEF Ledger!note_refused
        <4>2. callback.updates = updates  BY <1>1, <2>t, <3>4
        <4>3. /\ proof' \in Proof /\ proof'.applied = proof.applied
              /\ \A z \in Ledger!SettingTypes : proof'.refused[z] =
                    IF z = s THEN <<updates, sessions>> ELSE proof.refused[z]
          BY Zenon, <2>t, <4>1, <4>2 DEF Proof
        <4>4. QED  BY <2>t, <4>1, <4>3
      <3>5. QED  BY <3>3, <3>4
    <2>4. CASE callback.event.kind \notin {"State", "SettingRefused"}
      <3>1. applied' = applied /\ proof' = proof /\ refused' = refused /\ sessions' = sessions
        BY <2>4 DEF Ledger!Note, Ledger!ledger
      <3>2. QED  BY <2>t, <3>1
    <2>5. QED  BY <2>1, <2>2, <2>3, <2>4
  <1>4. LedgerTypes'  BY <1>1, <1>2, <1>3 DEF LedgerInv, LedgerTypes
  <1>5. Answers'  BY <1>1, <1>2, <1>3 DEF LedgerInv, Answers, Ledger!Now
  <1>6. ASSUME NEW c \in owed' PROVE c[1] \in Controls /\ Held(c)'
    <2>1. CASE c \in owed
      <3>1. Held(c) /\ callback.at = "entered" /\ c[1] \in Controls
        BY <1>1, <2>1 DEF LedgerInv
      <3>2. QED  BY <1>1, <3>1 DEF Held
    <2>2. CASE c \notin owed
      <3>1. c = Ledger!Owes(callback.event) /\ ~stale /\ Ledger!IsControl(callback.event)
        BY <1>6, <2>2 DEF Ledger!Note
      <3>2. c[1] \in Controls  BY <3>1 DEF Ledger!Owes, Ledger!IsControl, Controls
      <3>3. QED  BY <1>2, <3>1, <3>2 DEF Held, Ledger!Owes
    <2>3. QED  BY <2>1, <2>2
  <1>7. QED  BY <1>4, <1>5, <1>6 DEF LedgerInv

\* A step of the lane that leaves the ledger and its proofs alone.
LEMMA LaneKeepsAnswers ==
    ASSUME LedgerInv, requested' = requested, applied' = applied, refused' = refused,
           epoch' = epoch, updates' = updates, sessions' = sessions, proof' = proof,
           callback'.at = "entered" => callback' = callback
    PROVE Answers'
  BY DEF LedgerInv, Answers, Ledger!Now

\* An event goes to the queue if there is room.
LEMMA ForwardKeeps ==
    ASSUME LedgerInv, Ledger!forward
    PROVE LedgerInv'
  <1>1. /\ callback.at = "forward" /\ critical' = critical /\ owed' = owed
        /\ requested' = requested /\ applied' = applied /\ refused' = refused
        /\ epoch' = epoch /\ updates' = updates /\ sessions' = sessions /\ proof' = proof
    BY DEF Ledger!forward, Ledger!ledger
  <1>q. queue \in Seq(Occurrence) /\ Bound \in Nat /\ Len(queue) <= Bound
    BY NetworkAssumption DEF LedgerInv, LedgerTypes
  <1>2. CASE Len(queue) < Bound
    <2>1. queue' = Append(queue, callback.event) /\ callback' = Ledger!Idle
      BY <1>2 DEF Ledger!forward
    <2>2. /\ queue' \in Seq(Occurrence) /\ Len(queue') <= Bound
          /\ Len(queue') = Len(queue) + 1 /\ Len(queue) \in Nat
          /\ \A i \in 1 .. Len(queue) : queue'[i] = queue[i]
          /\ queue'[Len(queue) + 1] = callback.event
      BY <1>2, <1>q, <2>1, CallbackFacts
    <2>3. /\ callback' \in Calling /\ Meant(callback.event)' /\ callback'.at = "idle"
      BY <2>1, EventsMean
    <2>4. LedgerTypes'  BY Zenon, <1>1, <2>2, <2>3 DEF LedgerInv, LedgerTypes
    <2>5. Answers'  BY <1>1, <2>3, LaneKeepsAnswers
    <2>6. ASSUME NEW c \in owed' PROVE c[1] \in Controls /\ Held(c)'
      <3>1. c[1] \in Controls /\ Held(c)  BY <1>1 DEF LedgerInv
      <3>2. CASE \E i \in DOMAIN queue : Ledger!Owes(queue[i]) = c
        <4>1. PICK i \in 1 .. Len(queue) : Ledger!Owes(queue[i]) = c  BY <1>q, <3>2
        <4>2. i \in DOMAIN queue' /\ queue'[i] = queue[i]  BY <2>2, <4>1
        <4>3. QED  BY <3>1, <4>1, <4>2 DEF Held
      <3>3. CASE \E e \in critical : Ledger!Owes(e) = c  BY <1>1, <3>1, <3>3 DEF Held
      <3>4. CASE Ledger!Owes(callback.event) = c
        <4>1. Len(queue) + 1 \in DOMAIN queue'  BY <2>2
        <4>2. QED  BY <2>2, <3>1, <3>4, <4>1 DEF Held
      <3>5. QED  BY Zenon, <3>1, <3>2, <3>3, <3>4 DEF Held
    <2>7. QED  BY <2>4, <2>5, <2>6 DEF LedgerInv
  <1>3. CASE ~(Len(queue) < Bound)
    <2>1. queue' = queue /\ callback' = [callback EXCEPT !.at = "full"]
      BY <1>3 DEF Ledger!forward
    <2>2. callback' \in Calling /\ callback'.event = callback.event /\ callback'.at = "full"
      BY <2>1, CallbackFacts DEF Calling
    <2>3. LedgerTypes'  BY <1>1, <2>1, <2>2, CallbackFacts DEF LedgerInv, LedgerTypes
    <2>4. Answers'  BY <1>1, <2>2, LaneKeepsAnswers
    <2>5. \A c \in owed' : c[1] \in Controls /\ Held(c)'
      BY <1>1, <2>1, <2>2 DEF LedgerInv, Held
    <2>6. QED  BY <2>3, <2>4, <2>5 DEF LedgerInv
  <1>4. QED  BY <1>2, <1>3

\* A control that finds the queue full takes the place of the one its class
\* retains, which owes the same.
LEMMA OverflowKeeps ==
    ASSUME LedgerInv, Ledger!Overflow
    PROVE LedgerInv'
  <1>1. /\ callback.at = "full" /\ callback' = Ledger!Idle /\ queue' = queue /\ owed' = owed
        /\ critical' = IF Ledger!IsControl(callback.event) THEN Ledger!Retained(callback.event)
                       ELSE critical
        /\ requested' = requested /\ applied' = applied /\ refused' = refused
        /\ epoch' = epoch /\ updates' = updates /\ sessions' = sessions /\ proof' = proof
    BY DEF Ledger!Overflow, Ledger!ledger
  <1>2. callback' \in Calling /\ Meant(callback.event)' /\ callback'.at = "idle"
    BY <1>1, EventsMean
  <1>3. PICK f \in Occurrence : f = callback.event /\ Meant(f)  BY CallbackFacts
  <1>4. /\ critical \subseteq Occurrence
        /\ \A e \in critical : Ledger!IsControl(e) /\ Meant(e)
    BY DEF LedgerInv, LedgerTypes
  <1>5. PICK twin : twin = {e \in critical :
                              Ledger!critical_class(e) = Ledger!critical_class(f)}
    BY Zenon
  <1>6. Ledger!IsControl(f) => critical' = IF \E e \in twin : e.kind = "CertificateFatal"
                                           THEN critical ELSE (critical \ twin) \cup {f}
    BY <1>1, <1>3, <1>5, Zenon DEF Ledger!Retained
  <1>7. ~Ledger!IsControl(f) => critical' = critical  BY <1>1, <1>3
  <1>8. /\ critical' \subseteq Occurrence
        /\ \A e \in critical' : Ledger!IsControl(e) /\ Meant(e)
    BY Zenon, <1>3, <1>4, <1>6, <1>7
  <1>9. LedgerTypes'  BY <1>1, <1>2, <1>8 DEF LedgerInv, LedgerTypes
  <1>10. Answers'  BY <1>1, <1>2, LaneKeepsAnswers
  <1>11. ASSUME Ledger!IsControl(f), NEW e \in twin PROVE Ledger!Owes(e) = Ledger!Owes(f)
    <2>1. /\ e \in critical /\ Ledger!critical_class(e) = Ledger!critical_class(f)
          /\ Ledger!IsControl(e) /\ Meant(e)
      BY <1>4, <1>5
    <2>2. QED  BY Zenon, <1>3, <1>11, <2>1 DEF Meant
  <1>12. \A e \in critical : \E z \in critical' : Ledger!Owes(z) = Ledger!Owes(e)
    BY <1>6, <1>7, <1>11
  <1>13. Ledger!IsControl(f) => \E z \in critical' : Ledger!Owes(z) = Ledger!Owes(f)
    <2>1. twin \subseteq critical  BY <1>5
    <2>2. QED  BY <1>6, <1>11, <2>1
  <1>14. ASSUME NEW c \in owed' PROVE c[1] \in Controls /\ Held(c)'
    <2>1. c[1] \in Controls /\ Held(c)  BY <1>1 DEF LedgerInv
    <2>2. CASE \E i \in DOMAIN queue : Ledger!Owes(queue[i]) = c
      BY Zenon, <1>1, <2>1, <2>2 DEF Held
    <2>3. CASE \E e \in critical : Ledger!Owes(e) = c  BY Zenon, <1>12, <2>1, <2>3 DEF Held
    <2>4. CASE Ledger!Owes(callback.event) = c
      <3>1. Ledger!IsControl(f)
        BY <1>3, <2>1, <2>4 DEF Ledger!Owes, Ledger!IsControl, Controls
      <3>2. QED  BY Zenon, <1>3, <1>13, <2>1, <2>4, <3>1 DEF Held
    <2>5. QED  BY Zenon, <2>1, <2>2, <2>3, <2>4 DEF Held
  <1>15. QED  BY <1>9, <1>10, <1>14 DEF LedgerInv

\* A settings change withdraws the verdicts, and the refusals it makes moot
\* from the slots and from what is owed alike.
LEMMA UpdateKeeps ==
    ASSUME LedgerInv, Ledger!update_agent_settings
    PROVE LedgerInv'
  <1>1. /\ updates < MaxUpdates /\ updates' = updates + 1 /\ requested' \in Ledger!Request
        /\ applied' = <<>> /\ refused' = {} /\ epoch' = epoch + 1
        /\ critical' = {e \in critical : e.kind # "SettingRefused"}
        /\ owed' = {c \in owed : c[1] # "SettingRefused"}
        /\ queue' = queue /\ callback' = callback /\ sessions' = sessions /\ proof' = proof
    BY DEF Ledger!update_agent_settings
  <1>2. updates' \in 0 .. MaxUpdates /\ applied' \in Told
    BY <1>1, CallbackFacts, NetworkAssumption DEF Told
  <1>3. LedgerTypes'  BY Zenon, <1>1, <1>2 DEF LedgerInv, LedgerTypes
  <1>4. Answers'  BY <1>1 DEF LedgerInv, Answers
  <1>5. ASSUME NEW c \in owed' PROVE c[1] \in Controls /\ Held(c)'
    <2>1. c[1] \in Controls /\ Held(c) /\ c[1] # "SettingRefused"  BY <1>1 DEF LedgerInv
    <2>2. CASE \E e \in critical : Ledger!Owes(e) = c
      <3>1. PICK e \in critical : Ledger!Owes(e) = c  BY <2>2
      <3>2. e.kind # "SettingRefused"  BY <2>1, <3>1 DEF Ledger!Owes
      <3>3. QED  BY <1>1, <2>1, <3>1, <3>2 DEF Held
    <2>3. CASE ~(\E e \in critical : Ledger!Owes(e) = c)  BY <1>1, <2>1, <2>3 DEF Held
    <2>4. QED  BY <2>2, <2>3
  <1>6. QED  BY <1>3, <1>4, <1>5 DEF LedgerInv

\* The consumer takes the oldest event, and what it owed with it.
LEMMA ReceiveKeeps ==
    ASSUME LedgerInv, Ledger!Receive
    PROVE LedgerInv'
  <1>1. /\ queue # <<>> /\ queue' = Tail(queue) /\ owed' = owed \ {Ledger!Owes(Head(queue))}
        /\ critical' = critical /\ callback' = callback
        /\ requested' = requested /\ applied' = applied /\ refused' = refused
        /\ epoch' = epoch /\ updates' = updates /\ sessions' = sessions /\ proof' = proof
    BY DEF Ledger!Receive, Ledger!ledger
  <1>2. queue \in Seq(Occurrence) /\ Len(queue) <= Bound /\ Bound \in Nat
    BY NetworkAssumption DEF LedgerInv, LedgerTypes
  <1>3. /\ queue' \in Seq(Occurrence) /\ Len(queue') = Len(queue) - 1 /\ Len(queue') <= Bound
        /\ \A i \in 2 .. Len(queue) : i - 1 \in DOMAIN queue' /\ queue'[i - 1] = queue[i]
        /\ Head(queue) = queue[1]
    BY <1>1, <1>2
  <1>4. LedgerTypes'  BY <1>1, <1>3 DEF LedgerInv, LedgerTypes
  <1>5. Answers'  BY <1>1, LaneKeepsAnswers
  <1>6. ASSUME NEW c \in owed' PROVE c[1] \in Controls /\ Held(c)'
    <2>1. c[1] \in Controls /\ Held(c) /\ c # Ledger!Owes(queue[1])
      BY <1>1, <1>3 DEF LedgerInv
    <2>2. CASE \E i \in DOMAIN queue : Ledger!Owes(queue[i]) = c
      <3>1. PICK i \in 1 .. Len(queue) : Ledger!Owes(queue[i]) = c  BY <1>2, <2>2
      <3>2. i # 1  BY <2>1, <3>1
      <3>3. i \in 2 .. Len(queue)  BY <1>2, <3>2
      <3>4. QED  BY <1>3, <2>1, <3>1, <3>3 DEF Held
    <2>3. CASE ~(\E i \in DOMAIN queue : Ledger!Owes(queue[i]) = c)
      BY <1>1, <2>1, <2>3 DEF Held
    <2>4. QED  BY <2>2, <2>3
  <1>7. QED  BY <1>4, <1>5, <1>6 DEF LedgerInv

\* The consumer takes all that was retained.
LEMMA TakeKeeps ==
    ASSUME LedgerInv, Ledger!take_critical_events
    PROVE LedgerInv'
  <1>1. /\ critical' = {} /\ owed' = owed \ {Ledger!Owes(e) : e \in critical}
        /\ queue' = queue /\ callback' = callback
        /\ requested' = requested /\ applied' = applied /\ refused' = refused
        /\ epoch' = epoch /\ updates' = updates /\ sessions' = sessions /\ proof' = proof
    BY DEF Ledger!take_critical_events, Ledger!ledger
  <1>2. LedgerTypes'  BY <1>1 DEF LedgerInv, LedgerTypes
  <1>3. Answers'  BY <1>1, LaneKeepsAnswers
  <1>4. ASSUME NEW c \in owed' PROVE c[1] \in Controls /\ Held(c)'
    <2>1. c[1] \in Controls /\ Held(c) /\ ~(\E e \in critical : Ledger!Owes(e) = c)
      BY <1>1 DEF LedgerInv
    <2>2. QED  BY <1>1, <2>1 DEF Held
  <1>5. QED  BY <1>2, <1>3, <1>4 DEF LedgerInv

\* Every callback and every settings change keeps the ledger faithful.
LEMMA LedgerSteps == ASSUME LedgerInv, [Ledger!Next]_ledger PROVE LedgerInv'
  <1>1. CASE Ledger!on_state_changed
    <2>1. PICK info \in Told : Ledger!Enter(Ledger!StateEvent(info))
      BY <1>1 DEF Ledger!on_state_changed, Told
    <2>2. QED  BY <2>1, EventsMean, EnterKeeps
  <1>2. CASE Ledger!on_event
    <2>1. PICK events \in Ledger!translate_event : events # <<>> /\ Ledger!Enter(events[1])
      BY <1>2 DEF Ledger!on_event
    <2>2. events[1] \in Occurrence /\ Meant(events[1])  BY <2>1, EventsMean
    <2>3. QED  BY <2>1, <2>2, EnterKeeps
  <1>3. CASE UNCHANGED ledger
    BY Zenon, <1>3 DEF ledger, LedgerInv, LedgerTypes, Answers, Held, Ledger!Now
  <1>4. QED
    BY <1>1, <1>2, <1>3, NoteKeeps, ForwardKeeps, OverflowKeeps, UpdateKeeps, ReceiveKeeps,
       TakeKeeps DEF Ledger!Next

\* Whatever ProTUN reports and however its callbacks are overtaken by settings
\* changes, a verdict of the ledger answers the request in force and the
\* negotiation in course; and a full queue, of whatever bound, loses no class
\* of control event (reconcile.rs note_applied, note_refused; engine.rs forward).
THEOREM LedgerStaysFaithful == Spec => []LedgerIsFaithful
  <1> DEFINE Inv == Is("ledger") => LedgerInv
  <1>1. Init => Inv  BY PartStarts, LedgerStarts
  <1>2. Inv /\ [Next]_vars => Inv'
    <2> SUFFICES ASSUME Inv, [Next]_vars, Is("ledger")' PROVE LedgerInv'
      OBVIOUS
    <2>1. Is("ledger") /\ [Ledger!Next]_ledger  BY PartSteps DEF Is
    <2>2. QED  BY <2>1, LedgerSteps
  <1>3. Inv => LedgerIsFaithful
    <2> SUFFICES ASSUME LedgerInv
                 PROVE  /\ Ledger!TypeOK /\ Ledger!LedgerAnswersThisRequest
                        /\ Ledger!ControlsSurvive
      BY DEF LedgerIsFaithful
    <2>1. Ledger!TypeOK
      <3>1. applied = <<>> \/ (Len(applied) = 1 /\ applied[1] \in Ledger!Request)
        <4>1. applied \in Told  BY Zenon DEF LedgerInv, LedgerTypes
        <4>2. QED  BY <4>1 DEF Told
      <3>2. callback.at \in {"idle", "entered", "forward", "full"}
        BY DEF LedgerInv, LedgerTypes, Calling
      <3>3. epoch \in 0 .. MaxUpdates  BY Zenon DEF LedgerInv, LedgerTypes, Answers
      <3>4. QED  BY <3>1, <3>2, <3>3 DEF LedgerInv, LedgerTypes, Ledger!TypeOK
    <2>2. Ledger!LedgerAnswersThisRequest
      BY Zenon DEF LedgerInv, Answers, Ledger!LedgerAnswersThisRequest, Ledger!divergences
    <2>3. Ledger!ControlsSurvive
      BY Zenon DEF LedgerInv, Held, Ledger!ControlsSurvive
    <2>4. QED  BY <2>1, <2>2, <2>3
  <1>4. QED  BY <1>1, <1>2, <1>3, PTL DEF Spec
=============================================================================

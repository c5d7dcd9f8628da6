------------------------- MODULE PersistenceFacade -------------------------
(***************************************************************************)
(* The credential cache's two layers (crates/protocol/src/facade.rs): the   *)
(* memory ProTUN's callbacks read and write, and the worker thread that     *)
(* makes it durable through a bounded queue, an overflow lane and a retry   *)
(* lane.                                                                    *)
(*                                                                         *)
(* A stored value is named by the sequence of the put that stored it, so    *)
(* two puts never look alike. Every lock hold is one action. The process    *)
(* may stop at any state: the next start preloads whatever the disk holds.  *)
(***************************************************************************)
EXTENDS Integers, Sequences, Functions, TLC, CacheOps

CONSTANTS
    Callers,       \* ProTUN's connection threads
    QUEUE_BOUND,   \* the worker queue's bound
    MaxOps,        \* bound: mutations the callers make
    MayOverrun     \* bound: whether a put above the cap is ever made

ASSUME FacadeAssumption ==
    /\ QUEUE_BOUND \in Nat \ {0}
    /\ MaxOps \in Nat /\ MayOverrun \in BOOLEAN

VARIABLES
    memory,        \* PersistenceFacade::memory
    seq,           \* PersistenceFacade::seq
    queue,         \* the bounded channel
    overflow,      \* the overflow lane, one op a key
    failed,        \* HealthSlot::failure is Some
    join,          \* "open"; Drop is "joining" the worker; it has "returned"
    pc,            \* where each caller is
    op,            \* the op each caller sends
    worker,        \* where the worker is
    back,          \* where its apply pass returns to
    batch,         \* the ops received so far
    todo,          \* what is left of the pass
    retry,         \* RetryLane::pending, in order of deadline
    last_applied,  \* the watermark of each key
    disk,          \* what the cache files hold
    issued         \* history: every op, by its sequence

NoOp == Op(AllKeys, FALSE, 0)

frontend == <<memory, seq, pc, op, issued>>
health == <<failed, join>>
work == <<worker, back, batch, todo, retry, last_applied, disk>>

vars == <<frontend, queue, overflow, health, work>>

Init ==
    /\ disk \in [Keys -> {Nothing, Earlier}]
    /\ memory = disk
    /\ seq = 0 /\ queue = <<>> /\ overflow = <<>>
    /\ failed = FALSE /\ join = "open"
    /\ pc = [c \in Callers |-> "idle"]
    /\ op = [c \in Callers |-> NoOp]
    /\ worker = "top" /\ back = "top"
    /\ batch = <<>> /\ todo = <<>> /\ retry = <<>>
    /\ last_applied = [k \in Keys |-> 0]
    /\ issued = <<>>

-----------------------------------------------------------------------------
\* A callback mutates memory and takes its sequence in one hold of the memory
\* lock.
Mutate(c, o) ==
    /\ join = "open" /\ pc[c] = "idle" /\ seq < MaxOps
    /\ memory' = [k \in Keys |-> IF touches(o, k) THEN content(o)
                                 ELSE memory[k]]
    /\ seq' = seq + 1
    /\ op' = [op EXCEPT ![c] = o]
    /\ issued' = Append(issued, o)
    /\ pc' = [pc EXCEPT ![c] = "send"]
    /\ UNCHANGED <<queue, overflow, health, work>>

next_seq == seq + 1

put(c) == \E k \in Keys : Mutate(c, Op(k, TRUE, next_seq))

remove(c) == \E k \in Keys : Mutate(c, Op(k, FALSE, next_seq))

clear_all(c) == Mutate(c, Op(AllKeys, FALSE, next_seq))

\* A put above the plaintext cap is refused before it touches memory.
PutTooLarge(c) ==
    /\ MayOverrun
    /\ join = "open" /\ pc[c] = "idle"
    /\ failed' = TRUE
    /\ UNCHANGED <<frontend, queue, overflow, join, work>>

\* try_send: never blocks; the op is moved into the queue or handed back.
Send(c) ==
    /\ pc[c] = "send"
    /\ IF Len(queue) < QUEUE_BOUND
       THEN /\ queue' = Append(queue, op[c])
            /\ op' = [op EXCEPT ![c] = NoOp]
            /\ pc' = [pc EXCEPT ![c] = "idle"]
       ELSE /\ pc' = [pc EXCEPT ![c] = "full"]
            /\ UNCHANGED <<queue, op>>
    /\ UNCHANGED <<memory, seq, issued, overflow, health, work>>

\* expand_per_key: a clear is one Remove a key, at the clear's own sequence.
expand_per_key(o) ==
    IF o.key = AllKeys THEN [k \in Keys |-> Op(k, FALSE, o.seq)] ELSE <<o>>

\* Vec::retain: what is left of a lane, in its order.
retain(lane, keep) ==
    LET left[n \in 0..Len(lane)] ==
            IF n = 0 THEN <<>>
            ELSE IF lane[n] \in keep THEN Append(left[n - 1], lane[n])
            ELSE left[n - 1]
    IN  left[Len(lane)]

\* Newest wins: o takes its key's place in a lane unless the lane already
\* holds an op at least as new.
newest_wins(lane, o) ==
    IF \E i \in DOMAIN lane : lane[i].key = o.key /\ lane[i].seq >= o.seq
    THEN lane
    ELSE Append(retain(lane, {e \in Range(lane) : e.key # o.key}), o)

\* The ops enter the overflow lane one after the other.
parked(lane, ops) ==
    LET after[n \in 0..Len(ops)] ==
            IF n = 0 THEN lane ELSE newest_wins(after[n - 1], ops[n])
    IN  after[Len(ops)]

\* The op the full queue refused is parked in the overflow lane ...
Park(c) ==
    /\ pc[c] = "full"
    /\ overflow' = parked(overflow, expand_per_key(op[c]))
    /\ op' = [op EXCEPT ![c] = NoOp]
    /\ pc' = [pc EXCEPT ![c] = "parked"]
    /\ UNCHANGED <<memory, seq, issued, queue, health, work>>

\* ... and the backpressure is recorded afterwards.
RecordBackpressure(c) ==
    /\ pc[c] = "parked"
    /\ failed' = TRUE
    /\ pc' = [pc EXCEPT ![c] = "idle"]
    /\ UNCHANGED <<memory, seq, op, issued, queue, overflow, join, work>>

\* Drop: exclusive access, so no callback is running; the sender goes first.
DropFacade ==
    /\ join = "open"
    /\ \A c \in Callers : pc[c] = "idle"
    /\ join' = "joining"
    /\ UNCHANGED <<frontend, queue, overflow, failed, work>>

\* The bounded join: the worker has ended, or SHUTDOWN_JOIN_TIMEOUT passes
\* and the failure is recorded.
JoinReturns ==
    /\ join = "joining"
    /\ join' = "returned"
    /\ \/ worker = "ended" /\ UNCHANGED failed
       \/ worker # "ended" /\ failed' = TRUE
    /\ UNCHANGED <<frontend, queue, overflow, work>>

-----------------------------------------------------------------------------
\* One op of a batch, met from the back, as the coalescer folds it in: only
\* the newest clear counts, a clear dominates older per-key ops met after it,
\* and the newest op of a key takes the place of an older one.
coalesce_op_LastArrival(o, acc, newest) ==
    IF \E i \in DOMAIN acc : acc[i].key \in {o.key, AllKeys} THEN acc
    ELSE Append(acc, o)

coalesce_op(o, acc, newest) ==
    LET Same == {i \in DOMAIN acc : acc[i].key = o.key}
        sawClear == \E i \in DOMAIN acc : acc[i].key = AllKeys
        newer == \E i \in Same : acc[i].seq >= o.seq
    IN  IF newer \/ (o.key # AllKeys /\ sawClear /\ o.seq < newest) THEN acc
        ELSE IF o.key = AllKeys
        THEN Append(retain(acc, {e \in Range(acc) : e.key # AllKeys}), o)
        ELSE IF Same = {} THEN Append(acc, o)
        ELSE [i \in DOMAIN acc |-> IF i \in Same THEN o ELSE acc[i]]

\* The newest clear of a batch, 0 without one.
clear_seq(ops) ==
    LET clears == {ops[i].seq : i \in {j \in DOMAIN ops : ops[j].key = AllKeys}}
    IN  IF clears = {} THEN 0 ELSE CHOOSE s \in clears : \A r \in clears : r <= s

\* What coalescing keeps of a batch, met from its back.
kept(ops) ==
    LET met[n \in 0..Len(ops)] ==
            IF n = 0 THEN <<>>
            ELSE coalesce_op(ops[Len(ops) + 1 - n], met[n - 1], clear_seq(ops))
    IN  met[Len(ops)]

\* The kept ops in the order of the batch again, each expanded.
expanded(ops) ==
    LET flat[n \in 0..Len(ops)] ==
            IF n = 0 THEN <<>>
            ELSE flat[n - 1] \o expand_per_key(ops[Len(ops) + 1 - n])
    IN  flat[Len(ops)]

\* coalesce and expand, the head of apply_pass.
coalesced(ops) == expanded(kept(ops))

\* Enter apply_pass over ops, to come back to label.
apply_pass(ops, label) ==
    /\ todo' = coalesced(ops)
    /\ worker' = "apply" /\ back' = label

\* Top of the loop: the retries whose backoff has elapsed (later retentions
\* have later deadlines, so they are a prefix), then the overflow lane.
TakeReady ==
    /\ worker = "top"
    /\ \E n \in 0..Len(retry) :
        LET ops == SubSeq(retry, 1, n) \o overflow
        IN  /\ apply_pass(ops, "recv")
            /\ retry' = SubSeq(retry, n + 1, Len(retry))
    /\ overflow' = <<>>
    /\ UNCHANGED <<frontend, queue, health, batch, last_applied, disk>>

\* The bounded receive: an op, a timeout, or every sender gone.
Receive ==
    /\ worker = "recv"
    /\ \/ /\ queue # <<>>
          /\ batch' = <<Head(queue)>> /\ queue' = Tail(queue)
          /\ worker' = "fill"
       \/ /\ queue = <<>> /\ join = "open"
          /\ worker' = "fill"
          /\ UNCHANGED <<batch, queue>>
       \/ /\ queue = <<>> /\ join # "open"
          /\ worker' = "final"
          /\ UNCHANGED <<batch, queue>>
    /\ UNCHANGED <<frontend, overflow, health, back, todo, retry, last_applied,
                   disk>>

\* try_recv until the batch is full or the queue is empty, then apply.
Fill ==
    /\ worker = "fill"
    /\ IF queue # <<>> /\ Len(batch) < QUEUE_BOUND
       THEN /\ batch' = Append(batch, Head(queue)) /\ queue' = Tail(queue)
            /\ UNCHANGED <<worker, back, todo>>
       ELSE /\ apply_pass(batch, "top")
            /\ batch' = <<>>
            /\ UNCHANGED queue
    /\ UNCHANGED <<frontend, overflow, health, retry, last_applied, disk>>

-----------------------------------------------------------------------------
\* The sequence guard: a state at least as new is already durable.
stale_Never(o) == FALSE

stale(o) == last_applied[o.key] >= o.seq

Skip ==
    /\ worker = "apply" /\ todo # <<>> /\ stale(Head(todo))
    /\ todo' = Tail(todo)
    /\ UNCHANGED <<frontend, queue, overflow, health, worker, back, batch,
                   retry, last_applied, disk>>

\* note_success: a durable op clears its key's retries up to its own sequence.
note_success_AnySeq(lane, o) == retain(lane, {e \in Range(lane) : e.key # o.key})

note_success(lane, o) ==
    retain(lane, {e \in Range(lane) : e.key # o.key \/ e.seq > o.seq})

\* try_put or try_remove succeeds: the watermark follows the disk.
ApplySucceeds ==
    /\ worker = "apply" /\ todo # <<>> /\ ~stale(Head(todo))
    /\ LET o == Head(todo)
       IN  /\ disk' = [disk EXCEPT ![o.key] = content(o)]
           /\ last_applied' = [last_applied EXCEPT ![o.key] = o.seq]
           /\ retry' = note_success(retry, o)
    /\ todo' = Tail(todo)
    /\ worker' = "applied"
    /\ UNCHANGED <<frontend, queue, overflow, health, back, batch>>

\* It fails: the failure is recorded, the desired state kept for a retry.
ApplyFails ==
    /\ worker = "apply" /\ todo # <<>> /\ ~stale(Head(todo))
    /\ failed' = TRUE
    /\ retry' = newest_wins(retry, Head(todo))
    /\ todo' = Tail(todo)
    /\ UNCHANGED <<frontend, queue, overflow, join, worker, back, batch,
                   last_applied, disk>>

\* After a success the overflow lane is looked at (and its lock let go) ...
CheckOverflow ==
    /\ worker = "applied"
    /\ worker' = IF retry = <<>> /\ overflow = <<>> THEN "recover" ELSE "apply"
    /\ UNCHANGED <<frontend, queue, overflow, health, back, batch, todo, retry,
                   last_applied, disk>>

\* ... and two empty lanes clear the failure.
note_recovered ==
    /\ worker = "recover"
    /\ failed' = FALSE
    /\ worker' = "apply"
    /\ UNCHANGED <<frontend, queue, overflow, join, back, batch, todo, retry,
                   last_applied, disk>>

PassEnds ==
    /\ worker = "apply" /\ todo = <<>>
    /\ worker' = back
    /\ UNCHANGED <<frontend, queue, overflow, health, back, batch, todo, retry,
                   last_applied, disk>>

\* The shutdown drain attempts everything once, deadline or not.
final_pass == overflow \o retry

FinalPass ==
    /\ worker = "final"
    /\ apply_pass(final_pass, "end")
    /\ overflow' = <<>> /\ retry' = <<>>
    /\ UNCHANGED <<frontend, queue, health, batch, last_applied, disk>>

\* What could not drain is recorded; the worker is no longer alive.
WorkerEnds ==
    /\ worker = "end"
    /\ failed' = (failed \/ retry # <<>>)
    /\ worker' = "ended"
    /\ UNCHANGED <<frontend, queue, overflow, join, back, batch, todo, retry,
                   last_applied, disk>>

-----------------------------------------------------------------------------
CallerStep(c) == Send(c) \/ Park(c) \/ RecordBackpressure(c)

WorkerStep ==
    \/ TakeReady \/ Receive \/ Fill
    \/ Skip \/ ApplySucceeds \/ ApplyFails
    \/ CheckOverflow \/ note_recovered \/ PassEnds
    \/ FinalPass \/ WorkerEnds

Next ==
    \/ \E c \in Callers :
          put(c) \/ remove(c) \/ clear_all(c) \/ PutTooLarge(c) \/ CallerStep(c)
    \/ DropFacade \/ JoinReturns
    \/ WorkerStep

Spec == Init /\ [][Next]_vars

\* A retry's backoff elapses.
RetryTaken == TakeReady /\ Len(retry') < Len(retry)

\* The threads are scheduled, a backoff elapses (it is capped), and the cache
\* directory does not fail for ever.
Fairness ==
    /\ \A c \in Callers : WF_vars(CallerStep(c))
    /\ WF_vars(WorkerStep) /\ SF_vars(RetryTaken) /\ SF_vars(ApplySucceeds)

FairSpec == Spec /\ Fairness

-----------------------------------------------------------------------------
Ops == [key : Keys \cup {AllKeys}, put : BOOLEAN, seq : 0..MaxOps]
Contents == {Nothing, Earlier} \cup 1..MaxOps

OneOpAKey(lane) ==
    \A i, j \in DOMAIN lane : lane[i].key = lane[j].key => i = j

\* Every variable has the shape the code's types give it; the queue respects
\* its bound and the two lanes hold one per-key op a key.
TypeOK ==
    /\ memory \in [Keys -> Contents] /\ disk \in [Keys -> Contents]
    /\ seq \in 0..MaxOps /\ issued \in Seq(Ops) /\ Len(issued) = seq
    /\ queue \in Seq(Ops) /\ Len(queue) <= QUEUE_BOUND
    /\ failed \in BOOLEAN /\ join \in {"open", "joining", "returned"}
    /\ pc \in [Callers -> {"idle", "send", "full", "parked"}]
    /\ op \in [Callers -> Ops]
    /\ worker \in {"top", "recv", "fill", "apply", "applied", "recover",
                   "final", "end", "ended"}
    /\ back \in {"top", "recv", "end"}
    /\ batch \in Seq(Ops) /\ Len(batch) <= QUEUE_BOUND
    /\ todo \in Seq(Ops) /\ last_applied \in [Keys -> 0..MaxOps]
    /\ \A lane \in {overflow, retry} :
          /\ lane \in Seq(Ops) /\ OneOpAKey(lane)
          /\ \A i \in DOMAIN lane : lane[i].key \in Keys

\* The ops callers still have to hand over.
Sending == {op[c] : c \in {d \in Callers : pc[d] \in {"send", "full"}}}

\* Every op somebody still has in hand.
InHand ==
    Sending \cup Range(queue) \cup Range(overflow) \cup Range(batch)
    \cup Range(todo) \cup Range(retry)

\* Rounds 8 to 12: the newest op of every key is durable or still in hand.
\* Coalescing, the overflow lane's and the retry lane's evictions, reordered
\* arrivals and failed writes only ever discard superseded ops.
NewestNeverLost ==
    \A k \in Keys :
        LET mine == {n \in 1..seq : touches(issued[n], k)}
        IN  \A n \in mine : (\A m \in mine : m <= n) =>
              last_applied[k] = n
              \/ \E o \in InHand : touches(o, k) /\ o.seq = n

\* Round 4 and 7: when Drop returns, the disk holds what memory held, or the
\* loss has been reported ("REPORTED, never silent").
ShutdownReported ==
    join' = "returned" /\ join = "joining" => failed' \/ disk = memory

\* No write is lost in silence: the newest of every key is durable, in hand,
\* or reported when the facade is dropped.
NothingIsLost == [][TypeOK' /\ NewestNeverLost' /\ ShutdownReported]_vars

\* What the cache promises: the disk only ever moves forward through states
\* memory has had, key by key.
Durable == INSTANCE DurableMap WITH applied <- last_applied

ImplementsDurableMap == Durable!Spec

\* ER-18: while the facade is open a transient write failure never leaves the
\* disk behind memory for good.
DiskCatchesUp == <>[](join = "open" => disk = memory)

\* For model checking: callers are interchangeable.
CallerSymmetry == Permutations(Callers)
=============================================================================

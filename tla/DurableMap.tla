----------------------------- MODULE DurableMap -----------------------------
(***************************************************************************)
(* What the credential cache promises its callers: every op takes effect in *)
(* memory at once, and each key of the disk moves forward, one write at a   *)
(* time, through states memory has had.                                     *)
(***************************************************************************)
EXTENDS Integers, Sequences, CacheOps

VARIABLES
    memory,    \* what readers are served
    issued,    \* every op so far, in order
    disk,      \* what a restart would find
    applied    \* per key: which op the disk shows (0: none yet)

vars == <<memory, issued, disk, applied>>

Init ==
    /\ disk \in [Keys -> {Nothing, Earlier}]
    /\ memory = disk
    /\ issued = <<>>
    /\ applied = [k \in Keys |-> 0]

Issue ==
    \E k \in Keys \cup {AllKeys}, isPut \in BOOLEAN :
        LET o == Op(k, isPut, Len(issued) + 1)
        IN  /\ isPut => k # AllKeys
            /\ issued' = Append(issued, o)
            /\ memory' = [j \in Keys |-> IF touches(o, j) THEN content(o)
                                         ELSE memory[j]]
            /\ UNCHANGED <<disk, applied>>

Persist(k) ==
    \E n \in applied[k] + 1..Len(issued) :
        /\ touches(issued[n], k)
        /\ disk' = [disk EXCEPT ![k] = content(issued[n])]
        /\ applied' = [applied EXCEPT ![k] = n]
        /\ UNCHANGED <<memory, issued>>

Next == Issue \/ \E k \in Keys : Persist(k)

Spec == Init /\ [][Next]_vars

=============================================================================

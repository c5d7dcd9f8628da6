------------------------------ MODULE CacheOps ------------------------------
(* The facade's operations on its keys, and the contents they leave. *)
EXTENDS Integers

CONSTANT NKeys   \* how many keys ALL_KEYS lists

ASSUME KeysAssumption == NKeys \in Nat \ {0}

Keys == 1..NKeys

\* A ClearAll is an op on no single key.
AllKeys == 0

\* Content of a key: nothing, what an earlier run left, or put number n.
Nothing == 0
Earlier == -1

\* Op::Put, Op::Remove and Op::ClearAll, stamped with their sequence.
Op(k, isPut, n) == [key |-> k, put |-> isPut, seq |-> n]

touches(o, k) == o.key \in {k, AllKeys}

content(o) == IF o.put THEN o.seq ELSE Nothing

=============================================================================

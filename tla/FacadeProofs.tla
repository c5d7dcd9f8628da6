---------------------------- MODULE FacadeProofs ----------------------------
(***************************************************************************)
(* The credential cache loses no write in silence and implements            *)
(* DurableMap, for any callers, keys, queue bound and number of operations. *)
(***************************************************************************)
EXTENDS PersistenceFacade, WellFoundedInduction, TLAPS

-----------------------------------------------------------------------------
(* Induction and recursion up to a number, which the loops over lanes and   *)
(* batches are.                                                             *)

\* A set of numbers that is not empty has a least one.
LEMMA LeastElement ==
    ASSUME NEW T \in SUBSET Nat, T # {}
    PROVE \E m \in T : \A k \in T : m <= k
  <1>1. PICK R : R = OpToRel(<, Nat)  BY Zenon
  <1>2. IsWellFoundedOn(R, Nat)  BY Zenon, <1>1, NatLessThanWellFounded
  <1>3. PICK m \in T : \A k \in T : ~(<<k, m>> \in R)  BY Zenon, <1>2, WFMin
  <1>4. \A k \in T : k < m => <<k, m>> \in R  BY <1>1 DEF OpToRel
  <1>5. \A k \in T : m <= k
    <2>1. SUFFICES ASSUME NEW k \in T PROVE m <= k  OBVIOUS
    <2>2. m \in Nat /\ k \in Nat  OBVIOUS
    <2>3. ~(k < m)  BY Zenon, <1>3, <1>4
    <2>4. QED  BY <2>2, <2>3
  <1>6. QED  BY <1>5

\* What holds of 0 and passes to the next number holds up to N.
LEMMA UpTo ==
    ASSUME NEW N \in Nat, NEW S, 0 \in S, \A n \in 1..N : n - 1 \in S => n \in S
    PROVE 0..N \subseteq S
  <1>1. SUFFICES ASSUME NEW T, T = {n \in 0..N : n \notin S}, T # {} PROVE FALSE  BY Zenon
  <1>a. T \in SUBSET Nat  BY <1>1
  <1>2. PICK m \in T : \A k \in T : m <= k  BY <1>1, <1>a, LeastElement, Zenon
  <1>3. m \in 1..N /\ m - 1 \in 0..N  BY <1>1
  <1>4. m - 1 \in S  BY <1>1, <1>2, <1>3
  <1>5. QED  BY <1>1, <1>3, <1>4

\* f starts at base and takes N steps.
Runs(f, N, base, step) == f[0] = base /\ \A n \in 1..N : f[n] = step[n][f[n - 1]]

\* A loop of N steps has a run.
LEMMA Iterate ==
    ASSUME NEW V, NEW N \in Nat, NEW base \in V, NEW step \in [1..N -> [V -> V]]
    PROVE  \E f \in [0..N -> V] : Runs(f, N, base, step)
  <1> DEFINE Run(f, m) == f[0] = base /\ \A n \in 1..m : f[n] = step[n][f[n - 1]]
  <1>0. PICK S : S = {m \in 0..N : \E f \in [0..m -> V] : Run(f, m)}  BY Zenon
  <1>1. 0 \in S
    <2>1. PICK f : f = [n \in 0..0 |-> base]  BY Zenon
    <2>2. f \in [0..0 -> V] /\ Run(f, 0)  BY <2>1
    <2>3. QED  BY <1>0, <2>2
  <1>2. ASSUME NEW m \in 1..N, m - 1 \in S PROVE m \in S
    <2>1. PICK f \in [0..(m - 1) -> V] : Run(f, m - 1)  BY <1>0, <1>2
    <2>2. PICK v : v = step[m][f[m - 1]]  OBVIOUS
    <2>3. f[m - 1] \in V /\ step[m] \in [V -> V]  BY <2>1
    <2>4. v \in V  BY <2>2, <2>3
    <2>5. PICK g : g = [n \in 0..m |-> IF n = m THEN v ELSE f[n]]  BY Zenon
    <2>6. \A n \in 0..m : n # m => n \in 0..(m - 1)  OBVIOUS
    <2>7. g \in [0..m -> V]  BY <2>1, <2>4, <2>5, <2>6
    <2>8. ASSUME NEW n \in 1..m PROVE g[n] = step[n][g[n - 1]]
      <3>1. g[n - 1] = f[n - 1]
        <4>1. n - 1 \in 0..m /\ n - 1 # m  OBVIOUS
        <4>2. QED  BY <2>5, <4>1
      <3>2. CASE n = m
        <4>1. g[m] = v  BY <2>5
        <4>2. QED  BY <2>2, <3>1, <3>2, <4>1
      <3>3. CASE n # m
        <4>1. n \in 1..(m - 1) /\ g[n] = f[n]  BY <2>5, <3>3
        <4>2. QED  BY <2>1, <3>1, <4>1
      <3>4. QED  BY <3>2, <3>3
    <2>9. g[0] = base  BY <2>1, <2>5
    <2>10. Run(g, m)  BY <2>8, <2>9
    <2>11. QED  BY <1>0, <2>7, <2>10
  <1>b. 0..N \subseteq S  BY <1>1, <1>2, UpTo, Zenon
  <1>3. N \in S  BY <1>b
  <1>4. PICK f \in [0..N -> V] : Run(f, N)  BY <1>0, <1>3
  <1>5. QED  BY <1>4 DEF Runs


-----------------------------------------------------------------------------
(* The loops over lanes and batches.                                        *)

\* Vec::retain computes what its loop over the lane computes.
LEMMA RetainRuns ==
    ASSUME NEW lane \in Seq(Ops), NEW K
    PROVE  \E f \in [0..Len(lane) -> Seq(Ops)] :
              /\ f[0] = <<>>
              /\ \A n \in 1..Len(lane) :
                    f[n] = IF lane[n] \in K THEN Append(f[n - 1], lane[n]) ELSE f[n - 1]
              /\ retain(lane, K) = f[Len(lane)]
  <1> DEFINE Step(n, s) == IF lane[n] \in K THEN Append(s, lane[n]) ELSE s
  <1>1. PICK N, V, base : N = Len(lane) /\ V = Seq(Ops) /\ base = <<>>  OBVIOUS
  <1>2. N \in Nat /\ base \in V /\ \A n \in 1..N, s \in V : Step(n, s) \in V  BY <1>1
  <1>3. \A f : f = [n \in 0..N |-> IF n = 0 THEN base ELSE Step(n, f[n - 1])] =>
          \E g : /\ g = [n \in 0..N |-> IF n = 0 THEN base ELSE Step(n, g[n - 1])]
                 /\ retain(lane, K) = g[N]
    BY <1>1, Zenon DEF retain
  <1> HIDE DEF Step
  <1>4. PICK step : step = [n \in 1..N |-> [s \in V |-> Step(n, s)]]  BY Zenon
  <1>5. step \in [1..N -> [V -> V]]  BY <1>2, <1>4
  <1>a. N \in Nat /\ base \in V  BY <1>2
  <1>6. PICK f \in [0..N -> V] : Runs(f, N, base, step)  BY Zenon, <1>a, <1>5, Iterate
  <1>7. ASSUME NEW n \in 1..N PROVE f[n] = Step(n, f[n - 1])
    <2>1. f[n - 1] \in V  BY <1>2, <1>6
    <2>2. step[n][f[n - 1]] = Step(n, f[n - 1])  BY <1>4, <2>1
    <2>3. QED  BY <1>6, <2>2 DEF Runs
  <1>c. \A n \in 0..N : n = 0 \/ n \in 1..N  BY <1>2
  <1>d. \A n \in 0..N : f[n] = IF n = 0 THEN base ELSE Step(n, f[n - 1])  BY <1>c, <1>6, <1>7 DEF Runs
  <1>8. f = [n \in 0..N |-> IF n = 0 THEN base ELSE Step(n, f[n - 1])]  BY <1>6, <1>d
  <1>9. PICK g : /\ g = [n \in 0..N |-> IF n = 0 THEN base ELSE Step(n, g[n - 1])]
                 /\ retain(lane, K) = g[N]
    BY Zenon, <1>3, <1>8
  <1>b. \A n \in 0..N : g[n] = IF n = 0 THEN base ELSE Step(n, g[n - 1])  BY Zenon, <1>9
  <1>10. g[0] = base /\ \A n \in 1..N : g[n] = Step(n, g[n - 1])  BY <1>2, <1>b
  <1>11. PICK T : T = {n \in 0..N : g[n] \in V}  BY Zenon
  <1>12. 0 \in T  BY <1>2, <1>10, <1>11
  <1>13. \A n \in 1..N : n - 1 \in T => n \in T  BY <1>2, <1>10, <1>11
  <1>14. 0..N \subseteq T  BY <1>2, <1>12, <1>13, UpTo, Zenon
  <1>15. g \in [0..N -> V]  BY <1>9, <1>11, <1>14
  <1>16. QED  BY <1>1, <1>9, <1>10, <1>15, Zenon DEF Step

\* s is what is left of the first n entries of a lane.
Leaves(s, lane, K, n) ==
    /\ \A i \in 1..n : lane[i] \in K => \E j \in 1..Len(s) : s[j] = lane[i]
    /\ \A j \in 1..Len(s) : s[j] \in K
    /\ \A j \in 1..Len(s) : \E i \in 1..n : s[j] = lane[i]
    /\ OneOpAKey(lane) => OneOpAKey(s)

\* What Vec::retain leaves of a lane: the kept entries, all of them and in
\* one copy each if the lane has one op a key.
LEMMA Retains ==
    ASSUME NEW lane \in Seq(Ops), NEW K, NEW r, r = retain(lane, K)
    PROVE  r \in Seq(Ops) /\ Leaves(r, lane, K, Len(lane))
  <1>1. PICK N \in Nat : N = Len(lane)  OBVIOUS
  <1>a. PICK f \in [0..Len(lane) -> Seq(Ops)] :
              /\ f[0] = <<>>
              /\ \A n \in 1..Len(lane) :
                    f[n] = IF lane[n] \in K THEN Append(f[n - 1], lane[n]) ELSE f[n - 1]
              /\ retain(lane, K) = f[Len(lane)]
    BY Zenon, RetainRuns
  <1>2. /\ f \in [0..N -> Seq(Ops)]
        /\ f[0] = <<>>
        /\ \A n \in 1..N : f[n] = IF lane[n] \in K THEN Append(f[n - 1], lane[n]) ELSE f[n - 1]
        /\ retain(lane, K) = f[N]
    BY Zenon, <1>1, <1>a
  <1>3. PICK T : T = {n \in 0..N : Leaves(f[n], lane, K, n)}  BY Zenon
  <1>4. 0 \in T  BY <1>2, <1>3 DEF Leaves, OneOpAKey
  <1>5. ASSUME NEW n \in 1..N, n - 1 \in T PROVE n \in T
    <2>1. PICK s \in Seq(Ops) : s = f[n - 1] /\ Leaves(s, lane, K, n - 1)  BY <1>2, <1>3, <1>5
    <2>a. \A i \in 1..(n - 1) : lane[i] \in K => \E j \in 1..Len(s) : s[j] = lane[i]
      BY <2>1, Zenon DEF Leaves
    <2>b. \A j \in 1..Len(s) : s[j] \in K  BY <2>1, Zenon DEF Leaves
    <2>c. \A j \in 1..Len(s) : \E i \in 1..(n - 1) : s[j] = lane[i]
      BY <2>1, Zenon DEF Leaves
    <2>d. OneOpAKey(lane) => OneOpAKey(s)  BY <2>1, Zenon DEF Leaves
    <2>e. \A i \in 1..n : i = n \/ i \in 1..(n - 1)  OBVIOUS
    <2>f. 1..(n - 1) \subseteq 1..n  OBVIOUS
    <2>2. CASE lane[n] \notin K
      <3>1. f[n] = s  BY <1>2, <2>1, <2>2
      <3>2. Leaves(s, lane, K, n)  BY Zenon, <2>a, <2>b, <2>c, <2>d, <2>e, <2>f, <2>2 DEF Leaves
      <3>3. QED  BY <1>3, <3>1, <3>2
    <2>3. CASE lane[n] \in K
      <3>1. PICK t : t = Append(s, lane[n])  BY Zenon
      <3>2. lane[n] \in Ops  BY <1>1
      <3>3. /\ t \in Seq(Ops) /\ Len(t) = Len(s) + 1 /\ t[Len(s) + 1] = lane[n]
            /\ Len(s) \in Nat
            /\ \A j \in 1..Len(s) : t[j] = s[j]
        BY <3>1, <3>2
      <3>4. f[n] = t  BY Zenon, <1>2, <2>1, <2>3, <3>1
      <3>5. \A i \in 1..n : lane[i] \in K => \E j \in 1..Len(t) : t[j] = lane[i]
        <4>1. SUFFICES ASSUME NEW i \in 1..n, lane[i] \in K
                       PROVE \E j \in 1..Len(t) : t[j] = lane[i]  BY Zenon
        <4>2. CASE i = n
          <5>1. Len(s) + 1 \in 1..Len(t)  BY <3>3
          <5>2. QED  BY Zenon, <3>3, <4>2, <5>1
        <4>3. CASE i # n
          <5>1. PICK j \in 1..Len(s) : s[j] = lane[i]  BY Zenon, <2>a, <2>e, <4>1, <4>3
          <5>2. QED  BY <3>3, <5>1
        <4>4. QED  BY <4>2, <4>3
      <3>6. \A j \in 1..Len(t) : t[j] \in K /\ \E i \in 1..n : t[j] = lane[i]
        <4>1. SUFFICES ASSUME NEW j \in 1..Len(t)
                       PROVE t[j] \in K /\ \E i \in 1..n : t[j] = lane[i]  OBVIOUS
        <4>2. CASE j = Len(s) + 1
          <5>1. t[j] = lane[n] /\ n \in 1..n  BY <3>3, <4>2
          <5>2. QED  BY <2>3, <5>1
        <4>3. CASE j # Len(s) + 1
          <5>1. j \in 1..Len(s) /\ t[j] = s[j]  BY <3>3, <4>3
          <5>2. PICK i \in 1..(n - 1) : s[j] = lane[i]  BY Zenon, <2>c, <5>1
          <5>3. s[j] \in K /\ i \in 1..n  BY <2>b, <5>1
          <5>4. QED  BY Zenon, <5>1, <5>2, <5>3
        <4>4. QED  BY <4>2, <4>3
      <3>7. ASSUME OneOpAKey(lane) PROVE OneOpAKey(t)
        <4>1. \A j \in 1..Len(s) : s[j].key # lane[n].key
          <5>1. SUFFICES ASSUME NEW j \in 1..Len(s), s[j].key = lane[n].key PROVE FALSE  OBVIOUS
          <5>2. PICK i \in 1..(n - 1) : s[j] = lane[i]  BY Zenon, <2>c
          <5>3. i \in DOMAIN lane /\ n \in DOMAIN lane  BY <1>1
          <5>4. i = n  BY <3>7, <5>1, <5>2, <5>3 DEF OneOpAKey
          <5>5. QED  BY <5>4
        <4>2. OneOpAKey(s)  BY <2>d, <3>7
        <4>3. DOMAIN t = 1..(Len(s) + 1) /\ DOMAIN s = 1..Len(s)  BY <3>3
        <4>4. SUFFICES ASSUME NEW i \in DOMAIN t, NEW j \in DOMAIN t, t[i].key = t[j].key
                       PROVE i = j  BY Zenon DEF OneOpAKey
        <4>5. CASE i \in DOMAIN s /\ j \in DOMAIN s
          <5>1. t[i] = s[i] /\ t[j] = s[j]  BY <3>3, <4>3, <4>5
          <5>2. QED  BY <4>2, <4>4, <4>5, <5>1 DEF OneOpAKey
        <4>6. CASE i \in DOMAIN s /\ j = Len(s) + 1
          <5>1. t[i] = s[i] /\ t[j] = lane[n]  BY <3>3, <4>3, <4>6
          <5>2. QED  BY <4>1, <4>3, <4>4, <4>6, <5>1
        <4>7. CASE i = Len(s) + 1 /\ j \in DOMAIN s
          <5>1. t[i] = lane[n] /\ t[j] = s[j]  BY <3>3, <4>3, <4>7
          <5>2. QED  BY <4>1, <4>3, <4>4, <4>7, <5>1
        <4>8. QED  BY <3>3, <4>3, <4>5, <4>6, <4>7
      <3>8. Leaves(t, lane, K, n)  BY Zenon, <3>5, <3>6, <3>7 DEF Leaves
      <3>9. QED  BY <1>3, <3>4, <3>8
    <2>4. QED  BY <2>2, <2>3
  <1>6. 0..N \subseteq T  BY <1>4, <1>5, UpTo, Zenon
  <1>7. Leaves(f[N], lane, K, N) /\ f[N] \in Seq(Ops)  BY <1>2, <1>3, <1>6
  <1>8. QED  BY <1>1, <1>2, <1>7

-----------------------------------------------------------------------------
(* Which ops a sequence holds.                                              *)

\* What a sequence holds is of its kind.
LEMMA RangeIn ==
    ASSUME NEW s \in Seq(Ops)
    PROVE  Range(s) \subseteq Ops /\ \A i \in 1..Len(s) : s[i] \in Range(s)
  BY DEF Range

\* The empty sequence holds nothing.
LEMMA RangeEmpty ==
    Range(<<>>) = {} /\ OneOpAKey(<<>>) /\ <<>> \in Seq(Ops)
  BY DEF Range, OneOpAKey

\* A sequence that holds nothing is empty.
LEMMA RangeNone ==
    ASSUME NEW s \in Seq(Ops), Range(s) = {} PROVE s = <<>>
  <1>1. Len(s) = 0
    <2>1. SUFFICES ASSUME Len(s) # 0 PROVE FALSE  OBVIOUS
    <2>2. 1 \in 1..Len(s)  BY <2>1
    <2>3. QED  BY <2>2, RangeIn
  <1>2. QED  BY <1>1

\* push adds one op to what a lane holds.
LEMMA RangeAppend ==
    ASSUME NEW s \in Seq(Ops), NEW x \in Ops, NEW t, t = Append(s, x)
    PROVE  t \in Seq(Ops) /\ Len(t) = Len(s) + 1 /\ Range(t) = Range(s) \cup {x}
  <1>1. /\ t \in Seq(Ops) /\ Len(t) = Len(s) + 1 /\ Len(s) \in Nat /\ t[Len(s) + 1] = x
        /\ \A i \in 1..Len(s) : t[i] = s[i]
    OBVIOUS
  <1>2. DOMAIN t = 1..(Len(s) + 1) /\ DOMAIN s = 1..Len(s)  BY <1>1
  <1>3. ASSUME NEW e \in Range(t) PROVE e \in Range(s) \cup {x}
    <2>1. PICK i \in 1..(Len(s) + 1) : e = t[i]  BY <1>2, <1>3 DEF Range
    <2>2. CASE i = Len(s) + 1  BY <1>1, <2>1, <2>2
    <2>3. CASE i \in 1..Len(s)  BY <1>1, <1>2, <2>1, <2>3 DEF Range
    <2>4. QED  BY <1>1, <2>2, <2>3
  <1>4. ASSUME NEW e \in Range(s) PROVE e \in Range(t)
    <2>1. PICK i \in 1..Len(s) : e = s[i]  BY <1>2, <1>4 DEF Range
    <2>2. i \in DOMAIN t /\ t[i] = e  BY <1>1, <1>2, <2>1
    <2>3. QED  BY <2>2 DEF Range
  <1>5. x \in Range(t)
    <2>1. Len(s) + 1 \in DOMAIN t  BY <1>1, <1>2
    <2>2. QED  BY <1>1, <2>1 DEF Range
  <1>6. QED  BY <1>1, <1>3, <1>4, <1>5

\* extend adds the ops of another lane.
LEMMA RangeConcat ==
    ASSUME NEW s \in Seq(Ops), NEW t \in Seq(Ops), NEW u, u = s \o t
    PROVE  u \in Seq(Ops) /\ Range(u) = Range(s) \cup Range(t)
  <1>1. /\ u \in Seq(Ops) /\ Len(u) = Len(s) + Len(t) /\ Len(s) \in Nat /\ Len(t) \in Nat
        /\ \A i \in 1..(Len(s) + Len(t)) :
              u[i] = IF i <= Len(s) THEN s[i] ELSE t[i - Len(s)]
    OBVIOUS
  <1>2. DOMAIN u = 1..(Len(s) + Len(t)) /\ DOMAIN s = 1..Len(s) /\ DOMAIN t = 1..Len(t)  BY <1>1
  <1>3. ASSUME NEW e \in Range(u) PROVE e \in Range(s) \cup Range(t)
    <2>1. PICK i \in 1..(Len(s) + Len(t)) : e = u[i]  BY <1>2, <1>3 DEF Range
    <2>2. CASE i <= Len(s)
      <3>1. i \in DOMAIN s /\ e = s[i]  BY <1>1, <1>2, <2>1, <2>2
      <3>2. QED  BY <3>1 DEF Range
    <2>3. CASE ~(i <= Len(s))
      <3>1. i - Len(s) \in DOMAIN t /\ e = t[i - Len(s)]  BY <1>1, <1>2, <2>1, <2>3
      <3>2. QED  BY <3>1 DEF Range
    <2>4. QED  BY <2>2, <2>3
  <1>4. ASSUME NEW e \in Range(s) PROVE e \in Range(u)
    <2>1. PICK i \in 1..Len(s) : e = s[i]  BY <1>2, <1>4 DEF Range
    <2>2. i \in DOMAIN u /\ u[i] = e  BY <1>1, <1>2, <2>1
    <2>3. QED  BY <2>2 DEF Range
  <1>5. ASSUME NEW e \in Range(t) PROVE e \in Range(u)
    <2>1. PICK i \in 1..Len(t) : e = t[i]  BY <1>2, <1>5 DEF Range
    <2>2. i + Len(s) \in DOMAIN u /\ u[i + Len(s)] = e  BY <1>1, <1>2, <2>1
    <2>3. QED  BY <2>2 DEF Range
  <1>6. QED  BY <1>1, <1>3, <1>4, <1>5

\* The ops of a lane are its first and the rest.
LEMMA RangeHead ==
    ASSUME NEW s \in Seq(Ops), s # <<>>
    PROVE  /\ Head(s) \in Ops /\ Tail(s) \in Seq(Ops) /\ Len(Tail(s)) = Len(s) - 1
           /\ Range(s) = {Head(s)} \cup Range(Tail(s))
  <1>1. PICK t : t = Tail(s)  BY Zenon
  <1>2. /\ Len(s) \in Nat /\ Len(s) > 0 /\ Head(s) = s[1] /\ t \in Seq(Ops) /\ Len(t) = Len(s) - 1
        /\ \A i \in 1..(Len(s) - 1) : t[i] = s[i + 1]
    BY <1>1
  <1>3. DOMAIN s = 1..Len(s) /\ DOMAIN t = 1..(Len(s) - 1)  BY <1>2
  <1>4. ASSUME NEW e \in Range(s) PROVE e = s[1] \/ e \in Range(t)
    <2>1. PICK i \in 1..Len(s) : e = s[i]  BY <1>3, <1>4 DEF Range
    <2>2. CASE i = 1  BY <2>1, <2>2
    <2>3. CASE i # 1
      <3>1. i - 1 \in DOMAIN t /\ t[i - 1] = e  BY <1>2, <1>3, <2>1, <2>3
      <3>2. QED  BY <3>1 DEF Range
    <2>4. QED  BY <2>2, <2>3
  <1>5. ASSUME NEW e \in Range(t) PROVE e \in Range(s)
    <2>1. PICK i \in 1..(Len(s) - 1) : e = t[i]  BY <1>3, <1>5 DEF Range
    <2>2. i + 1 \in DOMAIN s /\ s[i + 1] = e  BY <1>2, <1>3, <2>1
    <2>3. QED  BY <2>2 DEF Range
  <1>6. s[1] \in Range(s) /\ s[1] \in Ops
    <2>1. 1 \in DOMAIN s  BY <1>2, <1>3
    <2>2. QED  BY <1>3, <2>1 DEF Range
  <1>7. QED  BY <1>1, <1>2, <1>4, <1>5, <1>6

Front(s, n) == SubSeq(s, 1, n)
Rest(s, n) == SubSeq(s, n + 1, Len(s))

\* Cutting a lane in two loses no op.
LEMMA RangeSplit ==
    ASSUME NEW s \in Seq(Ops), NEW n \in 0..Len(s), NEW a, NEW b, a = Front(s, n), b = Rest(s, n)
    PROVE  /\ a \in Seq(Ops) /\ b \in Seq(Ops) /\ Range(s) = Range(a) \cup Range(b)
           /\ OneOpAKey(s) => OneOpAKey(b)
  <1>1. /\ Len(s) \in Nat /\ n \in Nat /\ a \in Seq(Ops) /\ Len(a) = n
        /\ \A i \in 1..n : a[i] = s[i]
    BY DEF Front
  <1>2. /\ b \in Seq(Ops) /\ Len(b) = Len(s) - n
        /\ \A i \in 1..(Len(s) - n) : b[i] = s[i + n]
    BY DEF Rest
  <1>3. DOMAIN s = 1..Len(s) /\ DOMAIN a = 1..n /\ DOMAIN b = 1..(Len(s) - n)  BY <1>1, <1>2
  <1>4. ASSUME NEW e \in Range(s) PROVE e \in Range(a) \/ e \in Range(b)
    <2>1. PICK i \in 1..Len(s) : e = s[i]  BY <1>3, <1>4 DEF Range
    <2>2. CASE i <= n
      <3>1. i \in DOMAIN a /\ a[i] = e  BY <1>1, <1>3, <2>1, <2>2
      <3>2. QED  BY <3>1 DEF Range
    <2>3. CASE ~(i <= n)
      <3>1. PICK j : j = i - n  OBVIOUS
      <3>2. j \in 1..(Len(s) - n) /\ j + n = i  BY <1>1, <2>3, <3>1
      <3>3. b[j] = s[j + n]  BY <1>2, <3>2
      <3>4. QED  BY <1>3, <2>1, <3>2, <3>3 DEF Range
    <2>4. QED  BY <2>2, <2>3
  <1>5. ASSUME NEW e \in Range(a) PROVE e \in Range(s)
    <2>1. PICK i \in 1..n : e = a[i]  BY <1>3, <1>5 DEF Range
    <2>2. i \in DOMAIN s /\ s[i] = e  BY <1>1, <1>3, <2>1
    <2>3. QED  BY <2>2 DEF Range
  <1>6. ASSUME NEW e \in Range(b) PROVE e \in Range(s)
    <2>1. PICK i \in 1..(Len(s) - n) : e = b[i]  BY <1>3, <1>6 DEF Range
    <2>2. i + n \in 1..Len(s)  BY <1>1
    <2>a. i + n \in DOMAIN s /\ s[i + n] = e  BY <1>2, <1>3, <2>1, <2>2
    <2>3. QED  BY <2>a DEF Range
  <1>7. ASSUME OneOpAKey(s) PROVE OneOpAKey(b)
    <2>1. SUFFICES ASSUME NEW i \in 1..(Len(s) - n), NEW j \in 1..(Len(s) - n), b[i].key = b[j].key
                   PROVE i = j  BY <1>3, Zenon DEF OneOpAKey
    <2>a. i + n \in 1..Len(s) /\ j + n \in 1..Len(s)  BY <1>1
    <2>2. i + n \in DOMAIN s /\ j + n \in DOMAIN s /\ s[i + n] = b[i] /\ s[j + n] = b[j]
      BY <1>2, <1>3, <2>a
    <2>3. i + n = j + n  BY <1>7, <2>1, <2>2 DEF OneOpAKey
    <2>4. QED  BY <1>1, <2>3
  <1>8. QED  BY <1>1, <1>2, <1>4, <1>5, <1>6, <1>7

\* retain holds exactly the kept ops.
LEMMA RetainRange ==
    ASSUME NEW lane \in Seq(Ops), NEW K, NEW r, r = retain(lane, K)
    PROVE  /\ r \in Seq(Ops) /\ Range(r) = Range(lane) \cap K
           /\ OneOpAKey(lane) => OneOpAKey(r)
  <1>1. r \in Seq(Ops) /\ Leaves(r, lane, K, Len(lane))  BY Retains
  <1>2. DOMAIN r = 1..Len(r) /\ DOMAIN lane = 1..Len(lane)  BY <1>1
  <1>3. ASSUME NEW e \in Range(r) PROVE e \in Range(lane) /\ e \in K
    <2>1. PICK j \in 1..Len(r) : e = r[j]  BY <1>2, <1>3 DEF Range
    <2>2. e \in K  BY Zenon, <1>1, <2>1 DEF Leaves
    <2>3. PICK i \in 1..Len(lane) : r[j] = lane[i]  BY Zenon, <1>1 DEF Leaves
    <2>4. QED  BY <1>2, <2>1, <2>2, <2>3 DEF Range
  <1>4. ASSUME NEW e \in Range(lane), e \in K PROVE e \in Range(r)
    <2>1. PICK i \in 1..Len(lane) : e = lane[i]  BY <1>2, <1>4 DEF Range
    <2>2. PICK j \in 1..Len(r) : r[j] = lane[i]  BY Zenon, <1>1, <1>4, <2>1 DEF Leaves
    <2>3. QED  BY <1>2, <2>1, <2>2 DEF Range
  <1>5. OneOpAKey(lane) => OneOpAKey(r)  BY Zenon, <1>1 DEF Leaves
  <1>6. QED  BY <1>1, <1>3, <1>4, <1>5

-----------------------------------------------------------------------------
(* What the lanes and the coalescer keep: an op is only ever dropped for    *)
(* one of the same key, or for a clear, that is at least as new.            *)

Covers(R, o) == \E e \in R : e.key = o.key /\ e.seq >= o.seq

\* The fields of an op.
LEMMA OpFields ==
    ASSUME NEW o \in Ops
    PROVE  o.key \in Keys \cup {AllKeys} /\ o.seq \in 0..MaxOps /\ o.seq \in Nat /\ o.key \in Nat
  BY FacadeAssumption, KeysAssumption DEF Ops, Keys, AllKeys

\* An op in a lane is covered by it.
LEMMA CoversSelf ==
    ASSUME NEW R \in SUBSET Ops, NEW o \in R PROVE Covers(R, o)
  BY OpFields DEF Covers

\* What a newer op covers, a still newer one covers.
LEMMA CoversTrans ==
    ASSUME NEW R \in SUBSET Ops, NEW Q \in SUBSET Ops, NEW o \in Ops,
           \A e \in Q : Covers(R, e), Covers(Q, o)
    PROVE  Covers(R, o)
  <1>1. PICK e \in Q : e.key = o.key /\ e.seq >= o.seq  BY Zenon DEF Covers
  <1>2. PICK d \in R : d.key = e.key /\ d.seq >= e.seq  BY Zenon DEF Covers
  <1>3. d.seq \in Nat /\ e.seq \in Nat /\ o.seq \in Nat  BY OpFields
  <1>4. d.key = o.key /\ d.seq >= o.seq  BY <1>1, <1>2, <1>3
  <1>5. QED  BY <1>4 DEF Covers

\* push_newest keeps one op a key, the newest.
LEMMA NewestWins ==
    ASSUME NEW lane \in Seq(Ops), OneOpAKey(lane), NEW o \in Ops,
           NEW r, r = newest_wins(lane, o)
    PROVE  /\ r \in Seq(Ops) /\ OneOpAKey(r) /\ Range(r) \subseteq Range(lane) \cup {o}
           /\ \A e \in Range(lane) \cup {o} : Covers(Range(r), e)
  <1>0. Range(lane) \subseteq Ops  BY RangeIn
  <1>1. CASE \E i \in DOMAIN lane : lane[i].key = o.key /\ lane[i].seq >= o.seq
    <2>1. r = lane  BY <1>1 DEF newest_wins
    <2>2. Covers(Range(lane), o)  BY <1>1 DEF Covers, Range
    <2>3. QED  BY <1>0, <2>1, <2>2, CoversSelf
  <1>2. CASE ~(\E i \in DOMAIN lane : lane[i].key = o.key /\ lane[i].seq >= o.seq)
    <2>1. PICK K : K = {e \in Range(lane) : e.key # o.key}  BY Zenon
    <2>2. PICK q : q = retain(lane, K)  OBVIOUS
    <2>3. r = Append(q, o)  BY <1>2, <2>1, <2>2 DEF newest_wins
    <2>4. q \in Seq(Ops) /\ Range(q) = Range(lane) \cap K /\ OneOpAKey(q)  BY <2>2, RetainRange
    <2>5. r \in Seq(Ops) /\ Range(r) = Range(q) \cup {o}  BY Zenon, <2>3, <2>4, RangeAppend
    <2>6. OneOpAKey(r)
      <3>1. /\ DOMAIN r = 1..(Len(q) + 1) /\ DOMAIN q = 1..Len(q) /\ r[Len(q) + 1] = o
            /\ Len(q) \in Nat /\ \A i \in 1..Len(q) : r[i] = q[i]
        BY <2>3, <2>4
      <3>2. \A i \in 1..Len(q) : q[i].key # o.key  BY <2>1, <2>4, RangeIn
      <3>3. SUFFICES ASSUME NEW i \in DOMAIN r, NEW j \in DOMAIN r, r[i].key = r[j].key
                     PROVE i = j  BY Zenon DEF OneOpAKey
      <3>4. CASE i \in DOMAIN q /\ j \in DOMAIN q
        <4>1. r[i] = q[i] /\ r[j] = q[j]  BY <3>1, <3>4
        <4>2. QED  BY <2>4, <3>3, <3>4, <4>1 DEF OneOpAKey
      <3>5. CASE i \in DOMAIN q /\ j = Len(q) + 1
        <4>1. r[i] = q[i] /\ r[j] = o  BY <3>1, <3>5
        <4>2. QED  BY <3>1, <3>2, <3>3, <3>5, <4>1
      <3>6. CASE i = Len(q) + 1 /\ j \in DOMAIN q
        <4>1. r[i] = o /\ r[j] = q[j]  BY <3>1, <3>6
        <4>2. QED  BY <3>1, <3>2, <3>3, <3>6, <4>1
      <3>7. QED  BY <3>1, <3>4, <3>5, <3>6
    <2>7. Range(r) \subseteq Ops  BY <2>5, RangeIn
    <2>8. ASSUME NEW e \in Range(lane) PROVE Covers(Range(r), e)
      <3>1. CASE e.key # o.key
        <4>1. e \in Range(r)  BY <2>1, <2>4, <2>5, <3>1
        <4>2. QED  BY <2>7, <4>1, CoversSelf
      <3>2. CASE e.key = o.key
        <4>1. PICK i \in DOMAIN lane : e = lane[i]  BY DEF Range
        <4>2. ~(e.seq >= o.seq)  BY <1>2, <3>2, <4>1
        <4>3. e.seq \in Nat /\ o.seq \in Nat  BY <1>0, OpFields
        <4>4. o \in Range(r) /\ o.key = e.key /\ o.seq >= e.seq  BY <2>5, <3>2, <4>2, <4>3
        <4>5. QED  BY <4>4 DEF Covers
      <3>3. QED  BY <3>1, <3>2
    <2>9. Covers(Range(r), o)  BY <2>5, <2>7, CoversSelf
    <2>10. QED  BY Zenon, <2>4, <2>5, <2>6, <2>8, <2>9
  <1>3. QED  BY <1>1, <1>2

Lanes == {s \in Seq(Ops) : OneOpAKey(s)}

\* Parking a batch computes what its loop over the ops computes.
LEMMA ParkedRuns ==
    ASSUME NEW lane \in Lanes, NEW ops \in Seq(Ops)
    PROVE  \E f \in [0..Len(ops) -> Lanes] :
              /\ f[0] = lane
              /\ \A n \in 1..Len(ops) : f[n] = newest_wins(f[n - 1], ops[n])
              /\ parked(lane, ops) = f[Len(ops)]
  <1> DEFINE Step(n, s) == newest_wins(s, ops[n])
  <1>1. PICK N, V, base : N = Len(ops) /\ V = Lanes /\ base = lane  OBVIOUS
  <1>2. N \in Nat /\ base \in V /\ \A n \in 1..N, s \in V : Step(n, s) \in V
    <2>1. N \in Nat /\ base \in V  BY <1>1
    <2>2. ASSUME NEW n \in 1..N, NEW s \in V PROVE newest_wins(s, ops[n]) \in V
      <3>1. ops[n] \in Ops /\ s \in Seq(Ops) /\ OneOpAKey(s)  BY <1>1 DEF Lanes
      <3>2. PICK r : r = newest_wins(s, ops[n])  OBVIOUS
      <3>3. r \in Seq(Ops) /\ OneOpAKey(r)  BY <3>1, <3>2, NewestWins
      <3>4. QED  BY <1>1, <3>2, <3>3 DEF Lanes
    <2>3. QED  BY <2>1, <2>2
  <1>3. \A f : f = [n \in 0..N |-> IF n = 0 THEN base ELSE Step(n, f[n - 1])] =>
          \E g : /\ g = [n \in 0..N |-> IF n = 0 THEN base ELSE Step(n, g[n - 1])]
                 /\ parked(lane, ops) = g[N]
    BY <1>1, Zenon DEF parked
  <1> HIDE DEF Step
  <1>4. PICK step : step = [n \in 1..N |-> [s \in V |-> Step(n, s)]]  BY Zenon
  <1>5. step \in [1..N -> [V -> V]]  BY <1>2, <1>4
  <1>a. N \in Nat /\ base \in V  BY <1>2
  <1>6. PICK f \in [0..N -> V] : Runs(f, N, base, step)  BY Zenon, <1>a, <1>5, Iterate
  <1>7. ASSUME NEW n \in 1..N PROVE f[n] = Step(n, f[n - 1])
    <2>1. f[n - 1] \in V  BY <1>2, <1>6
    <2>2. step[n][f[n - 1]] = Step(n, f[n - 1])  BY <1>4, <2>1
    <2>3. QED  BY <1>6, <2>2 DEF Runs
  <1>c. \A n \in 0..N : n = 0 \/ n \in 1..N  BY <1>2
  <1>d. \A n \in 0..N : f[n] = IF n = 0 THEN base ELSE Step(n, f[n - 1])  BY <1>c, <1>6, <1>7 DEF Runs
  <1>8. f = [n \in 0..N |-> IF n = 0 THEN base ELSE Step(n, f[n - 1])]  BY <1>6, <1>d
  <1>9. PICK g : /\ g = [n \in 0..N |-> IF n = 0 THEN base ELSE Step(n, g[n - 1])]
                 /\ parked(lane, ops) = g[N]
    BY Zenon, <1>3, <1>8
  <1>b. \A n \in 0..N : g[n] = IF n = 0 THEN base ELSE Step(n, g[n - 1])  BY Zenon, <1>9
  <1>10. g[0] = base /\ \A n \in 1..N : g[n] = Step(n, g[n - 1])  BY <1>2, <1>b
  <1>11. PICK T : T = {n \in 0..N : g[n] \in V}  BY Zenon
  <1>12. 0 \in T  BY <1>2, <1>10, <1>11
  <1>13. \A n \in 1..N : n - 1 \in T => n \in T  BY <1>2, <1>10, <1>11
  <1>14. 0..N \subseteq T  BY <1>2, <1>12, <1>13, UpTo, Zenon
  <1>15. g \in [0..N -> V]  BY <1>9, <1>11, <1>14
  <1>16. QED  BY <1>1, <1>9, <1>10, <1>15, Zenon DEF Step

\* s is the lane after n ops have been parked in it.
Parks(s, lane, ops, n) ==
    /\ Range(s) \subseteq Range(lane) \cup Range(ops)
    /\ \A e \in Range(lane) : Covers(Range(s), e)
    /\ \A i \in 1..n : Covers(Range(s), ops[i])

\* Every op parked, and every op there before, is covered afterwards.
LEMMA Parked ==
    ASSUME NEW lane \in Lanes, NEW ops \in Seq(Ops), NEW r, r = parked(lane, ops)
    PROVE  /\ r \in Lanes /\ Range(r) \subseteq Range(lane) \cup Range(ops)
           /\ \A e \in Range(lane) \cup Range(ops) : Covers(Range(r), e)
  <1>1. PICK N \in Nat : N = Len(ops)  OBVIOUS
  <1>2. PICK f \in [0..N -> Lanes] :
              /\ f[0] = lane
              /\ \A n \in 1..N : f[n] = newest_wins(f[n - 1], ops[n])
              /\ parked(lane, ops) = f[N]
    BY <1>1, ParkedRuns
  <1>3. PICK T : T = {n \in 0..N : Parks(f[n], lane, ops, n)}  OBVIOUS
  <1>a. Range(lane) \subseteq Ops  BY RangeIn DEF Lanes
  <1>4. 0 \in T
    <2>1. \A e \in Range(lane) : Covers(Range(lane), e)  BY <1>a, CoversSelf
    <2>2. QED  BY <1>2, <1>3, <2>1 DEF Parks
  <1>5. ASSUME NEW n \in 1..N, n - 1 \in T PROVE n \in T
    <2>1. PICK s \in Lanes : s = f[n - 1] /\ Parks(s, lane, ops, n - 1)  BY <1>2, <1>3, <1>5
    <2>a. PICK o : o = ops[n]  OBVIOUS
    <2>2. PICK t : t = newest_wins(s, o)  OBVIOUS
    <2>3. f[n] = t  BY <1>2, <2>1, <2>2, <2>a
    <2>4. o \in Ops /\ o \in Range(ops) /\ s \in Seq(Ops) /\ OneOpAKey(s)
      BY <1>1, <2>a, RangeIn DEF Lanes
    <2>5. /\ t \in Seq(Ops) /\ Range(t) \subseteq Range(s) \cup {o}
          /\ \A e \in Range(s) \cup {o} : Covers(Range(t), e)
      BY <2>2, <2>4, NewestWins
    <2>6. Range(s) \subseteq Ops /\ Range(t) \subseteq Ops  BY <2>4, <2>5, RangeIn
    <2>7. \A d \in Ops : Covers(Range(s), d) => Covers(Range(t), d)
      BY Zenon, <2>5, <2>6, CoversTrans
    <2>8. \A e \in Range(lane) : Covers(Range(t), e)  BY Zenon, <1>a, <2>1, <2>7 DEF Parks
    <2>9. ASSUME NEW i \in 1..n PROVE Covers(Range(t), ops[i])
      <3>1. CASE i = n  BY <2>5, <2>a, <3>1
      <3>2. CASE i # n
        <4>1. i \in 1..(n - 1) /\ i \in 1..N  BY <3>2
        <4>2. ops[i] \in Ops  BY <1>1, <4>1
        <4>3. Covers(Range(s), ops[i])  BY Zenon, <2>1, <4>1 DEF Parks
        <4>4. QED  BY <2>7, <4>2, <4>3
      <3>3. QED  BY <3>1, <3>2
    <2>10. Range(t) \subseteq Range(lane) \cup Range(ops)  BY <2>1, <2>4, <2>5 DEF Parks
    <2>11. Parks(t, lane, ops, n)  BY Zenon, <2>8, <2>9, <2>10 DEF Parks
    <2>12. QED  BY <1>3, <2>3, <2>11
  <1>6. 0..N \subseteq T  BY <1>4, <1>5, UpTo, Zenon
  <1>7. Parks(f[N], lane, ops, N) /\ f[N] \in Lanes  BY <1>2, <1>3, <1>6
  <1>8. \A e \in Range(ops) : \E i \in 1..N : e = ops[i]  BY <1>1 DEF Range
  <1>9. QED  BY Zenon, <1>1, <1>2, <1>7, <1>8 DEF Parks

-----------------------------------------------------------------------------
(* Coalescing.                                                              *)

\* An op on one key that the newest clear of its batch comes after.
Outdated(o, newest) == o.key # AllKeys /\ o.seq < newest

\* One op of a batch, met from the newest back, is kept or covered.
LEMMA CoalesceOp ==
    ASSUME NEW acc \in Seq(Ops), NEW o \in Ops, NEW newest, NEW r, r = coalesce_op(o, acc, newest)
    PROVE  /\ r \in Seq(Ops) /\ Range(r) \subseteq Range(acc) \cup {o}
           /\ \A e \in Range(acc) : Covers(Range(r), e)
           /\ Covers(Range(r), o) \/ Outdated(o, newest)
  <1>0. Range(acc) \subseteq Ops /\ DOMAIN acc = 1..Len(acc)  BY RangeIn
  <1>a. \A e \in Ops : e.seq \in Nat  BY OpFields
  <1>1. PICK Same : Same = {i \in DOMAIN acc : acc[i].key = o.key}  BY Zenon
  <1>2. PICK sawClear \in BOOLEAN : sawClear = \E i \in DOMAIN acc : acc[i].key = AllKeys  BY Zenon
  <1>3. PICK newer \in BOOLEAN : newer = \E i \in Same : acc[i].seq >= o.seq  BY Zenon
  <1>4. r = IF newer \/ (o.key # AllKeys /\ sawClear /\ o.seq < newest) THEN acc
            ELSE IF o.key = AllKeys
            THEN Append(retain(acc, {e \in Range(acc) : e.key # AllKeys}), o)
            ELSE IF Same = {} THEN Append(acc, o)
            ELSE [i \in DOMAIN acc |-> IF i \in Same THEN o ELSE acc[i]]
    BY Zenon, <1>1, <1>2, <1>3 DEF coalesce_op
  <1>5. CASE newer \/ (o.key # AllKeys /\ sawClear /\ o.seq < newest)
    <2>1. r = acc  BY <1>4, <1>5
    <2>2. newer => Covers(Range(acc), o)  BY Zenon, <1>1, <1>3 DEF Covers, Range
    <2>3. Covers(Range(acc), o) \/ Outdated(o, newest)  BY <1>5, <2>2 DEF Outdated
    <2>4. QED  BY <1>0, <2>1, <2>3, CoversSelf
  <1>6. CASE ~(newer \/ (o.key # AllKeys /\ sawClear /\ o.seq < newest))
    <2>1. ASSUME NEW e \in Range(acc), e.key = o.key PROVE o.seq >= e.seq
      <3>1. PICK i \in DOMAIN acc : e = acc[i]  BY DEF Range
      <3>2. ~(e.seq >= o.seq)  BY <1>1, <1>3, <1>6, <2>1, <3>1
      <3>3. QED  BY <1>0, <1>a, <3>2
    <2>2. ASSUME r \in Seq(Ops), Range(r) \subseteq Range(acc) \cup {o}, o \in Range(r),
                 \A e \in Range(acc) : e.key = o.key \/ e \in Range(r)
          PROVE  \A e \in Range(acc) \cup {o} : Covers(Range(r), e)
      <3>1. Range(r) \subseteq Ops  BY <1>0, <2>2
      <3>2. \A e \in Range(r) : Covers(Range(r), e)  BY <3>1, CoversSelf
      <3>3. \A e \in Range(acc) : e.key = o.key => Covers(Range(r), e)  BY <2>1, <2>2 DEF Covers
      <3>4. QED  BY <2>2, <3>2, <3>3
    <2>3. SUFFICES /\ r \in Seq(Ops) /\ Range(r) \subseteq Range(acc) \cup {o} /\ o \in Range(r)
                   /\ \A e \in Range(acc) : e.key = o.key \/ e \in Range(r)
      BY <2>2
    <2>4. CASE o.key = AllKeys
      <3>1. PICK K : K = {e \in Range(acc) : e.key # AllKeys}  BY Zenon
      <3>2. PICK q : q = retain(acc, K)  OBVIOUS
      <3>3. r = Append(q, o)  BY <1>4, <1>6, <2>4, <3>1, <3>2
      <3>4. q \in Seq(Ops) /\ Range(q) = Range(acc) \cap K  BY <3>2, RetainRange
      <3>5. r \in Seq(Ops) /\ Range(r) = Range(q) \cup {o}  BY Zenon, <3>3, <3>4, RangeAppend
      <3>6. QED  BY <2>4, <3>1, <3>4, <3>5
    <2>5. CASE o.key # AllKeys /\ Same = {}
      <3>1. r = Append(acc, o)  BY <1>4, <1>6, <2>5
      <3>2. r \in Seq(Ops) /\ Range(r) = Range(acc) \cup {o}  BY Zenon, <3>1, RangeAppend
      <3>3. QED  BY <3>2
    <2>6. CASE o.key # AllKeys /\ Same # {}
      <3>1. r = [i \in 1..Len(acc) |-> IF i \in Same THEN o ELSE acc[i]]  BY Zenon, <1>0, <1>4, <1>6, <2>6
      <3>2. Len(acc) \in Nat /\ \A i \in 1..Len(acc) : r[i] \in Ops  BY <3>1
      <3>3. r \in Seq(Ops) /\ DOMAIN r = 1..Len(acc)  BY <3>1, <3>2
      <3>4. \A i \in 1..Len(acc) : r[i] = o \/ r[i] = acc[i]  BY <3>1
      <3>5. Range(r) \subseteq Range(acc) \cup {o}  BY <1>0, <3>3, <3>4 DEF Range
      <3>6. PICK i \in 1..Len(acc) : i \in Same  BY <1>0, <1>1, <2>6
      <3>7. o \in Range(r)  BY <3>1, <3>3, <3>6 DEF Range
      <3>8. ASSUME NEW e \in Range(acc), e.key # o.key PROVE e \in Range(r)
        <4>1. PICK j \in 1..Len(acc) : e = acc[j]  BY <1>0 DEF Range
        <4>2. r[j] = e  BY <1>1, <3>1, <3>8, <4>1
        <4>3. QED  BY <3>3, <4>2 DEF Range
      <3>9. QED  BY <3>3, <3>5, <3>7, <3>8
    <2>7. QED  BY <2>4, <2>5, <2>6
  <1>7. QED  BY <1>5, <1>6

\* The newest clear of a batch is a clear of the batch, if it has any.
LEMMA ClearSeq ==
    ASSUME NEW ops \in Seq(Ops), NEW newest, newest = clear_seq(ops)
    PROVE  newest = 0 \/ \E o \in Range(ops) : o.key = AllKeys /\ o.seq = newest
  <1> DEFINE C == {ops[i].seq : i \in {j \in DOMAIN ops : ops[j].key = AllKeys}}
  <1>1. C = {ops[i].seq : i \in {j \in DOMAIN ops : ops[j].key = AllKeys}}  OBVIOUS
  <1>2. newest = IF C = {} THEN 0 ELSE CHOOSE s \in C : \A r \in C : r <= s
    BY Zenon DEF clear_seq
  <1> HIDE DEF C
  <1>3. CASE C = {}  BY <1>2, <1>3
  <1>4. CASE C # {}
    <2>1. \A c \in C : c \in 0..MaxOps  BY <1>1, OpFields
    <2>2. PICK T : T = {MaxOps - c : c \in C}  BY Zenon
    <2>3. T \in SUBSET Nat /\ T # {}  BY <1>4, <2>1, <2>2, FacadeAssumption
    <2>4. PICK m \in T : \A k \in T : m <= k  BY Zenon, <2>3, LeastElement
    <2>5. PICK s \in C : m = MaxOps - s  BY <2>2
    <2>6. \A r \in C : r <= s
      <3>1. SUFFICES ASSUME NEW r \in C PROVE r <= s  OBVIOUS
      <3>2. MaxOps - r \in T  BY <2>2
      <3>3. m <= MaxOps - r  BY <2>4, <3>2
      <3>4. r \in 0..MaxOps /\ s \in 0..MaxOps  BY <2>1
      <3>5. QED  BY <2>5, <3>3, <3>4, FacadeAssumption
    <2>7. newest \in C  BY Zenon, <1>2, <1>4, <2>6
    <2>8. PICK i \in DOMAIN ops : ops[i].key = AllKeys /\ newest = ops[i].seq  BY <1>1, <2>7
    <2>9. QED  BY <2>8 DEF Range
  <1>5. QED  BY <1>3, <1>4

\* Coalescing computes what its loop over the batch computes.
LEMMA KeptRuns ==
    ASSUME NEW ops \in Seq(Ops)
    PROVE  \E f \in [0..Len(ops) -> Seq(Ops)] :
              /\ f[0] = <<>>
              /\ \A n \in 1..Len(ops) :
                    f[n] = coalesce_op(ops[Len(ops) + 1 - n], f[n - 1], clear_seq(ops))
              /\ kept(ops) = f[Len(ops)]
  <1> DEFINE Step(n, s) == coalesce_op(ops[Len(ops) + 1 - n], s, clear_seq(ops))
  <1>1. PICK N, V, base : N = Len(ops) /\ V = Seq(Ops) /\ base = <<>>  OBVIOUS
  <1>2. N \in Nat /\ base \in V /\ \A n \in 1..N, s \in V : Step(n, s) \in V
    <2>1. N \in Nat /\ base \in V  BY <1>1
    <2>2. ASSUME NEW n \in 1..N, NEW s \in V
          PROVE  coalesce_op(ops[Len(ops) + 1 - n], s, clear_seq(ops)) \in V
      <3>1. PICK i : i = Len(ops) + 1 - n  OBVIOUS
      <3>2. i \in 1..Len(ops)  BY <1>1, <2>1, <3>1
      <3>3. PICK o, c : o = ops[i] /\ c = clear_seq(ops)  OBVIOUS
      <3>4. o \in Ops /\ s \in Seq(Ops)  BY <1>1, <3>2, <3>3
      <3>5. PICK r : r = coalesce_op(o, s, c)  OBVIOUS
      <3>6. r \in Seq(Ops)  BY <3>4, <3>5, CoalesceOp
      <3>7. QED  BY <1>1, <3>1, <3>3, <3>5, <3>6
    <2>3. QED  BY <2>1, <2>2
  <1>3. \A f : f = [n \in 0..N |-> IF n = 0 THEN base ELSE Step(n, f[n - 1])] =>
          \E g : /\ g = [n \in 0..N |-> IF n = 0 THEN base ELSE Step(n, g[n - 1])]
                 /\ kept(ops) = g[N]
    BY <1>1, Zenon DEF kept
  <1> HIDE DEF Step
  <1>4. PICK step : step = [n \in 1..N |-> [s \in V |-> Step(n, s)]]  BY Zenon
  <1>5. step \in [1..N -> [V -> V]]  BY <1>2, <1>4
  <1>a. N \in Nat /\ base \in V  BY <1>2
  <1>6. PICK f \in [0..N -> V] : Runs(f, N, base, step)  BY Zenon, <1>a, <1>5, Iterate
  <1>7. ASSUME NEW n \in 1..N PROVE f[n] = Step(n, f[n - 1])
    <2>1. f[n - 1] \in V  BY <1>2, <1>6
    <2>2. step[n][f[n - 1]] = Step(n, f[n - 1])  BY <1>4, <2>1
    <2>3. QED  BY <1>6, <2>2 DEF Runs
  <1>c. \A n \in 0..N : n = 0 \/ n \in 1..N  BY <1>2
  <1>d. \A n \in 0..N : f[n] = IF n = 0 THEN base ELSE Step(n, f[n - 1])  BY <1>c, <1>6, <1>7 DEF Runs
  <1>8. f = [n \in 0..N |-> IF n = 0 THEN base ELSE Step(n, f[n - 1])]  BY <1>6, <1>d
  <1>9. PICK g : /\ g = [n \in 0..N |-> IF n = 0 THEN base ELSE Step(n, g[n - 1])]
                 /\ kept(ops) = g[N]
    BY Zenon, <1>3, <1>8
  <1>b. \A n \in 0..N : g[n] = IF n = 0 THEN base ELSE Step(n, g[n - 1])  BY Zenon, <1>9
  <1>10. g[0] = base /\ \A n \in 1..N : g[n] = Step(n, g[n - 1])  BY <1>2, <1>b
  <1>11. PICK T : T = {n \in 0..N : g[n] \in V}  BY Zenon
  <1>12. 0 \in T  BY <1>2, <1>10, <1>11
  <1>13. \A n \in 1..N : n - 1 \in T => n \in T  BY <1>2, <1>10, <1>11
  <1>14. 0..N \subseteq T  BY <1>2, <1>12, <1>13, UpTo, Zenon
  <1>15. g \in [0..N -> V]  BY <1>9, <1>11, <1>14
  <1>16. QED  BY <1>1, <1>9, <1>10, <1>15, Zenon DEF Step

\* s is what is kept of the last n ops of a batch.
Keeps(s, ops, n) ==
    /\ Range(s) \subseteq Range(ops)
    /\ \A i \in 1..n : \/ Covers(Range(s), ops[Len(ops) + 1 - i])
                      \/ Outdated(ops[Len(ops) + 1 - i], clear_seq(ops))

\* Each turn of that loop keeps what the turns before it kept.
LEMMA KeptInduction ==
    ASSUME NEW ops \in Seq(Ops), NEW r, r = kept(ops)
    PROVE  r \in Seq(Ops) /\ Keeps(r, ops, Len(ops))
  <1>1. PICK N \in Nat : N = Len(ops)  OBVIOUS
  <1>2. PICK f \in [0..N -> Seq(Ops)] :
              /\ f[0] = <<>>
              /\ \A n \in 1..N : f[n] = coalesce_op(ops[N + 1 - n], f[n - 1], clear_seq(ops))
              /\ kept(ops) = f[N]
    BY Zenon, <1>1, KeptRuns
  <1>3. PICK T : T = {n \in 0..N : Keeps(f[n], ops, n)}  BY Zenon
  <1>4. 0 \in T  BY <1>2, <1>3, RangeEmpty DEF Keeps
  <1>5. ASSUME NEW n \in 1..N, n - 1 \in T PROVE n \in T
    <2>1. PICK s \in Seq(Ops) : s = f[n - 1] /\ Keeps(s, ops, n - 1)  BY <1>2, <1>3, <1>5
    <2>2. PICK o, c : o = ops[N + 1 - n] /\ c = clear_seq(ops)  OBVIOUS
    <2>3. PICK t : t = coalesce_op(o, s, c)  OBVIOUS
    <2>4. f[n] = t  BY <1>2, <2>1, <2>2, <2>3
    <2>5. N + 1 - n \in 1..Len(ops)  BY <1>1
    <2>6. o \in Ops /\ o \in Range(ops)  BY <2>2, <2>5, RangeIn
    <2>7. /\ t \in Seq(Ops) /\ Range(t) \subseteq Range(s) \cup {o}
          /\ \A e \in Range(s) : Covers(Range(t), e)
          /\ Covers(Range(t), o) \/ Outdated(o, c)
      BY <2>3, <2>6, CoalesceOp
    <2>8. Range(s) \subseteq Ops /\ Range(t) \subseteq Ops  BY <2>7, RangeIn
    <2>9. \A d \in Ops : Covers(Range(s), d) => Covers(Range(t), d)
      BY Zenon, <2>7, <2>8, CoversTrans
    <2>10. ASSUME NEW i \in 1..n
           PROVE  Covers(Range(t), ops[Len(ops) + 1 - i]) \/ Outdated(ops[Len(ops) + 1 - i], clear_seq(ops))
      <3>1. PICK d : d = ops[Len(ops) + 1 - i]  OBVIOUS
      <3>2. CASE i = n
        <4>1. d = o  BY <1>1, <2>2, <3>1, <3>2
        <4>2. QED  BY <2>2, <2>7, <3>1, <4>1
      <3>3. CASE i # n
        <4>1. i \in 1..(n - 1) /\ Len(ops) + 1 - i \in 1..Len(ops)  BY <1>1, <3>3
        <4>2. d \in Ops  BY <3>1, <4>1
        <4>3. Covers(Range(s), d) \/ Outdated(d, clear_seq(ops))  BY Zenon, <2>1, <3>1, <4>1 DEF Keeps
        <4>4. QED  BY <2>9, <3>1, <4>2, <4>3
      <3>4. QED  BY <3>2, <3>3
    <2>11. Range(t) \subseteq Range(ops)  BY <2>1, <2>6, <2>7 DEF Keeps
    <2>12. Keeps(t, ops, n)  BY Zenon, <2>10, <2>11 DEF Keeps
    <2>13. QED  BY <1>3, <2>4, <2>12
  <1>6. 0..N \subseteq T  BY <1>4, <1>5, UpTo, Zenon
  <1>7. Keeps(f[N], ops, N) /\ f[N] \in Seq(Ops)  BY <1>2, <1>3, <1>6
  <1>8. QED  BY <1>1, <1>2, <1>7

\* Coalescing keeps ops of the batch, and drops only what a newer one covers.
LEMMA Kept ==
    ASSUME NEW ops \in Seq(Ops), NEW r, r = kept(ops)
    PROVE  /\ r \in Seq(Ops) /\ Range(r) \subseteq Range(ops)
           /\ \A o \in Range(ops) :
                 \E e \in Range(r) : e.key \in {o.key, AllKeys} /\ e.seq >= o.seq
  <1>1. r \in Seq(Ops) /\ Keeps(r, ops, Len(ops))  BY KeptInduction
  <1>2. Range(r) \subseteq Range(ops)  BY <1>1 DEF Keeps
  <1>3. PICK c : c = clear_seq(ops)  OBVIOUS
  <1>4. ASSUME NEW o \in Range(ops) PROVE Covers(Range(r), o) \/ Outdated(o, c)
    <2>1. PICK j \in 1..Len(ops) : o = ops[j]  BY DEF Range
    <2>2. PICK i : i = Len(ops) + 1 - j  OBVIOUS
    <2>3. i \in 1..Len(ops) /\ Len(ops) + 1 - i = j  BY <2>2
    <2>4. \/ Covers(Range(r), ops[Len(ops) + 1 - i])
          \/ Outdated(ops[Len(ops) + 1 - i], clear_seq(ops))
      BY Zenon, <1>1, <2>3 DEF Keeps
    <2>5. QED  BY <1>3, <2>1, <2>3, <2>4
  <1>5. ASSUME NEW o \in Range(ops)
        PROVE \E e \in Range(r) : e.key \in {o.key, AllKeys} /\ e.seq >= o.seq
    <2>1. CASE Covers(Range(r), o)  BY <2>1 DEF Covers
    <2>2. CASE Outdated(o, c)
      <3>1. o \in Ops /\ o.seq \in Nat /\ o.seq < c  BY <2>2, RangeIn, OpFields DEF Outdated
      <3>2. PICK x \in Range(ops) : x.key = AllKeys /\ x.seq = c  BY <1>3, <3>1, ClearSeq
      <3>3. Covers(Range(r), x)  BY <1>4, <3>2 DEF Outdated
      <3>4. PICK e \in Range(r) : e.key = x.key /\ e.seq >= x.seq  BY Zenon, <3>3 DEF Covers
      <3>5. e.seq \in Nat /\ x.seq \in Nat  BY <1>1, <3>2, <3>4, RangeIn, OpFields
      <3>6. e.key \in {o.key, AllKeys} /\ e.seq >= o.seq  BY <3>1, <3>2, <3>4, <3>5
      <3>7. QED  BY <3>6
    <2>3. QED  BY <1>4, <2>1, <2>2
  <1>6. QED  BY <1>1, <1>2, <1>5

\* e is what op o does to one key.
Part(e, o) == e.key \in Keys /\ touches(o, e.key) /\ e.seq = o.seq /\ e.put = o.put

\* A clear becomes one remove a key, any other op itself.
LEMMA ExpandPerKey ==
    ASSUME NEW o \in Ops, NEW r, r = expand_per_key(o)
    PROVE  /\ r \in Seq(Ops)
           /\ (o.key = AllKeys => o.put = FALSE) => \A e \in Range(r) : Part(e, o)
           /\ \A k \in Keys : touches(o, k) => \E e \in Range(r) : e.key = k /\ e.seq = o.seq
  <1>0. Keys = 1..NKeys /\ NKeys \in Nat /\ AllKeys \notin Keys
    BY KeysAssumption DEF Keys, AllKeys
  <1>1. CASE o.key = AllKeys
    <2>1. r = [k \in 1..NKeys |-> Op(k, FALSE, o.seq)]  BY <1>0, <1>1 DEF expand_per_key
    <2>2. \A k \in 1..NKeys : r[k] \in Ops /\ r[k].key = k /\ r[k].seq = o.seq /\ r[k].put = FALSE
      BY <1>0, <2>1, OpFields DEF Op, Ops
    <2>a. r \in [1..NKeys -> Ops]  BY Zenon, <2>1, <2>2
    <2>b. r \in Seq(Ops)  BY <1>0, <2>a
    <2>3. r \in Seq(Ops) /\ DOMAIN r = 1..NKeys  BY <2>a, <2>b
    <2>4. \A k \in Keys : touches(o, k)  BY <1>1 DEF touches
    <2>5. \A e \in Range(r) : \E k \in 1..NKeys : e = r[k]  BY <2>3 DEF Range
    <2>6. \A k \in 1..NKeys : r[k] \in Range(r)  BY <2>3 DEF Range
    <2>7. ASSUME o.put = FALSE, NEW e \in Range(r) PROVE Part(e, o)
      <3>1. PICK k \in 1..NKeys : e = r[k]  BY <2>5
      <3>2. e.key = k /\ e.seq = o.seq /\ e.put = FALSE  BY <2>2, <3>1
      <3>3. k \in Keys /\ touches(o, k)  BY <1>0, <2>4
      <3>4. QED  BY Zenon, <2>7, <3>2, <3>3 DEF Part
    <2>8. \A k \in Keys : \E e \in Range(r) : e.key = k /\ e.seq = o.seq
      BY <1>0, <2>2, <2>6
    <2>9. QED  BY Zenon, <1>1, <2>3, <2>7, <2>8
  <1>2. CASE o.key # AllKeys
    <2>1. r = <<o>>  BY <1>2 DEF expand_per_key
    <2>2. r \in Seq(Ops) /\ Range(r) = {o}
      <3>1. r \in Seq(Ops) /\ DOMAIN r = {1} /\ r[1] = o  BY <2>1
      <3>2. QED  BY <3>1 DEF Range
    <2>3. o.key \in Keys /\ Part(o, o)  BY <1>2, OpFields DEF Part, touches
    <2>4. \A k \in Keys : touches(o, k) => o.key = k  BY <1>2 DEF touches
    <2>5. QED  BY <2>2, <2>3, <2>4
  <1>3. QED  BY Zenon, <1>1, <1>2

\* Expanding computes what its loop over the ops computes.
LEMMA ExpandedRuns ==
    ASSUME NEW ops \in Seq(Ops)
    PROVE  \E f \in [0..Len(ops) -> Seq(Ops)] :
              /\ f[0] = <<>>
              /\ \A n \in 1..Len(ops) :
                    f[n] = f[n - 1] \o expand_per_key(ops[Len(ops) + 1 - n])
              /\ expanded(ops) = f[Len(ops)]
  <1> DEFINE Step(n, s) == s \o expand_per_key(ops[Len(ops) + 1 - n])
  <1>1. PICK N, V, base : N = Len(ops) /\ V = Seq(Ops) /\ base = <<>>  OBVIOUS
  <1>2. N \in Nat /\ base \in V /\ \A n \in 1..N, s \in V : Step(n, s) \in V
    <2>1. N \in Nat /\ base \in V  BY <1>1
    <2>2. ASSUME NEW n \in 1..N, NEW s \in V
          PROVE  s \o expand_per_key(ops[Len(ops) + 1 - n]) \in V
      <3>1. PICK i : i = Len(ops) + 1 - n  OBVIOUS
      <3>2. i \in 1..Len(ops)  BY <1>1, <2>1, <3>1
      <3>3. PICK o : o = ops[i]  OBVIOUS
      <3>4. o \in Ops /\ s \in Seq(Ops)  BY <1>1, <3>2, <3>3
      <3>5. PICK x, r : x = expand_per_key(o) /\ r = s \o x  BY Zenon
      <3>6. x \in Seq(Ops)  BY Zenon, <3>4, <3>5, ExpandPerKey
      <3>7. r \in Seq(Ops)  BY <3>4, <3>5, <3>6, RangeConcat
      <3>8. QED  BY <1>1, <3>1, <3>3, <3>5, <3>7
    <2>3. QED  BY <2>1, <2>2
  <1>3. \A f : f = [n \in 0..N |-> IF n = 0 THEN base ELSE Step(n, f[n - 1])] =>
          \E g : /\ g = [n \in 0..N |-> IF n = 0 THEN base ELSE Step(n, g[n - 1])]
                 /\ expanded(ops) = g[N]
    BY <1>1, Zenon DEF expanded
  <1> HIDE DEF Step
  <1>4. PICK step : step = [n \in 1..N |-> [s \in V |-> Step(n, s)]]  BY Zenon
  <1>5. step \in [1..N -> [V -> V]]  BY <1>2, <1>4
  <1>a. N \in Nat /\ base \in V  BY <1>2
  <1>6. PICK f \in [0..N -> V] : Runs(f, N, base, step)  BY Zenon, <1>a, <1>5, Iterate
  <1>7. ASSUME NEW n \in 1..N PROVE f[n] = Step(n, f[n - 1])
    <2>1. f[n - 1] \in V  BY <1>2, <1>6
    <2>2. step[n][f[n - 1]] = Step(n, f[n - 1])  BY <1>4, <2>1
    <2>3. QED  BY <1>6, <2>2 DEF Runs
  <1>c. \A n \in 0..N : n = 0 \/ n \in 1..N  BY <1>2
  <1>d. \A n \in 0..N : f[n] = IF n = 0 THEN base ELSE Step(n, f[n - 1])  BY <1>c, <1>6, <1>7 DEF Runs
  <1>8. f = [n \in 0..N |-> IF n = 0 THEN base ELSE Step(n, f[n - 1])]  BY <1>6, <1>d
  <1>9. PICK g : /\ g = [n \in 0..N |-> IF n = 0 THEN base ELSE Step(n, g[n - 1])]
                 /\ expanded(ops) = g[N]
    BY Zenon, <1>3, <1>8
  <1>b. \A n \in 0..N : g[n] = IF n = 0 THEN base ELSE Step(n, g[n - 1])  BY Zenon, <1>9
  <1>10. g[0] = base /\ \A n \in 1..N : g[n] = Step(n, g[n - 1])  BY <1>2, <1>b
  <1>11. PICK T : T = {n \in 0..N : g[n] \in V}  BY Zenon
  <1>12. 0 \in T  BY <1>2, <1>10, <1>11
  <1>13. \A n \in 1..N : n - 1 \in T => n \in T  BY <1>2, <1>10, <1>11
  <1>14. 0..N \subseteq T  BY <1>2, <1>12, <1>13, UpTo, Zenon
  <1>15. g \in [0..N -> V]  BY <1>9, <1>11, <1>14
  <1>16. QED  BY <1>1, <1>9, <1>10, <1>15, Zenon DEF Step

\* s holds the expansion of the last n ops.
Expands(s, ops, n) ==
    /\ \A e \in Range(s) : \E o \in Range(ops) : e \in Range(expand_per_key(o))
    /\ \A i \in 1..n : Range(expand_per_key(ops[Len(ops) + 1 - i])) \subseteq Range(s)

\* Each turn of that loop holds the parts of the ops met.
LEMMA ExpandedInduction ==
    ASSUME NEW ops \in Seq(Ops), NEW r, r = expanded(ops)
    PROVE  r \in Seq(Ops) /\ Expands(r, ops, Len(ops))
  <1>1. PICK N \in Nat : N = Len(ops)  OBVIOUS
  <1>2. PICK f \in [0..N -> Seq(Ops)] :
              /\ f[0] = <<>>
              /\ \A n \in 1..N : f[n] = f[n - 1] \o expand_per_key(ops[N + 1 - n])
              /\ expanded(ops) = f[N]
    BY Zenon, <1>1, ExpandedRuns
  <1>3. PICK T : T = {n \in 0..N : Expands(f[n], ops, n)}  BY Zenon
  <1>4. 0 \in T  BY <1>2, <1>3, RangeEmpty DEF Expands
  <1>5. ASSUME NEW n \in 1..N, n - 1 \in T PROVE n \in T
    <2>1. PICK s \in Seq(Ops) : s = f[n - 1] /\ Expands(s, ops, n - 1)  BY <1>2, <1>3, <1>5
    <2>2. PICK o, x : o = ops[N + 1 - n] /\ x = expand_per_key(o)  OBVIOUS
    <2>3. PICK t : t = s \o x  BY Zenon
    <2>4. f[n] = t  BY Zenon, <1>2, <2>1, <2>2, <2>3
    <2>5. N + 1 - n \in 1..Len(ops)  BY <1>1
    <2>6. o \in Ops /\ o \in Range(ops)  BY <2>2, <2>5, RangeIn
    <2>7. x \in Seq(Ops)  BY Zenon, <2>2, <2>6, ExpandPerKey
    <2>8. Range(t) = Range(s) \cup Range(x)  BY Zenon, <2>3, <2>7, RangeConcat
    <2>9. ASSUME NEW e \in Range(t) PROVE \E d \in Range(ops) : e \in Range(expand_per_key(d))
      <3>1. CASE e \in Range(x)  BY <2>2, <2>6, <3>1
      <3>2. CASE e \in Range(s)  BY Zenon, <2>1, <3>2 DEF Expands
      <3>3. QED  BY <2>8, <3>1, <3>2
    <2>10. ASSUME NEW i \in 1..n PROVE Range(expand_per_key(ops[Len(ops) + 1 - i])) \subseteq Range(t)
      <3>1. CASE i = n
        <4>1. Range(expand_per_key(ops[Len(ops) + 1 - i])) = Range(x)  BY <1>1, <2>2, <3>1
        <4>2. QED  BY <2>8, <4>1
      <3>2. CASE i # n
        <4>1. i \in 1..(n - 1)  BY <3>2
        <4>2. Range(expand_per_key(ops[Len(ops) + 1 - i])) \subseteq Range(s)
          BY Zenon, <2>1, <4>1 DEF Expands
        <4>3. QED  BY <2>8, <4>2
      <3>3. QED  BY <3>1, <3>2
    <2>11. Expands(t, ops, n)  BY Zenon, <2>9, <2>10 DEF Expands
    <2>12. QED  BY <1>3, <2>4, <2>11
  <1>6. 0..N \subseteq T  BY <1>4, <1>5, UpTo, Zenon
  <1>7. Expands(f[N], ops, N) /\ f[N] \in Seq(Ops)  BY <1>2, <1>3, <1>6
  <1>8. QED  BY <1>1, <1>2, <1>7

\* A pass holds parts of the ops it coalesces, and for each key an op of the
\* batch touches one at least as new.
LEMMA Coalesced ==
    ASSUME NEW ops \in Seq(Ops), NEW r, r = coalesced(ops),
           \A o \in Range(ops) : o.key = AllKeys => o.put = FALSE
    PROVE  /\ r \in Seq(Ops)
           /\ \A e \in Range(r) : \E o \in Range(ops) : Part(e, o)
           /\ \A o \in Range(ops), k \in Keys : touches(o, k) =>
                 \E e \in Range(r) : e.key = k /\ e.seq >= o.seq
  <1>1. PICK q : q = kept(ops)  OBVIOUS
  <1>2. r = expanded(q)  BY <1>1 DEF coalesced
  <1>3. /\ q \in Seq(Ops) /\ Range(q) \subseteq Range(ops)
        /\ \A o \in Range(ops) :
              \E e \in Range(q) : e.key \in {o.key, AllKeys} /\ e.seq >= o.seq
    BY <1>1, Kept
  <1>4. r \in Seq(Ops) /\ Expands(r, q, Len(q))  BY <1>2, <1>3, ExpandedInduction
  <1>5. Range(q) \subseteq Ops /\ Range(ops) \subseteq Ops  BY <1>3, RangeIn
  <1>6. ASSUME NEW e \in Range(r) PROVE \E o \in Range(ops) : Part(e, o)
    <2>1. PICK o \in Range(q) : e \in Range(expand_per_key(o))  BY Zenon, <1>4 DEF Expands
    <2>2. PICK x : x = expand_per_key(o)  OBVIOUS
    <2>3. o \in Ops /\ o \in Range(ops) /\ (o.key = AllKeys => o.put = FALSE)  BY <1>3, <1>5
    <2>4. \A d \in Range(x) : Part(d, o)  BY Zenon, <2>2, <2>3, ExpandPerKey
    <2>5. QED  BY <2>1, <2>2, <2>3, <2>4
  <1>7. ASSUME NEW o \in Range(ops), NEW k \in Keys, touches(o, k)
        PROVE \E e \in Range(r) : e.key = k /\ e.seq >= o.seq
    <2>1. PICK d \in Range(q) : d.key \in {o.key, AllKeys} /\ d.seq >= o.seq  BY <1>3
    <2>2. d \in Ops /\ touches(d, k)  BY <1>5, <1>7, <2>1 DEF touches
    <2>3. PICK x : x = expand_per_key(d)  OBVIOUS
    <2>4. PICK e \in Range(x) : e.key = k /\ e.seq = d.seq  BY Zenon, <2>2, <2>3, ExpandPerKey
    <2>5. PICK j \in 1..Len(q) : d = q[j]  BY <1>3 DEF Range
    <2>6. PICK i : i = Len(q) + 1 - j  OBVIOUS
    <2>7. i \in 1..Len(q) /\ Len(q) + 1 - i = j  BY <1>3, <2>6
    <2>8. Range(expand_per_key(q[Len(q) + 1 - i])) \subseteq Range(r)
      BY Zenon, <1>4, <2>7 DEF Expands
    <2>9. e \in Range(r)  BY <2>3, <2>4, <2>5, <2>7, <2>8
    <2>10. QED  BY <2>1, <2>4, <2>9
  <1>8. QED  BY <1>4, <1>6, <1>7
-----------------------------------------------------------------------------
(* The inductive invariant.                                                 *)

\* issued is the history: an op's sequence is its place, and a clear puts
\* nothing.
History ==
    \A n \in 1..seq : issued[n].seq = n /\ (issued[n].key = AllKeys => issued[n].put = FALSE)

\* o is an issued op, or what one does to a key it touches.
Sound(o) ==
    /\ o.seq \in 1..seq
    /\ \A k \in Keys : touches(o, k) => touches(issued[o.seq], k)
    /\ o.put = issued[o.seq].put
    /\ o.key = AllKeys => o.put = FALSE

InHandIsSound == \A o \in InHand : Sound(o)

\* A pass works key by key.
TodoIsPerKey == \A o \in Range(todo) \cup Range(overflow) \cup Range(retry) : o.key \in Keys

\* The watermark of a key is the op the disk shows.
WatermarkIsTrue ==
    \A k \in Keys :
        \/ last_applied[k] = 0
        \/ /\ last_applied[k] \in 1..seq
           /\ touches(issued[last_applied[k]], k)
           /\ disk[k] = content(issued[last_applied[k]])

\* n is the newest op on key k.
Newest(n, k) ==
    /\ n \in 1..seq /\ touches(issued[n], k)
    /\ \A m \in 1..seq : touches(issued[m], k) => m <= n

\* Memory shows the newest op of a key, or what was preloaded.
MemoryIsNewest ==
    \A k \in Keys :
        \/ \E n \in 1..seq : Newest(n, k) /\ memory[k] = content(issued[n])
        \/ (\A n \in 1..seq : ~touches(issued[n], k)) /\ memory[k] = disk[k]

\* Every op on a key is durable or superseded, or an op as new is in hand.
NoneIsLost ==
    \A k \in Keys, n \in 1..seq : touches(issued[n], k) =>
        last_applied[k] >= n \/ \E o \in InHand : touches(o, k) /\ o.seq >= n

\* Where the callers and the worker are, and what they then hold.
Stages ==
    /\ join # "open" => \A c \in Callers : pc[c] = "idle"
    /\ worker # "fill" => batch = <<>>
    /\ todo # <<>> => worker \in {"apply", "applied", "recover"}
    /\ worker = "final" => join # "open" /\ queue = <<>>
    /\ back = "end" => /\ join # "open" /\ queue = <<>> /\ overflow = <<>>
                       /\ worker \in {"apply", "applied", "recover", "end", "ended"}
    /\ worker \in {"end", "ended"} => back = "end"
    /\ worker = "ended" => failed \/ retry = <<>>

\* TypeOK, a group of variables at a time.
FrontShape ==
    /\ memory \in [Keys -> Contents]
    /\ seq \in 0..MaxOps /\ issued \in Seq(Ops) /\ Len(issued) = seq
    /\ pc \in [Callers -> {"idle", "send", "full", "parked"}] /\ op \in [Callers -> Ops]

DiskShape == disk \in [Keys -> Contents] /\ last_applied \in [Keys -> 0..MaxOps]

ControlShape ==
    /\ failed \in BOOLEAN /\ join \in {"open", "joining", "returned"}
    /\ worker \in {"top", "recv", "fill", "apply", "applied", "recover",
                   "final", "end", "ended"}
    /\ back \in {"top", "recv", "end"}

LaneShape ==
    /\ queue \in Seq(Ops) /\ Len(queue) <= QUEUE_BOUND
    /\ batch \in Seq(Ops) /\ Len(batch) <= QUEUE_BOUND
    /\ todo \in Seq(Ops) /\ overflow \in Lanes /\ retry \in Lanes

Shape == FrontShape /\ DiskShape /\ ControlShape /\ LaneShape

\* What the ops in hand are for.
Promises == History /\ InHandIsSound /\ WatermarkIsTrue /\ MemoryIsNewest /\ NoneIsLost

FacadeInv == Shape /\ Promises /\ TodoIsPerKey /\ Stages

\* The groups of variables together are the type invariant.
LEMMA ShapeIsTypeOK ==
    ASSUME Shape, TodoIsPerKey PROVE TypeOK
  <1>1. ASSUME NEW lane \in {overflow, retry}
        PROVE  lane \in Seq(Ops) /\ OneOpAKey(lane) /\ \A i \in DOMAIN lane : lane[i].key \in Keys
    <2>1. lane \in Lanes /\ \A o \in Range(lane) : o.key \in Keys
      BY DEF Shape, LaneShape, TodoIsPerKey
    <2>2. QED  BY <2>1 DEF Lanes, Range
  <1>2. QED  BY <1>1 DEF Shape, FrontShape, DiskShape, ControlShape, LaneShape, TypeOK

\* Whatever is in hand is an op.
LEMMA HandOps ==
    ASSUME FrontShape, LaneShape
    PROVE  /\ InHand \subseteq Ops
           /\ Sending \subseteq Ops /\ Range(queue) \subseteq Ops /\ Range(overflow) \subseteq Ops
           /\ Range(batch) \subseteq Ops /\ Range(todo) \subseteq Ops /\ Range(retry) \subseteq Ops
  <1>1. Range(queue) \subseteq Ops /\ Range(batch) \subseteq Ops /\ Range(todo) \subseteq Ops
    BY RangeIn DEF LaneShape
  <1>2. Range(overflow) \subseteq Ops /\ Range(retry) \subseteq Ops
    BY RangeIn DEF LaneShape, Lanes
  <1>3. Sending \subseteq Ops  BY DEF FrontShape, Sending
  <1>4. QED  BY <1>1, <1>2, <1>3 DEF InHand

\* An op on one key touches that key and no other.
LEMMA TouchesItsKey ==
    ASSUME NEW o, o.key \in Keys, NEW k \in Keys PROVE touches(o, k) <=> o.key = k
  BY KeysAssumption DEF touches, Keys, AllKeys

\* A step that moves ops about, and drops only those that are durable or
\* covered, keeps every promise.
LEMMA HandStep ==
    ASSUME FacadeInv, UNCHANGED <<memory, seq, issued, disk, last_applied>>,
           \A e \in InHand' : Sound(e),
           \A o \in InHand, k \in Keys : touches(o, k) =>
              last_applied[k] >= o.seq \/ \E e \in InHand' : touches(e, k) /\ e.seq >= o.seq
    PROVE  Promises'
  <1>1. History'  BY DEF FacadeInv, Promises, History
  <1>2. InHandIsSound'
    <2>1. \A e : Sound(e) => Sound(e)'  BY DEF Sound
    <2>2. QED  BY <2>1 DEF InHandIsSound
  <1>3. WatermarkIsTrue'  BY DEF FacadeInv, Promises, WatermarkIsTrue
  <1>4. MemoryIsNewest'  BY DEF FacadeInv, Promises, MemoryIsNewest, Newest
  <1>5. NoneIsLost'
    <2>1. SUFFICES ASSUME NEW k \in Keys, NEW n \in 1..seq, touches(issued[n], k)
                   PROVE  last_applied[k] >= n \/ \E e \in InHand' : touches(e, k) /\ e.seq >= n
      BY DEF NoneIsLost
    <2>2. last_applied[k] >= n \/ \E o \in InHand : touches(o, k) /\ o.seq >= n
      BY Zenon, <2>1 DEF FacadeInv, Promises, NoneIsLost
    <2>3. ASSUME NEW o \in InHand, touches(o, k), o.seq >= n
          PROVE  last_applied[k] >= n \/ \E e \in InHand' : touches(e, k) /\ e.seq >= n
      <3>1. n \in Nat /\ last_applied[k] \in Nat /\ o.seq \in Nat
        BY FacadeAssumption, HandOps, OpFields DEF FacadeInv, Shape, FrontShape, DiskShape
      <3>2. CASE last_applied[k] >= o.seq  BY <2>3, <3>1, <3>2
      <3>3. CASE \E e \in InHand' : touches(e, k) /\ e.seq >= o.seq
        <4>1. PICK e \in InHand' : touches(e, k) /\ e.seq >= o.seq  BY <3>3
        <4>2. e.seq \in 1..seq /\ seq \in Nat
          BY <4>1, FacadeAssumption DEF Sound, FacadeInv, Shape, FrontShape
        <4>3. e.seq >= n  BY <2>3, <3>1, <4>1, <4>2
        <4>4. QED  BY <4>1, <4>3
      <3>4. QED  BY <2>3, <3>2, <3>3
    <2>4. QED  BY <2>2, <2>3
  <1>6. QED  BY <1>1, <1>2, <1>3, <1>4, <1>5 DEF Promises

\* A step that leaves the same ops in hand.
LEMMA SameHand ==
    ASSUME FacadeInv, UNCHANGED <<memory, seq, issued, disk, last_applied>>,
           InHand' = InHand
    PROVE  Promises'
  <1>1. \A e \in InHand' : Sound(e)  BY DEF FacadeInv, Promises, InHandIsSound
  <1>2. \A o \in InHand : o.seq >= o.seq
    BY HandOps, OpFields DEF FacadeInv, Shape
  <1>3. QED  BY Zenon, <1>1, <1>2, HandStep

-----------------------------------------------------------------------------
(* The callers' steps.                                                      *)

\* put, remove, clear_all: the op is numbered with its change of memory.
LEMMA MutateInv ==
    ASSUME FacadeInv, NEW c \in Callers, NEW o \in Ops, o.seq = seq + 1,
           o.key = AllKeys => o.put = FALSE, Mutate(c, o)
    PROVE  FacadeInv'
  <1>1. /\ FrontShape /\ DiskShape /\ ControlShape /\ LaneShape /\ History /\ InHandIsSound
        /\ WatermarkIsTrue /\ MemoryIsNewest /\ NoneIsLost /\ TodoIsPerKey /\ Stages
    BY DEF FacadeInv, Shape, Promises
  <1>2. /\ seq \in Nat /\ seq + 1 \in 0..MaxOps /\ seq' = seq + 1 /\ Len(issued) = seq
        /\ 1..(seq + 1) = 1..seq \cup {seq + 1}
    BY <1>1, FacadeAssumption DEF FrontShape, Mutate
  <1>3. /\ issued' \in Seq(Ops) /\ Len(issued') = seq + 1 /\ issued'[seq + 1] = o
        /\ \A n \in 1..seq : issued'[n] = issued[n]
    BY <1>1, <1>2 DEF FrontShape, Mutate
  <1>4. content(o) \in Contents
    <2>1. o.seq \in 1..MaxOps  BY <1>2
    <2>2. QED  BY <2>1 DEF content, Contents
  <1>5. FrontShape'
    <2>1. memory' \in [Keys -> Contents]  BY <1>1, <1>4 DEF FrontShape, Mutate
    <2>2. pc' \in [Callers -> {"idle", "send", "full", "parked"}]  BY <1>1 DEF FrontShape, Mutate
    <2>3. op' \in [Callers -> Ops]  BY <1>1 DEF FrontShape, Mutate
    <2>4. QED  BY <1>2, <1>3, <2>1, <2>2, <2>3 DEF FrontShape
  <1>6. DiskShape' /\ ControlShape' /\ LaneShape' /\ TodoIsPerKey'
    BY <1>1 DEF DiskShape, ControlShape, LaneShape, TodoIsPerKey, Mutate, work, health
  <1>7. History'  BY <1>1, <1>2, <1>3 DEF History
  <1>8. \A e : Sound(e) => Sound(e)'  BY <1>2, <1>3 DEF Sound
  <1>9. Sound(o)'  BY <1>2, <1>3 DEF Sound
  <1>10. /\ op' = [op EXCEPT ![c] = o] /\ pc' = [pc EXCEPT ![c] = "send"] /\ pc[c] = "idle"
         /\ UNCHANGED <<queue, overflow, batch, todo, retry>>
    BY DEF Mutate, work
  <1>11. InHand' \subseteq InHand \cup {o} /\ InHand \subseteq InHand' /\ o \in InHand'
    <2>1. ASSUME NEW d \in Callers, d # c PROVE op'[d] = op[d] /\ pc'[d] = pc[d]
      BY <1>1, <1>10, <2>1 DEF FrontShape
    <2>2. op'[c] = o /\ pc'[c] = "send"  BY <1>1, <1>10 DEF FrontShape
    <2>3. Sending' \subseteq Sending \cup {o}  BY <2>1, <2>2 DEF Sending
    <2>4. Sending \subseteq Sending'  BY <1>10, <2>1 DEF Sending
    <2>5. o \in Sending'  BY <2>2 DEF Sending
    <2>6. QED  BY <1>10, <2>3, <2>4, <2>5 DEF InHand
  <1>12. InHandIsSound'  BY <1>1, <1>8, <1>9, <1>11 DEF InHandIsSound
  <1>13. disk' = disk /\ last_applied' = last_applied  BY DEF Mutate, work
  <1>14. WatermarkIsTrue'
    <2>1. SUFFICES ASSUME NEW k \in Keys, last_applied[k] # 0
                   PROVE  /\ last_applied[k] \in 1..(seq + 1)
                          /\ touches(issued'[last_applied[k]], k)
                          /\ disk[k] = content(issued'[last_applied[k]])
      BY <1>2, <1>13 DEF WatermarkIsTrue
    <2>2. /\ last_applied[k] \in 1..seq
          /\ touches(issued[last_applied[k]], k)
          /\ disk[k] = content(issued[last_applied[k]])
      BY <1>1, <2>1 DEF WatermarkIsTrue
    <2>3. issued'[last_applied[k]] = issued[last_applied[k]]  BY Zenon, <1>3, <2>2
    <2>4. QED  BY <1>2, <2>2, <2>3
  <1>15. MemoryIsNewest'
    <2>1. SUFFICES ASSUME NEW k \in Keys
                   PROVE  \/ \E n \in 1..(seq + 1) : Newest(n, k)' /\ memory'[k] = content(issued'[n])
                          \/ /\ \A n \in 1..(seq + 1) : ~touches(issued'[n], k)
                             /\ memory'[k] = disk[k]
      BY <1>2, <1>13 DEF MemoryIsNewest
    <2>2. memory'[k] = IF touches(o, k) THEN content(o) ELSE memory[k]  BY DEF Mutate
    <2>3. CASE touches(o, k)
      <3>1. seq + 1 \in 1..(seq + 1) /\ \A m \in 1..(seq + 1) : m <= seq + 1  BY <1>2
      <3>a. PICK n : n = seq + 1  OBVIOUS
      <3>2. Newest(n, k)'  BY <1>2, <1>3, <2>3, <3>1, <3>a DEF Newest
      <3>3. memory'[k] = content(issued'[n])  BY <1>3, <2>2, <2>3, <3>a
      <3>4. QED  BY <3>1, <3>2, <3>3, <3>a
    <2>4. CASE ~touches(o, k)
      <3>1. memory'[k] = memory[k]  BY <2>2, <2>4
      <3>2. CASE \E n \in 1..seq : Newest(n, k) /\ memory[k] = content(issued[n])
        <4>1. PICK n \in 1..seq : Newest(n, k) /\ memory[k] = content(issued[n])  BY <3>2
        <4>2. \A m \in 1..seq : touches(issued[m], k) => m <= n  BY Zenon, <4>1 DEF Newest
        <4>3. touches(issued[n], k)  BY <4>1 DEF Newest
        <4>4. \A m \in 1..(seq + 1) : touches(issued'[m], k) => m <= n  BY <1>2, <1>3, <2>4, <4>2
        <4>5. n \in 1..(seq + 1) /\ issued'[n] = issued[n]  BY <1>2, <1>3
        <4>6. Newest(n, k)'  BY <1>2, <4>3, <4>4, <4>5 DEF Newest
        <4>7. QED  BY Zenon, <3>1, <4>1, <4>5, <4>6
      <3>3. CASE (\A n \in 1..seq : ~touches(issued[n], k)) /\ memory[k] = disk[k]
        <4>1. \A n \in 1..(seq + 1) : ~touches(issued'[n], k)  BY <1>2, <1>3, <2>4, <3>3
        <4>2. QED  BY <3>1, <3>3, <4>1
      <3>4. QED  BY Zenon, <1>1, <3>2, <3>3 DEF MemoryIsNewest
    <2>5. QED  BY <2>3, <2>4
  <1>16. NoneIsLost'
    <2>1. SUFFICES ASSUME NEW k \in Keys, NEW n \in 1..(seq + 1), touches(issued'[n], k)
                   PROVE  last_applied[k] >= n \/ \E e \in InHand' : touches(e, k) /\ e.seq >= n
      BY <1>2, <1>13 DEF NoneIsLost
    <2>2. CASE n = seq + 1
      <3>1. touches(o, k) /\ o.seq >= n  BY <1>2, <1>3, <2>1, <2>2
      <3>2. QED  BY <1>11, <3>1
    <2>3. CASE n \in 1..seq
      <3>1. touches(issued[n], k)  BY <1>3, <2>1, <2>3
      <3>2. last_applied[k] >= n \/ \E e \in InHand : touches(e, k) /\ e.seq >= n
        BY Zenon, <1>1, <2>3, <3>1 DEF NoneIsLost
      <3>3. QED  BY <1>11, <3>2
    <2>4. QED  BY <1>2, <2>2, <2>3
  <1>17. Stages'
    <2>1. join = "open" /\ UNCHANGED <<queue, overflow, failed, join, worker, back, batch, todo, retry>>
      BY DEF Mutate, health, work
    <2>2. QED  BY <1>1, <2>1 DEF Stages
  <1>18. QED  BY <1>5, <1>6, <1>7, <1>12, <1>14, <1>15, <1>16, <1>17 DEF FacadeInv, Shape, Promises

\* put refuses an oversized value before it has a number.
LEMMA PutTooLargeInv ==
    ASSUME FacadeInv, NEW c \in Callers, PutTooLarge(c) PROVE FacadeInv'
  <1>1. /\ FrontShape /\ DiskShape /\ ControlShape /\ LaneShape /\ TodoIsPerKey /\ Stages
    BY DEF FacadeInv, Shape
  <1>2. UNCHANGED <<memory, seq, pc, op, issued, queue, overflow, join, worker, back, batch, todo,
                    retry, last_applied, disk>> /\ failed' = TRUE
    BY DEF PutTooLarge, frontend, work
  <1>s. Sending' = Sending  BY Zenon, <1>2 DEF Sending
  <1>3. FrontShape' /\ DiskShape' /\ ControlShape' /\ LaneShape' /\ TodoIsPerKey'
    BY <1>1, <1>2 DEF FrontShape, DiskShape, ControlShape, LaneShape, TodoIsPerKey
  <1>4. Stages'  BY <1>1, <1>2 DEF Stages
  <1>5. InHand' = InHand  BY Zenon, <1>2, <1>s DEF InHand
  <1>6. Promises'  BY <1>2, <1>5, SameHand
  <1>7. QED  BY <1>3, <1>4, <1>6 DEF FacadeInv, Shape

\* A full queue is noted; the op stays with its caller.
LEMMA RecordBackpressureInv ==
    ASSUME FacadeInv, NEW c \in Callers, RecordBackpressure(c) PROVE FacadeInv'
  <1>1. /\ FrontShape /\ DiskShape /\ ControlShape /\ LaneShape /\ TodoIsPerKey /\ Stages
    BY DEF FacadeInv, Shape
  <1>2. /\ UNCHANGED <<memory, seq, op, issued, queue, overflow, join, worker, back, batch, todo,
                       retry, last_applied, disk>>
        /\ failed' = TRUE /\ pc[c] = "parked" /\ pc' = [pc EXCEPT ![c] = "idle"]
    BY DEF RecordBackpressure, work
  <1>3. FrontShape'  BY <1>1, <1>2 DEF FrontShape
  <1>a. DiskShape' /\ ControlShape' /\ LaneShape' /\ TodoIsPerKey'
    BY <1>1, <1>2 DEF DiskShape, ControlShape, LaneShape, TodoIsPerKey
  <1>b. \A d \in Callers : pc'[d] = IF d = c THEN "idle" ELSE pc[d]  BY <1>1, <1>2 DEF FrontShape
  <1>4. Stages'  BY <1>1, <1>2, <1>b DEF Stages
  <1>5. InHand' = InHand
    <2>1. ASSUME NEW d \in Callers PROVE pc[d] \in {"send", "full"} <=> pc'[d] \in {"send", "full"}
      BY <1>2, <1>b
    <2>a. Sending' \subseteq Sending  BY <1>2, <2>1 DEF Sending
    <2>b. Sending \subseteq Sending'  BY <1>2, <2>1 DEF Sending
    <2>2. QED  BY <1>2, <2>a, <2>b DEF InHand
  <1>6. Promises'  BY <1>2, <1>5, SameHand
  <1>7. QED  BY <1>3, <1>4, <1>6, <1>a DEF FacadeInv, Shape

\* try_send moves the op from the caller to the queue.
LEMMA SendInv ==
    ASSUME FacadeInv, NEW c \in Callers, Send(c) PROVE FacadeInv'
  <1>1. /\ FrontShape /\ DiskShape /\ ControlShape /\ LaneShape /\ TodoIsPerKey /\ Stages
    BY DEF FacadeInv, Shape
  <1>2. /\ UNCHANGED <<memory, seq, issued, overflow, failed, join, worker, back, batch, todo,
                       retry, last_applied, disk>>
        /\ pc[c] = "send"
    BY DEF Send, work, health
  <1>3. DiskShape' /\ ControlShape' /\ TodoIsPerKey'
    BY <1>1, <1>2 DEF DiskShape, ControlShape, TodoIsPerKey
  <1>4. join = "open"  BY <1>1, <1>2 DEF Stages
  <1>5. worker # "final" /\ back # "end"  BY <1>1, <1>4 DEF Stages
  <1>6. Stages'  BY <1>1, <1>2, <1>4, <1>5 DEF Stages
  <1>7. CASE Len(queue) < QUEUE_BOUND
    <2>1. /\ queue' = Append(queue, op[c]) /\ op' = [op EXCEPT ![c] = NoOp]
          /\ pc' = [pc EXCEPT ![c] = "idle"]
      BY <1>7 DEF Send
    <2>2. NoOp \in Ops /\ op[c] \in Ops /\ queue \in Seq(Ops)
      BY <1>1, FacadeAssumption DEF NoOp, Op, Ops, FrontShape, LaneShape
    <2>3. PICK o, q : o = op[c] /\ q = queue'  OBVIOUS
    <2>4. q \in Seq(Ops) /\ Len(q) = Len(queue) + 1 /\ Range(q) = Range(queue) \cup {o}
      BY Zenon, <2>1, <2>2, <2>3, RangeAppend
    <2>5. FrontShape'  BY <1>1, <1>2, <2>1, <2>2 DEF FrontShape
    <2>6. LaneShape'
      <3>1. Len(queue') <= QUEUE_BOUND  BY <1>7, <2>2, <2>3, <2>4, FacadeAssumption
      <3>2. QED  BY <1>1, <1>2, <2>3, <2>4, <3>1 DEF LaneShape
    <2>7. \A d \in Callers : d # c => op'[d] = op[d] /\ pc'[d] = pc[d]  BY <1>1, <2>1 DEF FrontShape
    <2>8. pc'[c] = "idle"  BY <1>1, <2>1 DEF FrontShape
    <2>9. Sending' \subseteq Sending  BY <2>7, <2>8 DEF Sending
    <2>10. Sending \subseteq Sending' \cup {o}  BY <2>3, <2>7 DEF Sending
    <2>11. o \in Sending  BY <1>2, <2>3 DEF Sending
    <2>12. InHand' = InHand  BY <1>2, <2>3, <2>4, <2>9, <2>10, <2>11 DEF InHand
    <2>13. Promises'  BY <1>2, <2>12, SameHand
    <2>14. QED  BY <1>3, <1>6, <2>5, <2>6, <2>13 DEF FacadeInv, Shape
  <1>8. CASE ~(Len(queue) < QUEUE_BOUND)
    <2>1. queue' = queue /\ op' = op /\ pc' = [pc EXCEPT ![c] = "full"]  BY <1>8 DEF Send
    <2>2. FrontShape'  BY <1>1, <1>2, <2>1 DEF FrontShape
    <2>3. LaneShape'  BY <1>1, <1>2, <2>1 DEF LaneShape
    <2>4. \A d \in Callers : pc'[d] = IF d = c THEN "full" ELSE pc[d]  BY <1>1, <2>1 DEF FrontShape
    <2>a. ASSUME NEW d \in Callers PROVE pc[d] \in {"send", "full"} <=> pc'[d] \in {"send", "full"}
      BY <1>2, <2>4
    <2>b. Sending' \subseteq Sending  BY <2>1, <2>a DEF Sending
    <2>c. Sending \subseteq Sending'  BY <2>1, <2>a DEF Sending
    <2>6. InHand' = InHand  BY <1>2, <2>1, <2>b, <2>c DEF InHand
    <2>7. Promises'  BY <1>2, <2>6, SameHand
    <2>8. QED  BY <1>3, <1>6, <2>2, <2>3, <2>7 DEF FacadeInv, Shape
  <1>9. QED  BY <1>7, <1>8

\* What a sound op does to one key is sound.
LEMMA PartSound ==
    ASSUME NEW o, Sound(o), NEW e, Part(e, o) PROVE Sound(e) /\ e.key \in Keys
  <1>1. e.key \in Keys /\ touches(o, e.key) /\ e.seq = o.seq /\ e.put = o.put
    BY DEF Part
  <1>2. /\ o.seq \in 1..seq /\ o.put = issued[o.seq].put
        /\ \A k \in Keys : touches(o, k) => touches(issued[o.seq], k)
    BY DEF Sound
  <1>3. e.key # AllKeys  BY <1>1, KeysAssumption DEF Keys, AllKeys
  <1>4. ASSUME NEW k \in Keys, touches(e, k) PROVE touches(issued[e.seq], k)
    <2>1. k = e.key  BY <1>1, <1>4, TouchesItsKey
    <2>2. QED  BY <1>1, <1>2, <2>1
  <1>5. QED  BY <1>1, <1>2, <1>3, <1>4 DEF Sound

\* A caller that met a full queue parks its op in the overflow lane.
LEMMA ParkInv ==
    ASSUME FacadeInv, NEW c \in Callers, Park(c) PROVE FacadeInv'
  <1>1. /\ FrontShape /\ DiskShape /\ ControlShape /\ LaneShape /\ TodoIsPerKey /\ Stages
        /\ InHandIsSound
    BY DEF FacadeInv, Shape, Promises
  <1>2. /\ UNCHANGED <<memory, seq, issued, queue, failed, join, worker, back, batch, todo,
                       retry, last_applied, disk>>
        /\ pc[c] = "full" /\ op' = [op EXCEPT ![c] = NoOp] /\ pc' = [pc EXCEPT ![c] = "parked"]
        /\ overflow' = parked(overflow, expand_per_key(op[c]))
    BY DEF Park, work, health
  <1>3. DiskShape' /\ ControlShape'  BY <1>1, <1>2 DEF DiskShape, ControlShape
  <1>4. join = "open"  BY <1>1, <1>2 DEF Stages
  <1>5. worker # "final" /\ back # "end"  BY <1>1, <1>4 DEF Stages
  <1>6. Stages'  BY <1>1, <1>2, <1>4, <1>5 DEF Stages
  <1>7. PICK o, x, v : o = op[c] /\ x = expand_per_key(o) /\ v = overflow'  OBVIOUS
  <1>8. NoOp \in Ops /\ o \in Ops /\ overflow \in Lanes
    BY <1>1, <1>7, FacadeAssumption DEF NoOp, Op, Ops, FrontShape, LaneShape
  <1>9. o \in Sending /\ Sending \subseteq InHand  BY <1>2, <1>7 DEF Sending, InHand
  <1>10. Sound(o)  BY <1>1, <1>9 DEF InHandIsSound
  <1>11. /\ x \in Seq(Ops) /\ \A e \in Range(x) : Part(e, o)
         /\ \A k \in Keys : touches(o, k) => \E e \in Range(x) : e.key = k /\ e.seq = o.seq
    <2>1. o.key = AllKeys => o.put = FALSE  BY Zenon, <1>10 DEF Sound
    <2>2. o \in Ops /\ x = expand_per_key(o)  BY <1>7, <1>8
    <2>3. x \in Seq(Ops)  BY Zenon, <2>2, ExpandPerKey
    <2>4. \A e \in Range(x) : Part(e, o)  BY Zenon, <2>1, <2>2, ExpandPerKey
    <2>5. \A k \in Keys : touches(o, k) => \E e \in Range(x) : e.key = k /\ e.seq = o.seq
      BY Zenon, <2>2, ExpandPerKey
    <2>6. QED  BY <2>3, <2>4, <2>5
  <1>12. /\ v \in Lanes /\ Range(v) \subseteq Range(overflow) \cup Range(x)
         /\ \A e \in Range(overflow) \cup Range(x) : Covers(Range(v), e)
    BY <1>2, <1>7, <1>8, <1>11, Parked
  <1>13. FrontShape'  BY <1>1, <1>2, <1>8 DEF FrontShape
  <1>14. LaneShape'  BY <1>1, <1>2, <1>7, <1>12 DEF LaneShape
  <1>15. \A e \in Range(x) : Sound(e) /\ e.key \in Keys  BY <1>10, <1>11, PartSound
  <1>16. TodoIsPerKey'  BY <1>1, <1>2, <1>7, <1>12, <1>15 DEF TodoIsPerKey
  <1>17. \A d \in Callers : d # c => op'[d] = op[d] /\ pc'[d] = pc[d]  BY <1>1, <1>2 DEF FrontShape
  <1>18. pc'[c] = "parked"  BY <1>1, <1>2 DEF FrontShape
  <1>19. Sending' \subseteq Sending  BY <1>17, <1>18 DEF Sending
  <1>20. Sending \subseteq Sending' \cup {o}  BY <1>7, <1>17 DEF Sending
  <1>21. InHand' \subseteq InHand \cup Range(x)
    BY <1>2, <1>7, <1>12, <1>19 DEF InHand
  <1>22. InHand \subseteq InHand' \cup {o} \cup Range(overflow) /\ Range(v) \subseteq InHand'
    BY <1>2, <1>7, <1>20 DEF InHand
  <1>23. \A e \in InHand' : Sound(e)  BY <1>1, <1>15, <1>21 DEF InHandIsSound
  <1>24. Range(x) \subseteq Ops /\ Range(overflow) \subseteq Ops /\ Range(v) \subseteq Ops /\ InHand \subseteq Ops
    BY Zenon, <1>1, <1>11, <1>12, HandOps, RangeIn DEF Lanes
  <1>25. ASSUME NEW d \in InHand, NEW k \in Keys, touches(d, k)
         PROVE \E e \in InHand' : touches(e, k) /\ e.seq >= d.seq
    <2>1. CASE d \in InHand'  BY <1>24, <1>25, <2>1, OpFields
    <2>2. CASE d \in Range(overflow)
      <3>1. PICK e \in Range(v) : e.key = d.key /\ e.seq >= d.seq  BY Zenon, <1>12, <2>2 DEF Covers
      <3>2. QED  BY <1>22, <1>25, <3>1 DEF touches
    <2>3. CASE d = o
      <3>1. PICK b \in Range(x) : b.key = k /\ b.seq = o.seq  BY <1>11, <1>25, <2>3
      <3>2. PICK e \in Range(v) : e.key = b.key /\ e.seq >= b.seq  BY Zenon, <1>12, <3>1 DEF Covers
      <3>3. QED  BY <1>22, <2>3, <3>1, <3>2 DEF touches
    <2>4. QED  BY <1>22, <2>1, <2>2, <2>3
  <1>26. Promises'  BY Zenon, <1>2, <1>23, <1>25, HandStep
  <1>27. QED  BY <1>3, <1>6, <1>13, <1>14, <1>16, <1>26 DEF FacadeInv, Shape

\* Drop closes the channel and waits.
LEMMA DropFacadeInv ==
    ASSUME FacadeInv, DropFacade PROVE FacadeInv'
  <1>1. /\ FrontShape /\ DiskShape /\ ControlShape /\ LaneShape /\ TodoIsPerKey /\ Stages
    BY DEF FacadeInv, Shape
  <1>2. /\ UNCHANGED <<memory, seq, pc, op, issued, queue, overflow, failed, worker, back, batch, todo,
                       retry, last_applied, disk>>
        /\ join' = "joining" /\ \A c \in Callers : pc[c] = "idle"
    BY DEF DropFacade, frontend, work
  <1>s. Sending' = Sending  BY Zenon, <1>2 DEF Sending
  <1>3. FrontShape' /\ DiskShape' /\ ControlShape' /\ LaneShape' /\ TodoIsPerKey'
    BY <1>1, <1>2 DEF FrontShape, DiskShape, ControlShape, LaneShape, TodoIsPerKey
  <1>4. Stages'  BY <1>1, <1>2 DEF Stages
  <1>5. InHand' = InHand  BY Zenon, <1>2, <1>s DEF InHand
  <1>6. Promises'  BY <1>2, <1>5, SameHand
  <1>7. QED  BY <1>3, <1>4, <1>6 DEF FacadeInv, Shape

\* The join returns and reports what the worker left.
LEMMA JoinReturnsInv ==
    ASSUME FacadeInv, JoinReturns PROVE FacadeInv'
  <1>1. /\ FrontShape /\ DiskShape /\ ControlShape /\ LaneShape /\ TodoIsPerKey /\ Stages
    BY DEF FacadeInv, Shape
  <1>2. /\ UNCHANGED <<memory, seq, pc, op, issued, queue, overflow, worker, back, batch, todo,
                       retry, last_applied, disk>>
        /\ join = "joining" /\ join' = "returned" /\ (failed' = failed \/ failed' = TRUE)
    BY DEF JoinReturns, frontend, work
  <1>s. Sending' = Sending  BY Zenon, <1>2 DEF Sending
  <1>3. FrontShape' /\ DiskShape' /\ ControlShape' /\ LaneShape' /\ TodoIsPerKey'
    BY Zenon, <1>1, <1>2 DEF FrontShape, DiskShape, ControlShape, LaneShape, TodoIsPerKey
  <1>4. Stages'  BY <1>1, <1>2 DEF Stages
  <1>5. InHand' = InHand  BY Zenon, <1>2, <1>s DEF InHand
  <1>6. Promises'  BY <1>2, <1>5, SameHand
  <1>7. QED  BY <1>3, <1>4, <1>6 DEF FacadeInv, Shape

-----------------------------------------------------------------------------
(* The worker's steps.                                                      *)

\* What apply_pass makes of sound ops is sound, per key, and covers them.
LEMMA PassSound ==
    ASSUME NEW ops \in Seq(Ops), \A o \in Range(ops) : Sound(o), NEW t, t = coalesced(ops)
    PROVE  /\ t \in Seq(Ops) /\ \A e \in Range(t) : Sound(e) /\ e.key \in Keys
           /\ \A o \in Range(ops), k \in Keys : touches(o, k) =>
                 \E e \in Range(t) : touches(e, k) /\ e.seq >= o.seq
  <1>1. \A o \in Range(ops) : o.key = AllKeys => o.put = FALSE  BY Zenon DEF Sound
  <1>2. /\ t \in Seq(Ops)
        /\ \A e \in Range(t) : \E o \in Range(ops) : Part(e, o)
        /\ \A o \in Range(ops), k \in Keys : touches(o, k) =>
              \E e \in Range(t) : e.key = k /\ e.seq >= o.seq
    BY Zenon, <1>1, Coalesced
  <1>3. \A e \in Range(t) : Sound(e) /\ e.key \in Keys  BY <1>2, PartSound
  <1>4. \A e, k : e.key = k => touches(e, k)  BY DEF touches
  <1>5. QED  BY <1>2, <1>3, <1>4

\* The worker takes the retry lane when its backoff is over.
LEMMA TakeReadyInv ==
    ASSUME FacadeInv, TakeReady PROVE FacadeInv'
  <1>1. /\ FrontShape /\ DiskShape /\ ControlShape /\ LaneShape /\ TodoIsPerKey /\ Stages
        /\ InHandIsSound
    BY DEF FacadeInv, Shape, Promises
  <1>2. /\ UNCHANGED <<memory, seq, pc, op, issued, queue, failed, join, batch, last_applied, disk>>
        /\ worker = "top" /\ worker' = "apply" /\ back' = "recv" /\ overflow' = <<>>
    BY DEF TakeReady, apply_pass, frontend, health
  <1>s. Sending' = Sending  BY Zenon, <1>2 DEF Sending
  <1>3. PICK n \in 0..Len(retry) :
            /\ todo' = coalesced(SubSeq(retry, 1, n) \o overflow)
            /\ retry' = SubSeq(retry, n + 1, Len(retry))
    BY DEF TakeReady, apply_pass
  <1>4. PICK y, v, a, b, ops, t :
            /\ y = retry /\ v = overflow /\ a = Front(y, n) /\ b = Rest(y, n)
            /\ ops = a \o v /\ t = coalesced(ops)
    BY Zenon
  <1>5. /\ y \in Seq(Ops) /\ OneOpAKey(y) /\ v \in Seq(Ops) /\ n \in 0..Len(y)
        /\ b = retry' /\ t = todo'
    BY <1>1, <1>3, <1>4 DEF LaneShape, Lanes, Front, Rest
  <1>a. a \in Seq(Ops) /\ b \in Seq(Ops) /\ Range(y) = Range(a) \cup Range(b) /\ OneOpAKey(b)
    <2>1. y \in Seq(Ops) /\ n \in 0..Len(y) /\ a = Front(y, n) /\ b = Rest(y, n)  BY <1>4, <1>5
    <2>2. /\ a \in Seq(Ops) /\ b \in Seq(Ops) /\ Range(y) = Range(a) \cup Range(b)
          /\ OneOpAKey(y) => OneOpAKey(b)
      BY <2>1, RangeSplit
    <2>3. QED  BY <1>5, <2>2
  <1>b. ops \in Seq(Ops) /\ Range(ops) = Range(a) \cup Range(v)
    <2>1. a \in Seq(Ops) /\ v \in Seq(Ops) /\ ops = a \o v  BY <1>4, <1>5, <1>a
    <2>2. QED  BY Zenon, <2>1, RangeConcat
  <1>6. a \in Seq(Ops) /\ b \in Seq(Ops) /\ Range(retry) = Range(a) \cup Range(b) /\ OneOpAKey(b)
    BY <1>4, <1>a
  <1>7. ops \in Seq(Ops) /\ Range(ops) = Range(a) \cup Range(overflow)
    BY <1>4, <1>b
  <1>8. \A o \in Range(ops) : Sound(o)
    BY <1>1, <1>6, <1>7 DEF InHandIsSound, InHand
  <1>9. /\ t \in Seq(Ops) /\ \A e \in Range(t) : Sound(e) /\ e.key \in Keys
        /\ \A o \in Range(ops), k \in Keys : touches(o, k) =>
              \E e \in Range(t) : touches(e, k) /\ e.seq >= o.seq
    BY Zenon, <1>4, <1>7, <1>8, PassSound
  <1>10. FrontShape' /\ DiskShape'  BY <1>1, <1>2 DEF FrontShape, DiskShape
  <1>11. ControlShape'  BY <1>1, <1>2 DEF ControlShape
  <1>12. LaneShape'  BY <1>1, <1>2, <1>5, <1>6, <1>9, RangeEmpty DEF LaneShape, Lanes
  <1>13. TodoIsPerKey'  BY <1>1, <1>2, <1>5, <1>6, <1>9, RangeEmpty DEF TodoIsPerKey
  <1>14. Stages'  BY <1>1, <1>2 DEF Stages
  <1>15. todo = <<>>  BY <1>1, <1>2 DEF Stages
  <1>16. InHand' \subseteq InHand \cup Range(t)
    BY <1>2, <1>5, <1>6, <1>s, RangeEmpty DEF InHand
  <1>17. InHand \subseteq InHand' \cup Range(ops) /\ Range(t) \subseteq InHand'
    BY <1>2, <1>5, <1>6, <1>7, <1>15, <1>s, RangeEmpty DEF InHand
  <1>18. \A e \in InHand' : Sound(e)  BY <1>1, <1>9, <1>16 DEF InHandIsSound
  <1>19. ASSUME NEW d \in InHand, NEW k \in Keys, touches(d, k)
         PROVE \E e \in InHand' : touches(e, k) /\ e.seq >= d.seq
    <2>1. CASE d \in InHand'  BY <1>1, <1>19, <2>1, HandOps, OpFields
    <2>2. CASE d \in Range(ops)  BY <1>9, <1>17, <1>19, <2>2
    <2>3. QED  BY <1>17, <2>1, <2>2
  <1>20. Promises'  BY Zenon, <1>2, <1>18, <1>19, HandStep
  <1>21. QED  BY <1>10, <1>11, <1>12, <1>13, <1>14, <1>20 DEF FacadeInv, Shape

\* The channel is closed: the worker makes a last pass over the lanes.
LEMMA FinalPassInv ==
    ASSUME FacadeInv, FinalPass PROVE FacadeInv'
  <1>1. /\ FrontShape /\ DiskShape /\ ControlShape /\ LaneShape /\ TodoIsPerKey /\ Stages
        /\ InHandIsSound
    BY DEF FacadeInv, Shape, Promises
  <1>2. /\ UNCHANGED <<memory, seq, pc, op, issued, queue, failed, join, batch, last_applied, disk>>
        /\ worker = "final" /\ worker' = "apply" /\ back' = "end" /\ overflow' = <<>> /\ retry' = <<>>
        /\ todo' = coalesced(overflow \o retry)
    BY DEF FinalPass, apply_pass, final_pass, frontend, health
  <1>s. Sending' = Sending  BY Zenon, <1>2 DEF Sending
  <1>3. PICK ops, t : ops = overflow \o retry /\ t = todo'  BY Zenon
  <1>4. retry \in Seq(Ops) /\ overflow \in Seq(Ops)  BY <1>1 DEF LaneShape, Lanes
  <1>5. ops \in Seq(Ops) /\ Range(ops) = Range(overflow) \cup Range(retry)
    BY Zenon, <1>3, <1>4, RangeConcat
  <1>6. \A o \in Range(ops) : Sound(o)  BY <1>1, <1>5 DEF InHandIsSound, InHand
  <1>7. /\ t \in Seq(Ops) /\ \A e \in Range(t) : Sound(e) /\ e.key \in Keys
        /\ \A o \in Range(ops), k \in Keys : touches(o, k) =>
              \E e \in Range(t) : touches(e, k) /\ e.seq >= o.seq
    BY Zenon, <1>2, <1>3, <1>5, <1>6, PassSound
  <1>10. FrontShape' /\ DiskShape'  BY <1>1, <1>2 DEF FrontShape, DiskShape
  <1>11. ControlShape'  BY <1>1, <1>2 DEF ControlShape
  <1>12. LaneShape'  BY <1>1, <1>2, <1>3, <1>7, RangeEmpty DEF LaneShape, Lanes
  <1>13. TodoIsPerKey'  BY <1>2, <1>3, <1>7, RangeEmpty DEF TodoIsPerKey
  <1>14. Stages'  BY <1>1, <1>2 DEF Stages
  <1>15. todo = <<>>  BY <1>1, <1>2 DEF Stages
  <1>16. InHand' \subseteq InHand \cup Range(t)  BY <1>2, <1>3, <1>s, RangeEmpty DEF InHand
  <1>17. InHand \subseteq InHand' \cup Range(ops) /\ Range(t) \subseteq InHand'
    BY <1>2, <1>3, <1>5, <1>15, <1>s, RangeEmpty DEF InHand
  <1>18. \A e \in InHand' : Sound(e)  BY <1>1, <1>7, <1>16 DEF InHandIsSound
  <1>19. ASSUME NEW d \in InHand, NEW k \in Keys, touches(d, k)
         PROVE \E e \in InHand' : touches(e, k) /\ e.seq >= d.seq
    <2>1. CASE d \in InHand'  BY <1>1, <1>19, <2>1, HandOps, OpFields
    <2>2. CASE d \in Range(ops)  BY <1>7, <1>17, <1>19, <2>2
    <2>3. QED  BY <1>17, <2>1, <2>2
  <1>20. Promises'  BY Zenon, <1>2, <1>18, <1>19, HandStep
  <1>21. QED  BY <1>10, <1>11, <1>12, <1>13, <1>14, <1>20 DEF FacadeInv, Shape

\* The worker looks whether the overflow lane has ops.
LEMMA CheckOverflowInv ==
    ASSUME FacadeInv, CheckOverflow PROVE FacadeInv'
  <1>1. /\ FrontShape /\ DiskShape /\ ControlShape /\ LaneShape /\ TodoIsPerKey /\ Stages
    BY DEF FacadeInv, Shape
  <1>2. /\ UNCHANGED <<memory, seq, pc, op, issued, queue, overflow, join, back, batch, todo, retry,
                       last_applied, disk, failed>>
        /\ worker = "applied" /\ worker' \in {"recover", "apply"}
    BY DEF CheckOverflow, frontend, health
  <1>s. Sending' = Sending  BY Zenon, <1>2 DEF Sending
  <1>3. FrontShape' /\ DiskShape' /\ LaneShape' /\ TodoIsPerKey'
    BY <1>1, <1>2 DEF FrontShape, DiskShape, LaneShape, TodoIsPerKey
  <1>a. ControlShape'  BY <1>1, <1>2 DEF ControlShape
  <1>4. Stages'  BY <1>1, <1>2 DEF Stages
  <1>5. InHand' = InHand  BY Zenon, <1>2, <1>s DEF InHand
  <1>6. Promises'  BY <1>2, <1>5, SameHand
  <1>7. QED  BY <1>3, <1>4, <1>6, <1>a DEF FacadeInv, Shape

\* A pass without a failure ends the degraded state.
LEMMA note_recoveredInv ==
    ASSUME FacadeInv, note_recovered PROVE FacadeInv'
  <1>1. /\ FrontShape /\ DiskShape /\ ControlShape /\ LaneShape /\ TodoIsPerKey /\ Stages
    BY DEF FacadeInv, Shape
  <1>2. /\ UNCHANGED <<memory, seq, pc, op, issued, queue, overflow, join, back, batch, todo, retry,
                       last_applied, disk>>
        /\ worker = "recover" /\ worker' = "apply" /\ failed' = FALSE
    BY DEF note_recovered, frontend
  <1>s. Sending' = Sending  BY Zenon, <1>2 DEF Sending
  <1>3. FrontShape' /\ DiskShape' /\ LaneShape' /\ TodoIsPerKey'
    BY <1>1, <1>2 DEF FrontShape, DiskShape, LaneShape, TodoIsPerKey
  <1>a. ControlShape'  BY Zenon, <1>1, <1>2 DEF ControlShape
  <1>4. Stages'  BY <1>1, <1>2 DEF Stages
  <1>5. InHand' = InHand  BY Zenon, <1>2, <1>s DEF InHand
  <1>6. Promises'  BY <1>2, <1>5, SameHand
  <1>7. QED  BY <1>3, <1>4, <1>6, <1>a DEF FacadeInv, Shape

\* A pass ends with nothing left to apply.
LEMMA PassEndsInv ==
    ASSUME FacadeInv, PassEnds PROVE FacadeInv'
  <1>1. /\ FrontShape /\ DiskShape /\ ControlShape /\ LaneShape /\ TodoIsPerKey /\ Stages
    BY DEF FacadeInv, Shape
  <1>2. /\ UNCHANGED <<memory, seq, pc, op, issued, queue, overflow, join, back, batch, todo, retry,
                       last_applied, disk, failed>>
        /\ worker = "apply" /\ todo = <<>> /\ worker' = back
    BY DEF PassEnds, frontend, health
  <1>s. Sending' = Sending  BY Zenon, <1>2 DEF Sending
  <1>3. FrontShape' /\ DiskShape' /\ LaneShape' /\ TodoIsPerKey'
    BY <1>1, <1>2 DEF FrontShape, DiskShape, LaneShape, TodoIsPerKey
  <1>a. ControlShape'  BY <1>1, <1>2 DEF ControlShape
  <1>b. back \in {"top", "recv", "end"}  BY <1>1 DEF ControlShape
  <1>4. Stages'  BY <1>1, <1>2, <1>b DEF Stages
  <1>5. InHand' = InHand  BY Zenon, <1>2, <1>s DEF InHand
  <1>6. Promises'  BY <1>2, <1>5, SameHand
  <1>7. QED  BY <1>3, <1>4, <1>6, <1>a DEF FacadeInv, Shape

\* The worker thread returns.
LEMMA WorkerEndsInv ==
    ASSUME FacadeInv, WorkerEnds PROVE FacadeInv'
  <1>1. /\ FrontShape /\ DiskShape /\ ControlShape /\ LaneShape /\ TodoIsPerKey /\ Stages
    BY DEF FacadeInv, Shape
  <1>2. /\ UNCHANGED <<memory, seq, pc, op, issued, queue, overflow, join, back, batch, todo, retry,
                       last_applied, disk>>
        /\ worker = "end" /\ worker' = "ended" /\ failed' = (failed \/ retry # <<>>)
    BY DEF WorkerEnds, frontend
  <1>s. Sending' = Sending  BY Zenon, <1>2 DEF Sending
  <1>3. FrontShape' /\ DiskShape' /\ LaneShape' /\ TodoIsPerKey'
    BY <1>1, <1>2 DEF FrontShape, DiskShape, LaneShape, TodoIsPerKey
  <1>a. ControlShape'  BY <1>1, <1>2 DEF ControlShape
  <1>4. Stages'  BY Zenon, <1>1, <1>2 DEF Stages
  <1>5. InHand' = InHand  BY Zenon, <1>2, <1>s DEF InHand
  <1>6. Promises'  BY <1>2, <1>5, SameHand
  <1>7. QED  BY <1>3, <1>4, <1>6, <1>a DEF FacadeInv, Shape

\* The worker receives an op, or the overflow lane, and begins a batch.
LEMMA ReceiveInv ==
    ASSUME FacadeInv, Receive PROVE FacadeInv'
  <1>1. /\ FrontShape /\ DiskShape /\ ControlShape /\ LaneShape /\ TodoIsPerKey /\ Stages
    BY DEF FacadeInv, Shape
  <1>2. /\ UNCHANGED <<memory, seq, pc, op, issued, overflow, failed, join, back, todo, retry,
                       last_applied, disk>>
        /\ worker = "recv"
    BY DEF Receive, frontend, health
  <1>s. Sending' = Sending  BY Zenon, <1>2 DEF Sending
  <1>3. FrontShape' /\ DiskShape' /\ TodoIsPerKey'
    BY <1>1, <1>2 DEF FrontShape, DiskShape, TodoIsPerKey
  <1>4. batch = <<>> /\ todo = <<>> /\ back # "end"  BY <1>1, <1>2 DEF Stages
  <1>5. CASE queue # <<>> /\ batch' = <<Head(queue)>> /\ queue' = Tail(queue) /\ worker' = "fill"
    <2>1. PICK h, q, b : h = Head(queue) /\ q = queue' /\ b = batch'  OBVIOUS
    <2>2. queue \in Seq(Ops)  BY <1>1 DEF LaneShape
    <2>3. /\ h \in Ops /\ q \in Seq(Ops) /\ Len(q) = Len(queue) - 1
          /\ Range(queue) = {h} \cup Range(q)
      BY <1>5, <2>1, <2>2, RangeHead
    <2>4. b \in Seq(Ops) /\ Len(b) = 1 /\ Range(b) = {h}
      <3>1. b = <<h>>  BY <1>5, <2>1
      <3>2. b \in Seq(Ops) /\ Len(b) = 1 /\ DOMAIN b = {1} /\ b[1] = h  BY <2>3, <3>1
      <3>3. QED  BY <3>2 DEF Range
    <2>5. Len(q) <= QUEUE_BOUND /\ 1 <= QUEUE_BOUND
      BY <1>1, <2>2, <2>3, FacadeAssumption DEF LaneShape
    <2>6. LaneShape'  BY <1>1, <1>2, <2>1, <2>3, <2>4, <2>5 DEF LaneShape
    <2>7. ControlShape'  BY <1>1, <1>2, <1>5 DEF ControlShape
    <2>8. Stages'  BY <1>1, <1>2, <1>4, <1>5 DEF Stages
    <2>9. InHand' = InHand  BY <1>2, <1>4, <2>1, <2>3, <2>4, <1>s, RangeEmpty DEF InHand
    <2>10. Promises'  BY <1>2, <2>9, SameHand
    <2>11. QED  BY <1>3, <2>6, <2>7, <2>8, <2>10 DEF FacadeInv, Shape
  <1>6. CASE /\ queue = <<>> /\ queue' = queue /\ batch' = batch
             /\ worker' = "fill" \/ (worker' = "final" /\ join # "open")
    <2>1. LaneShape'  BY <1>1, <1>2, <1>6 DEF LaneShape
    <2>2. ControlShape'  BY <1>1, <1>2, <1>6 DEF ControlShape
    <2>3. Stages'  BY <1>1, <1>2, <1>4, <1>6 DEF Stages
    <2>4. InHand' = InHand  BY <1>2, <1>6, <1>s DEF InHand
    <2>5. Promises'  BY <1>2, <2>4, SameHand
    <2>6. QED  BY <1>3, <2>1, <2>2, <2>3, <2>5 DEF FacadeInv, Shape
  <1>7. QED  BY <1>5, <1>6 DEF Receive

\* The batch is filled from the queue, coalesced and expanded.
LEMMA FillInv ==
    ASSUME FacadeInv, Fill PROVE FacadeInv'
  <1>1. /\ FrontShape /\ DiskShape /\ ControlShape /\ LaneShape /\ TodoIsPerKey /\ Stages
        /\ InHandIsSound
    BY DEF FacadeInv, Shape, Promises
  <1>2. /\ UNCHANGED <<memory, seq, pc, op, issued, overflow, failed, join, retry, last_applied, disk>>
        /\ worker = "fill"
    BY DEF Fill, frontend, health
  <1>s. Sending' = Sending  BY Zenon, <1>2 DEF Sending
  <1>3. FrontShape' /\ DiskShape'  BY <1>1, <1>2 DEF FrontShape, DiskShape
  <1>4. todo = <<>> /\ back # "end"  BY <1>1, <1>2 DEF Stages
  <1>5. CASE queue # <<>> /\ Len(batch) < QUEUE_BOUND
    <2>1. /\ batch' = Append(batch, Head(queue)) /\ queue' = Tail(queue)
          /\ UNCHANGED <<worker, back, todo>>
      BY <1>5 DEF Fill
    <2>2. PICK h, q, b : h = Head(queue) /\ q = queue' /\ b = batch'  OBVIOUS
    <2>3. queue \in Seq(Ops) /\ batch \in Seq(Ops)  BY <1>1 DEF LaneShape
    <2>4. /\ h \in Ops /\ q \in Seq(Ops) /\ Len(q) = Len(queue) - 1
          /\ Range(queue) = {h} \cup Range(q)
      BY <1>5, <2>1, <2>2, <2>3, RangeHead
    <2>5. b \in Seq(Ops) /\ Len(b) = Len(batch) + 1 /\ Range(b) = Range(batch) \cup {h}
      BY Zenon, <2>1, <2>2, <2>3, <2>4, RangeAppend
    <2>6. Len(q) <= QUEUE_BOUND /\ Len(b) <= QUEUE_BOUND
      BY <1>1, <1>5, <2>3, <2>4, <2>5, FacadeAssumption DEF LaneShape
    <2>7. LaneShape'  BY <1>1, <1>2, <2>1, <2>2, <2>4, <2>5, <2>6 DEF LaneShape
    <2>8. ControlShape' /\ TodoIsPerKey'  BY <1>1, <1>2, <2>1 DEF ControlShape, TodoIsPerKey
    <2>9. Stages'  BY <1>1, <1>2, <1>4, <2>1 DEF Stages
    <2>10. InHand' = InHand  BY <1>2, <2>1, <2>2, <2>4, <2>5, <1>s DEF InHand
    <2>11. Promises'  BY <1>2, <2>10, SameHand
    <2>12. QED  BY <1>3, <2>7, <2>8, <2>9, <2>11 DEF FacadeInv, Shape
  <1>6. CASE ~(queue # <<>> /\ Len(batch) < QUEUE_BOUND)
    <2>1. /\ todo' = coalesced(batch) /\ worker' = "apply" /\ back' = "top"
          /\ batch' = <<>> /\ queue' = queue
      BY <1>6 DEF Fill, apply_pass
    <2>2. PICK ops, t : ops = batch /\ t = todo'  OBVIOUS
    <2>3. ops \in Seq(Ops)  BY <1>1, <2>2 DEF LaneShape
    <2>4. \A o \in Range(ops) : Sound(o)  BY Zenon, <1>1, <2>2 DEF InHandIsSound, InHand
    <2>5. /\ t \in Seq(Ops) /\ \A e \in Range(t) : Sound(e) /\ e.key \in Keys
          /\ \A o \in Range(ops), k \in Keys : touches(o, k) =>
                \E e \in Range(t) : touches(e, k) /\ e.seq >= o.seq
      BY <2>1, <2>2, <2>3, <2>4, PassSound
    <2>6. ControlShape'  BY <1>1, <1>2, <2>1 DEF ControlShape
    <2>a. Len(<<>>) <= QUEUE_BOUND  BY FacadeAssumption
    <2>7. LaneShape'  BY <1>1, <1>2, <2>1, <2>2, <2>5, <2>a, RangeEmpty DEF LaneShape
    <2>8. TodoIsPerKey'  BY <1>1, <1>2, <2>2, <2>5 DEF TodoIsPerKey
    <2>9. Stages'  BY <1>1, <1>2, <2>1 DEF Stages
    <2>10. InHand' \subseteq InHand \cup Range(t)  BY <1>2, <2>1, <2>2, <1>s, RangeEmpty DEF InHand
    <2>11. InHand \subseteq InHand' \cup Range(ops) /\ Range(t) \subseteq InHand'
      BY <1>2, <1>4, <2>1, <2>2, <1>s, RangeEmpty DEF InHand
    <2>12. \A e \in InHand' : Sound(e)  BY <1>1, <2>5, <2>10 DEF InHandIsSound
    <2>13. ASSUME NEW d \in InHand, NEW k \in Keys, touches(d, k)
           PROVE \E e \in InHand' : touches(e, k) /\ e.seq >= d.seq
      <3>1. CASE d \in InHand'  BY <1>1, <2>13, <3>1, HandOps, OpFields
      <3>2. CASE d \in Range(ops)  BY <2>5, <2>11, <2>13, <3>2
      <3>3. QED  BY <2>11, <3>1, <3>2
    <2>14. Promises'  BY Zenon, <1>2, <2>12, <2>13, HandStep
    <2>15. QED  BY <1>3, <2>6, <2>7, <2>8, <2>9, <2>14 DEF FacadeInv, Shape
  <1>7. QED  BY <1>5, <1>6

\* The head of a pass is a sound op on one key.
LEMMA HeadOfTodo ==
    ASSUME FacadeInv, todo # <<>>
    PROVE  /\ Head(todo) \in Ops /\ Sound(Head(todo)) /\ Head(todo).key \in Keys
           /\ Tail(todo) \in Seq(Ops) /\ Range(todo) = {Head(todo)} \cup Range(Tail(todo))
  <1>1. todo \in Seq(Ops) /\ InHandIsSound /\ TodoIsPerKey
    BY DEF FacadeInv, Shape, LaneShape, Promises
  <1>2. /\ Head(todo) \in Ops /\ Tail(todo) \in Seq(Ops)
        /\ Range(todo) = {Head(todo)} \cup Range(Tail(todo))
    BY <1>1, RangeHead
  <1>3. QED  BY Zenon, <1>1, <1>2 DEF InHandIsSound, InHand, TodoIsPerKey

\* An op older than its key's watermark is skipped.
LEMMA SkipInv ==
    ASSUME FacadeInv, Skip PROVE FacadeInv'
  <1>1. /\ FrontShape /\ DiskShape /\ ControlShape /\ LaneShape /\ TodoIsPerKey /\ Stages
        /\ InHandIsSound
    BY DEF FacadeInv, Shape, Promises
  <1>2. /\ UNCHANGED <<memory, seq, pc, op, issued, queue, overflow, failed, join, worker, back, batch,
                       retry, last_applied, disk>>
        /\ worker = "apply" /\ todo # <<>> /\ todo' = Tail(todo)
        /\ last_applied[Head(todo).key] >= Head(todo).seq
    BY DEF Skip, stale, frontend, health
  <1>s. Sending' = Sending  BY Zenon, <1>2 DEF Sending
  <1>3. PICK o, t : o = Head(todo) /\ t = todo'  OBVIOUS
  <1>4. o \in Ops /\ o.key \in Keys /\ t \in Seq(Ops) /\ Range(todo) = {o} \cup Range(t)
    BY <1>2, <1>3, HeadOfTodo
  <1>5. FrontShape' /\ DiskShape' /\ ControlShape'  BY <1>1, <1>2 DEF FrontShape, DiskShape, ControlShape
  <1>6. LaneShape'  BY Zenon, <1>1, <1>2, <1>3, <1>4 DEF LaneShape
  <1>7. TodoIsPerKey'  BY Zenon, <1>1, <1>2, <1>3, <1>4 DEF TodoIsPerKey
  <1>8. Stages'  BY <1>1, <1>2 DEF Stages
  <1>9. InHand' \subseteq InHand /\ InHand \subseteq InHand' \cup {o}
    BY Zenon, <1>2, <1>3, <1>4, <1>s DEF InHand
  <1>10. \A e \in InHand' : Sound(e)  BY <1>1, <1>9 DEF InHandIsSound
  <1>11. ASSUME NEW d \in InHand, NEW k \in Keys, touches(d, k)
         PROVE last_applied[k] >= d.seq \/ \E e \in InHand' : touches(e, k) /\ e.seq >= d.seq
    <2>1. CASE d \in InHand'  BY <1>1, <1>11, <2>1, HandOps, OpFields
    <2>2. CASE d = o
      <3>1. o.key = k  BY <1>4, <1>11, <2>2, TouchesItsKey
      <3>2. QED  BY Zenon, <1>2, <1>3, <2>2, <3>1
    <2>3. QED  BY <1>9, <2>1, <2>2
  <1>12. Promises'  BY Zenon, <1>2, <1>10, <1>11, HandStep
  <1>13. QED  BY <1>5, <1>6, <1>7, <1>8, <1>12 DEF FacadeInv, Shape

\* A failed write puts the op into the retry lane.
LEMMA ApplyFailsInv ==
    ASSUME FacadeInv, ApplyFails PROVE FacadeInv'
  <1>1. /\ FrontShape /\ DiskShape /\ ControlShape /\ LaneShape /\ TodoIsPerKey /\ Stages
        /\ InHandIsSound
    BY DEF FacadeInv, Shape, Promises
  <1>2. /\ UNCHANGED <<memory, seq, pc, op, issued, queue, overflow, join, worker, back, batch,
                       last_applied, disk>>
        /\ worker = "apply" /\ todo # <<>> /\ todo' = Tail(todo) /\ failed' = TRUE
        /\ retry' = newest_wins(retry, Head(todo))
    BY DEF ApplyFails, frontend
  <1>s. Sending' = Sending  BY Zenon, <1>2 DEF Sending
  <1>3. PICK o, t, y, z : o = Head(todo) /\ t = todo' /\ y = retry /\ z = retry'  OBVIOUS
  <1>4. o \in Ops /\ Sound(o) /\ o.key \in Keys /\ t \in Seq(Ops) /\ Range(todo) = {o} \cup Range(t)
    BY <1>2, <1>3, HeadOfTodo
  <1>5. y \in Seq(Ops) /\ OneOpAKey(y) /\ z = newest_wins(y, o)
    BY <1>1, <1>2, <1>3 DEF LaneShape, Lanes
  <1>6. /\ z \in Seq(Ops) /\ OneOpAKey(z) /\ Range(z) \subseteq Range(y) \cup {o}
        /\ \A e \in Range(y) \cup {o} : Covers(Range(z), e)
    BY <1>4, <1>5, NewestWins
  <1>7. FrontShape' /\ DiskShape' /\ ControlShape'  BY <1>1, <1>2 DEF FrontShape, DiskShape, ControlShape
  <1>8. LaneShape'  BY <1>1, <1>2, <1>3, <1>4, <1>6 DEF LaneShape, Lanes
  <1>9. TodoIsPerKey'  BY <1>1, <1>2, <1>3, <1>4, <1>6 DEF TodoIsPerKey
  <1>10. Stages'  BY <1>1, <1>2 DEF Stages
  <1>11. InHand' \subseteq InHand  BY <1>2, <1>3, <1>4, <1>6, <1>s DEF InHand
  <1>12. InHand \subseteq InHand' \cup Range(y) \cup {o} /\ Range(z) \subseteq InHand'
    BY <1>2, <1>3, <1>4, <1>s DEF InHand
  <1>13. \A e \in InHand' : Sound(e)  BY <1>1, <1>11 DEF InHandIsSound
  <1>14. ASSUME NEW d \in InHand, NEW k \in Keys, touches(d, k)
         PROVE \E e \in InHand' : touches(e, k) /\ e.seq >= d.seq
    <2>1. CASE d \in InHand'  BY <1>1, <1>14, <2>1, HandOps, OpFields
    <2>2. CASE d \in Range(y) \cup {o}
      <3>1. PICK e \in Range(z) : e.key = d.key /\ e.seq >= d.seq  BY Zenon, <1>6, <2>2 DEF Covers
      <3>2. QED  BY <1>12, <1>14, <3>1 DEF touches
    <2>3. QED  BY <1>12, <2>1, <2>2
  <1>15. Promises'  BY Zenon, <1>2, <1>13, <1>14, HandStep
  <1>16. QED  BY <1>7, <1>8, <1>9, <1>10, <1>15 DEF FacadeInv, Shape

\* A write that succeeds moves disk and watermark of its key together.
LEMMA ApplySucceedsInv ==
    ASSUME FacadeInv, ApplySucceeds PROVE FacadeInv'
  <1>1. /\ FrontShape /\ DiskShape /\ ControlShape /\ LaneShape /\ TodoIsPerKey /\ Stages
        /\ History /\ InHandIsSound /\ WatermarkIsTrue /\ MemoryIsNewest /\ NoneIsLost
    BY DEF FacadeInv, Shape, Promises
  <1>2. /\ UNCHANGED <<memory, seq, pc, op, issued, queue, overflow, failed, join, back, batch>>
        /\ worker = "apply" /\ worker' = "applied" /\ todo # <<>> /\ todo' = Tail(todo)
    BY DEF ApplySucceeds, frontend, health
  <1>s. Sending' = Sending  BY Zenon, <1>2 DEF Sending
  <1>3. PICK o, t, y, z : o = Head(todo) /\ t = todo' /\ y = retry /\ z = retry'  OBVIOUS
  <1>4. /\ ~(last_applied[o.key] >= o.seq)
        /\ disk' = [disk EXCEPT ![o.key] = content(o)]
        /\ last_applied' = [last_applied EXCEPT ![o.key] = o.seq]
        /\ z = note_success(y, o)
    BY Zenon, <1>3 DEF ApplySucceeds, stale
  <1>5. o \in Ops /\ Sound(o) /\ o.key \in Keys /\ t \in Seq(Ops) /\ Range(todo) = {o} \cup Range(t)
    BY <1>2, <1>3, HeadOfTodo
  <1>6. y \in Seq(Ops) /\ OneOpAKey(y)  BY <1>1, <1>3 DEF LaneShape, Lanes
  <1>7. PICK K : K = {e \in Range(y) : e.key # o.key \/ e.seq > o.seq}  BY Zenon
  <1>8. z = retain(y, K)  BY Zenon, <1>4, <1>7 DEF note_success
  <1>9. z \in Seq(Ops) /\ Range(z) = Range(y) \cap K /\ OneOpAKey(z)  BY <1>6, <1>8, RetainRange
  <1>10. /\ o.seq \in 1..seq /\ touches(issued[o.seq], o.key) /\ o.put = issued[o.seq].put
         /\ seq \in Nat /\ seq <= MaxOps
    <2>1. touches(o, o.key)  BY DEF touches
    <2>2. o.seq \in 1..seq /\ touches(issued[o.seq], o.key) /\ o.put = issued[o.seq].put
      BY Zenon, <1>5, <2>1 DEF Sound
    <2>3. seq \in 0..MaxOps  BY <1>1 DEF FrontShape
    <2>4. QED  BY <2>2, <2>3, FacadeAssumption
  <1>11. content(o) = content(issued[o.seq])  BY <1>1, <1>10 DEF content, History
  <1>12. content(o) \in Contents  BY <1>10, FacadeAssumption DEF content, Contents
  <1>13. \A k \in Keys : /\ disk'[k] = IF k = o.key THEN content(o) ELSE disk[k]
                         /\ last_applied'[k] = IF k = o.key THEN o.seq ELSE last_applied[k]
    BY <1>1, <1>4 DEF DiskShape
  <1>14. FrontShape' /\ ControlShape'  BY <1>1, <1>2 DEF FrontShape, ControlShape
  <1>15. DiskShape'
    <2>1. o.seq \in 0..MaxOps  BY <1>5, OpFields
    <2>2. QED  BY <1>1, <1>4, <1>5, <1>12, <2>1 DEF DiskShape
  <1>16. LaneShape'  BY <1>1, <1>2, <1>3, <1>5, <1>9 DEF LaneShape, Lanes
  <1>17. TodoIsPerKey'  BY <1>1, <1>2, <1>3, <1>5, <1>9 DEF TodoIsPerKey
  <1>18. Stages'  BY <1>1, <1>2 DEF Stages
  <1>19. InHand' \subseteq InHand  BY <1>2, <1>3, <1>5, <1>9, <1>s DEF InHand
  <1>20. InHand \subseteq InHand' \cup {o} \cup (Range(y) \ Range(z))
    BY <1>2, <1>3, <1>5, <1>s DEF InHand
  <1>21. History'  BY <1>1, <1>2 DEF History
  <1>22. InHandIsSound'
    <2>1. \A e : Sound(e) => Sound(e)'  BY Zenon, <1>2 DEF Sound
    <2>2. QED  BY <1>1, <1>19, <2>1 DEF InHandIsSound
  <1>23. WatermarkIsTrue'
    <2>1. SUFFICES ASSUME NEW k \in Keys
                   PROVE  \/ last_applied'[k] = 0
                          \/ /\ last_applied'[k] \in 1..seq
                             /\ touches(issued[last_applied'[k]], k)
                             /\ disk'[k] = content(issued[last_applied'[k]])
      BY Zenon, <1>2 DEF WatermarkIsTrue
    <2>2. CASE k = o.key  BY Zenon, <1>10, <1>11, <1>13, <2>2
    <2>3. CASE k # o.key
      <3>1. disk'[k] = disk[k] /\ last_applied'[k] = last_applied[k]  BY <1>13, <2>3
      <3>2. QED  BY Zenon, <1>1, <3>1 DEF WatermarkIsTrue
    <2>4. QED  BY Zenon, <2>2, <2>3
  <1>24. MemoryIsNewest'
    <2>1. SUFFICES ASSUME NEW k \in Keys
                   PROVE  \/ \E n \in 1..seq : Newest(n, k) /\ memory[k] = content(issued[n])
                          \/ (\A n \in 1..seq : ~touches(issued[n], k)) /\ memory[k] = disk'[k]
      BY Zenon, <1>2 DEF MemoryIsNewest, Newest
    <2>2. \/ \E n \in 1..seq : Newest(n, k) /\ memory[k] = content(issued[n])
          \/ (\A n \in 1..seq : ~touches(issued[n], k)) /\ memory[k] = disk[k]
      BY Zenon, <1>1 DEF MemoryIsNewest
    <2>3. (\A n \in 1..seq : ~touches(issued[n], k)) => k # o.key  BY Zenon, <1>10
    <2>4. k # o.key => disk'[k] = disk[k]  BY <1>13
    <2>5. QED  BY Zenon, <2>2, <2>3, <2>4
  <1>25. NoneIsLost'
    <2>1. SUFFICES ASSUME NEW k \in Keys, NEW n \in 1..seq, touches(issued[n], k)
                   PROVE  last_applied'[k] >= n \/ \E e \in InHand' : touches(e, k) /\ e.seq >= n
      BY <1>2 DEF NoneIsLost
    <2>2. n \in Nat /\ o.seq \in Nat /\ last_applied[k] \in Nat
      <3>1. last_applied[k] \in 0..MaxOps  BY <1>1 DEF DiskShape
      <3>2. o.seq \in Nat  BY <1>5, OpFields
      <3>3. n \in Nat  BY <1>10
      <3>4. QED  BY <3>1, <3>2, <3>3, FacadeAssumption
    <2>3. last_applied[k] >= n \/ \E d \in InHand : touches(d, k) /\ d.seq >= n
      BY Zenon, <1>1, <2>1 DEF NoneIsLost
    <2>4. CASE last_applied[k] >= n  BY <1>4, <1>13, <2>2, <2>4
    <2>5. CASE \E d \in InHand : touches(d, k) /\ d.seq >= n
      <3>1. PICK d \in InHand : touches(d, k) /\ d.seq >= n  BY <2>5
      <3>2. CASE d \in InHand'  BY <3>1, <3>2
      <3>3. CASE d = o
        <4>1. k = o.key  BY <1>5, <3>1, <3>3, TouchesItsKey
        <4>2. QED  BY <1>13, <3>1, <3>3, <4>1
      <3>4. CASE d \in Range(y) \ Range(z)
        <4>1. d \notin K  BY <1>9, <3>4
        <4>2. d.key \in Keys /\ d \in Ops  BY <1>1, <1>3, <1>6, <3>4, RangeIn DEF TodoIsPerKey
        <4>3. d.key = o.key /\ ~(d.seq > o.seq)  BY <1>7, <3>4, <4>1
        <4>4. k = o.key  BY <3>1, <4>2, <4>3, TouchesItsKey
        <4>5. d.seq \in Nat  BY <4>2, OpFields
        <4>6. o.seq >= n  BY <2>2, <3>1, <4>3, <4>5
        <4>7. QED  BY Zenon, <1>13, <4>4, <4>6
      <3>5. QED  BY <1>20, <3>2, <3>3, <3>4
    <2>6. QED  BY Zenon, <2>3, <2>4, <2>5
  <1>26. QED  BY <1>14, <1>15, <1>16, <1>17, <1>18, <1>21, <1>22, <1>23, <1>24, <1>25
          DEF FacadeInv, Shape, Promises

-----------------------------------------------------------------------------
(* The invariant, and what follows from it.                                 *)

\* The facade starts with memory preloaded from the disk.
LEMMA InitInv == ASSUME Init PROVE FacadeInv
  <1>1. /\ disk \in [Keys -> {Nothing, Earlier}] /\ memory = disk /\ seq = 0 /\ issued = <<>>
        /\ pc = [c \in Callers |-> "idle"] /\ op = [c \in Callers |-> NoOp]
        /\ last_applied = [k \in Keys |-> 0]
    BY DEF Init
  <1>2. /\ queue = <<>> /\ overflow = <<>> /\ batch = <<>> /\ todo = <<>> /\ retry = <<>>
        /\ failed = FALSE /\ join = "open" /\ worker = "top" /\ back = "top"
    BY DEF Init
  <1>3. 1..seq = {}  BY <1>1
  <1>4. FrontShape
    <2>1. NoOp \in Ops  BY FacadeAssumption DEF NoOp, Op, Ops
    <2>2. memory \in [Keys -> Contents]  BY <1>1 DEF Contents
    <2>3. seq \in 0..MaxOps /\ issued \in Seq(Ops) /\ Len(issued) = seq  BY <1>1, FacadeAssumption
    <2>4. QED  BY <1>1, <2>1, <2>2, <2>3 DEF FrontShape
  <1>5. DiskShape  BY <1>1, FacadeAssumption DEF DiskShape, Contents
  <1>6. ControlShape  BY Zenon, <1>2 DEF ControlShape
  <1>7. LaneShape
    <2>1. Len(<<>>) <= QUEUE_BOUND  BY FacadeAssumption
    <2>2. QED  BY <1>2, <2>1, RangeEmpty DEF LaneShape, Lanes
  <1>8. InHand = {}  BY <1>1, <1>2, RangeEmpty DEF InHand, Sending
  <1>9. History /\ InHandIsSound /\ NoneIsLost  BY <1>3, <1>8 DEF History, InHandIsSound, NoneIsLost
  <1>10. WatermarkIsTrue /\ MemoryIsNewest  BY <1>1, <1>3 DEF WatermarkIsTrue, MemoryIsNewest
  <1>11. TodoIsPerKey  BY <1>2, RangeEmpty DEF TodoIsPerKey
  <1>12. Stages  BY <1>1, <1>2 DEF Stages
  <1>13. QED  BY <1>4, <1>5, <1>6, <1>7, <1>9, <1>10, <1>11, <1>12 DEF FacadeInv, Shape, Promises

\* The op a callback issues.
LEMMA NewOp ==
    ASSUME FacadeInv, seq < MaxOps, NEW k \in Keys \cup {AllKeys}, NEW isPut \in BOOLEAN,
           NEW o, o = Op(k, isPut, next_seq)
    PROVE  o \in Ops /\ o.seq = seq + 1 /\ o.key = k /\ o.put = isPut
  <1>1. seq + 1 \in 0..MaxOps
    BY FacadeAssumption DEF FacadeInv, Shape, FrontShape
  <1>2. QED  BY <1>1 DEF Op, Ops, next_seq

\* Every step of callers and worker keeps the invariant.
LEMMA NextInv == ASSUME FacadeInv, [Next]_vars PROVE FacadeInv'
  <1>1. CASE UNCHANGED vars
    <2>1. UNCHANGED <<memory, seq, pc, op, issued, queue, overflow, failed, join, worker, back, batch,
                      todo, retry, last_applied, disk>>
      BY <1>1 DEF vars, frontend, health, work
    <2>2. FrontShape' /\ DiskShape' /\ ControlShape' /\ LaneShape'
      BY Zenon, <2>1 DEF FacadeInv, Shape, FrontShape, DiskShape, ControlShape, LaneShape
    <2>3. TodoIsPerKey' /\ Stages'  BY <2>1 DEF FacadeInv, TodoIsPerKey, Stages
    <2>4. InHand' = InHand  BY Zenon, <2>1 DEF InHand, Sending
    <2>5. Promises'  BY <2>1, <2>4, SameHand
    <2>6. QED  BY <2>2, <2>3, <2>5 DEF FacadeInv, Shape
  <1>2. ASSUME NEW c \in Callers, put(c) PROVE FacadeInv'
    <2>1. PICK k \in Keys : Mutate(c, Op(k, TRUE, next_seq))  BY Zenon, <1>2 DEF put
    <2>2. PICK o : o = Op(k, TRUE, next_seq)  BY Zenon
    <2>3. seq < MaxOps /\ Mutate(c, o)  BY <2>1, <2>2 DEF Mutate
    <2>4. o \in Ops /\ o.seq = seq + 1 /\ o.key = k  BY Zenon, <2>2, <2>3, NewOp
    <2>5. o.key # AllKeys  BY <2>4, KeysAssumption DEF Keys, AllKeys
    <2>6. QED  BY Zenon, <2>3, <2>4, <2>5, MutateInv
  <1>3. ASSUME NEW c \in Callers, remove(c) PROVE FacadeInv'
    <2>1. PICK k \in Keys : Mutate(c, Op(k, FALSE, next_seq))  BY Zenon, <1>3 DEF remove
    <2>2. PICK o : o = Op(k, FALSE, next_seq)  BY Zenon
    <2>3. seq < MaxOps /\ Mutate(c, o)  BY <2>1, <2>2 DEF Mutate
    <2>4. o \in Ops /\ o.seq = seq + 1 /\ o.put = FALSE  BY Zenon, <2>2, <2>3, NewOp
    <2>5. QED  BY Zenon, <2>3, <2>4, MutateInv
  <1>4. ASSUME NEW c \in Callers, clear_all(c) PROVE FacadeInv'
    <2>1. PICK o : o = Op(AllKeys, FALSE, next_seq)  BY Zenon
    <2>2. seq < MaxOps /\ Mutate(c, o)  BY Zenon, <1>4, <2>1 DEF clear_all, Mutate
    <2>3. o \in Ops /\ o.seq = seq + 1 /\ o.put = FALSE  BY Zenon, <2>1, <2>2, NewOp
    <2>4. QED  BY Zenon, <2>2, <2>3, MutateInv
  <1>5. ASSUME NEW c \in Callers, CallerStep(c) PROVE FacadeInv'
    BY <1>5, SendInv, ParkInv, RecordBackpressureInv DEF CallerStep
  <1>6. ASSUME NEW c \in Callers, PutTooLarge(c) PROVE FacadeInv'  BY <1>6, PutTooLargeInv
  <1>7. CASE WorkerStep
    BY <1>7, TakeReadyInv, ReceiveInv, FillInv, SkipInv, ApplySucceedsInv, ApplyFailsInv,
       CheckOverflowInv, note_recoveredInv, PassEndsInv, FinalPassInv, WorkerEndsInv
       DEF WorkerStep
  <1>8. CASE DropFacade  BY <1>8, DropFacadeInv
  <1>9. CASE JoinReturns  BY <1>9, JoinReturnsInv
  <1>10. QED  BY <1>1, <1>2, <1>3, <1>4, <1>5, <1>6, <1>7, <1>8, <1>9 DEF Next

\* The newest op of a key is the one the invariant says is not lost.
LEMMA NewestIsKept == ASSUME FacadeInv PROVE NewestNeverLost
  <1>1. /\ FrontShape /\ DiskShape /\ LaneShape /\ InHandIsSound /\ WatermarkIsTrue /\ NoneIsLost
    BY DEF FacadeInv, Shape, Promises
  <1>2. SUFFICES ASSUME NEW k \in Keys, NEW n \in 1..seq, touches(issued[n], k),
                        \A m \in 1..seq : touches(issued[m], k) => m <= n
                 PROVE  last_applied[k] = n \/ \E o \in InHand : touches(o, k) /\ o.seq = n
    BY Zenon DEF NewestNeverLost
  <1>3. n \in Nat /\ last_applied[k] \in Nat
    BY <1>1, FacadeAssumption DEF FrontShape, DiskShape
  <1>4. last_applied[k] >= n \/ \E o \in InHand : touches(o, k) /\ o.seq >= n
    BY Zenon, <1>1, <1>2 DEF NoneIsLost
  <1>5. CASE last_applied[k] >= n
    <2>1. last_applied[k] \in 1..seq /\ touches(issued[last_applied[k]], k)
      <3>1. last_applied[k] # 0  BY <1>3, <1>5
      <3>2. QED  BY Zenon, <1>1, <3>1 DEF WatermarkIsTrue
    <2>2. last_applied[k] <= n  BY <1>2, <2>1
    <2>3. QED  BY <1>3, <1>5, <2>2
  <1>6. CASE \E o \in InHand : touches(o, k) /\ o.seq >= n
    <2>1. PICK o \in InHand : touches(o, k) /\ o.seq >= n  BY <1>6
    <2>2. o.seq \in 1..seq /\ touches(issued[o.seq], k)  BY Zenon, <1>1, <2>1 DEF InHandIsSound, Sound
    <2>3. o.seq <= n /\ o.seq \in Nat  BY <1>1, <1>2, <2>2 DEF FrontShape
    <2>4. o.seq = n  BY <1>3, <2>1, <2>3
    <2>5. QED  BY <2>1, <2>4
  <1>7. QED  BY <1>4, <1>5, <1>6

\* When nothing is in hand, the disk is what memory is.
LEMMA NothingInHand == ASSUME FacadeInv, InHand = {} PROVE disk = memory
  <1>1. /\ FrontShape /\ DiskShape /\ WatermarkIsTrue /\ MemoryIsNewest /\ NoneIsLost
    BY DEF FacadeInv, Shape, Promises
  <1>2. ASSUME NEW k \in Keys PROVE disk[k] = memory[k]
    <2>1. CASE \E n \in 1..seq : Newest(n, k) /\ memory[k] = content(issued[n])
      <3>1. PICK n \in 1..seq : Newest(n, k) /\ memory[k] = content(issued[n])  BY <2>1
      <3>2. touches(issued[n], k) /\ \A m \in 1..seq : touches(issued[m], k) => m <= n
        BY Zenon, <3>1 DEF Newest
      <3>3. last_applied[k] >= n  BY Zenon, <1>1, <3>1, <3>2 DEF NoneIsLost
      <3>4. n \in Nat /\ n >= 1 /\ last_applied[k] \in Nat
        BY <1>1, <3>1, FacadeAssumption DEF FrontShape, DiskShape
      <3>5. last_applied[k] # 0  BY <3>3, <3>4
      <3>6. /\ last_applied[k] \in 1..seq /\ touches(issued[last_applied[k]], k)
            /\ disk[k] = content(issued[last_applied[k]])
        BY Zenon, <1>1, <3>5 DEF WatermarkIsTrue
      <3>7. last_applied[k] = n  BY SMTT(30), <3>2, <3>3, <3>4, <3>6
      <3>8. QED  BY Zenon, <3>1, <3>6, <3>7
    <2>2. QED  BY Zenon, <1>1, <2>1 DEF MemoryIsNewest
  <1>3. QED  BY <1>1, <1>2 DEF FrontShape, DiskShape

\* Only the return of the join settles it.
LEMMA JoinSteps == ASSUME Next PROVE JoinReturns \/ join' = join \/ join' = "joining"
  <1> USE DEF frontend, health, work, apply_pass
  <1>1. ASSUME NEW c \in Callers, NEW o, Mutate(c, o) PROVE join' = join  BY <1>1 DEF Mutate
  <1>2. ASSUME NEW c \in Callers, put(c) \/ remove(c) \/ clear_all(c) PROVE join' = join
    BY Zenon, <1>1, <1>2 DEF put, remove, clear_all
  <1>3. ASSUME NEW c \in Callers, CallerStep(c) PROVE join' = join
    BY Zenon, <1>3 DEF CallerStep, Send, Park, RecordBackpressure
  <1>4. ASSUME NEW c \in Callers, PutTooLarge(c) PROVE join' = join  BY <1>4 DEF PutTooLarge
  <1>5. CASE WorkerStep
    <2>1. CASE TakeReady \/ Receive \/ Fill \/ Skip  BY Zenon, <2>1 DEF TakeReady, Receive, Fill, Skip
    <2>2. CASE ApplySucceeds \/ ApplyFails \/ CheckOverflow \/ note_recovered
      BY Zenon, <2>2 DEF ApplySucceeds, ApplyFails, CheckOverflow, note_recovered
    <2>3. CASE PassEnds \/ FinalPass \/ WorkerEnds  BY <2>3 DEF PassEnds, FinalPass, WorkerEnds
    <2>4. QED  BY <1>5, <2>1, <2>2, <2>3 DEF WorkerStep
  <1>6. CASE DropFacade  BY <1>6 DEF DropFacade
  <1>7. QED  BY <1>2, <1>3, <1>4, <1>5, <1>6 DEF Next

\* A join that reports nothing left finds the disk equal to memory.
LEMMA ShutdownIsReported == ASSUME FacadeInv, Next PROVE ShutdownReported
  <1>1. SUFFICES ASSUME join' = "returned", join = "joining", ~failed' PROVE disk = memory
    BY DEF ShutdownReported
  <1>2. JoinReturns  BY <1>1, JoinSteps
  <1>3. worker = "ended" /\ failed' = failed  BY <1>1, <1>2 DEF JoinReturns
  <1>4. /\ queue = <<>> /\ overflow = <<>> /\ batch = <<>> /\ todo = <<>> /\ retry = <<>>
        /\ \A c \in Callers : pc[c] = "idle"
    BY <1>1, <1>3 DEF FacadeInv, Stages
  <1>5. InHand = {}  BY <1>4, RangeEmpty DEF InHand, Sending
  <1>6. QED  BY <1>5, NothingInHand

\* The two layers of the cache stay in step: the watermarks tell the truth,
\* memory shows the newest op, and no op is dropped but for a newer one.
THEOREM FacadeInvariant == Spec => []FacadeInv
  <1>1. Init => FacadeInv  BY InitInv
  <1>2. FacadeInv /\ [Next]_vars => FacadeInv'  BY NextInv
  <1>3. QED  BY <1>1, <1>2, PTL DEF Spec

\* A write is durable, in hand, or reported at shutdown, whatever the queue
\* bound, the keys and the callers (put, remove, clear_all, the worker, Drop).
THEOREM NothingIsLostHolds == Spec => NothingIsLost
  <1>1. FacadeInv => TypeOK /\ NewestNeverLost
    BY ShapeIsTypeOK, NewestIsKept DEF FacadeInv
  <1>2. FacadeInv /\ [Next]_vars => FacadeInv'  BY NextInv
  <1>3. FacadeInv /\ [Next]_vars => [ShutdownReported]_vars  BY ShutdownIsReported
  <1>4. ASSUME [ShutdownReported]_vars, TypeOK', NewestNeverLost'
        PROVE  [TypeOK' /\ NewestNeverLost' /\ ShutdownReported]_vars
    BY <1>4
  <1>5. QED  BY <1>1, <1>2, <1>3, <1>4, FacadeInvariant, PTL DEF Spec, NothingIsLost

-----------------------------------------------------------------------------
(* The facade implements DurableMap.                                        *)

\* An op numbered is a write issued in the abstract map.
LEMMA MutateIsIssue ==
    ASSUME FacadeInv, NEW c \in Callers, NEW k \in Keys \cup {AllKeys}, NEW isPut \in BOOLEAN,
           isPut => k # AllKeys, Mutate(c, Op(k, isPut, next_seq))
    PROVE  Durable!Issue
  <1>1. next_seq = Len(issued) + 1  BY DEF FacadeInv, Shape, FrontShape, next_seq
  <1>2. PICK o : o = Op(k, isPut, next_seq)  OBVIOUS
  <1>3. o = Durable!Op(k, isPut, Len(issued) + 1)  BY <1>1, <1>2 DEF Op, Durable!Op
  <1>4. /\ issued' = Append(issued, o)
        /\ memory' = [j \in Keys |-> IF touches(o, j) THEN content(o) ELSE memory[j]]
        /\ UNCHANGED <<disk, last_applied>>
    BY <1>2 DEF Mutate, work
  <1>5. \A j : touches(o, j) <=> Durable!touches(o, j)
    BY DEF touches, Durable!touches, AllKeys, Durable!AllKeys
  <1>6. content(o) = Durable!content(o)  BY DEF content, Durable!content, Nothing, Durable!Nothing
  <1>7. Keys = Durable!Keys /\ AllKeys = Durable!AllKeys
    BY DEF Keys, Durable!Keys, AllKeys, Durable!AllKeys
  <1>8. memory' = [j \in Durable!Keys |-> IF Durable!touches(o, j) THEN Durable!content(o) ELSE memory[j]]
    BY <1>4, <1>5, <1>6, <1>7
  <1>9. QED  BY Zenon, <1>3, <1>4, <1>7, <1>8 DEF Durable!Issue

\* A successful write is a write persisted in the abstract map.
LEMMA ApplyIsPersist ==
    ASSUME FacadeInv, ApplySucceeds PROVE \E k \in Durable!Keys : Durable!Persist(k)
  <1>1. PICK o : o = Head(todo)  OBVIOUS
  <1>2. /\ UNCHANGED <<memory, issued>> /\ todo # <<>>
        /\ ~(last_applied[o.key] >= o.seq)
        /\ disk' = [disk EXCEPT ![o.key] = content(o)]
        /\ last_applied' = [last_applied EXCEPT ![o.key] = o.seq]
    BY Zenon, <1>1 DEF ApplySucceeds, stale, frontend
  <1>3. Sound(o) /\ o.key \in Keys  BY <1>1, <1>2, HeadOfTodo
  <1>4. /\ o.seq \in 1..seq /\ touches(issued[o.seq], o.key) /\ o.put = issued[o.seq].put
        /\ Len(issued) = seq /\ seq \in Nat
    BY <1>3, FacadeAssumption DEF Sound, touches, FacadeInv, Shape, FrontShape
  <1>5. content(o) = content(issued[o.seq])
    BY Zenon, <1>4 DEF content, FacadeInv, Promises, History
  <1>6. last_applied[o.key] \in Nat
    BY <1>3, FacadeAssumption DEF FacadeInv, Shape, DiskShape
  <1>7. o.seq \in last_applied[o.key] + 1..Len(issued)
    <2>1. PICK a, b : a = last_applied[o.key] /\ b = o.seq  OBVIOUS
    <2>2. a \in Nat /\ b \in 1..seq /\ ~(a >= b)  BY Zenon, <1>2, <1>4, <1>6, <2>1
    <2>3. b \in a + 1..seq  BY <1>4, <2>2
    <2>4. QED  BY Zenon, <1>4, <2>1, <2>3
  <1>8. Durable!touches(issued[o.seq], o.key)
    BY <1>4 DEF touches, Durable!touches, AllKeys, Durable!AllKeys
  <1>9. content(o) = Durable!content(issued[o.seq])
    BY <1>5 DEF content, Durable!content, Nothing, Durable!Nothing
  <1>10. o.key \in Durable!Keys  BY <1>3 DEF Keys, Durable!Keys
  <1>11. Durable!Persist(o.key)
    BY Zenon, <1>2, <1>7, <1>8, <1>9 DEF Durable!Persist
  <1>12. QED  BY <1>10, <1>11

\* No other step changes what the abstract map sees.
LEMMA OtherSteps ==
    ASSUME Next PROVE
      \/ \E c \in Callers : put(c) \/ remove(c) \/ clear_all(c)
      \/ ApplySucceeds
      \/ UNCHANGED <<memory, issued, disk, last_applied>>
  <1> USE DEF frontend, health, work, apply_pass
  <1>1. ASSUME NEW c \in Callers, CallerStep(c) PROVE UNCHANGED <<memory, issued, disk, last_applied>>
    BY Zenon, <1>1 DEF CallerStep, Send, Park, RecordBackpressure
  <1>2. ASSUME NEW c \in Callers, PutTooLarge(c) PROVE UNCHANGED <<memory, issued, disk, last_applied>>
    BY <1>2 DEF PutTooLarge
  <1>3. CASE WorkerStep
    <2>1. CASE TakeReady \/ Receive \/ Fill \/ Skip  BY Zenon, <2>1 DEF TakeReady, Receive, Fill, Skip
    <2>2. CASE ApplyFails \/ CheckOverflow \/ note_recovered
      BY <2>2 DEF ApplyFails, CheckOverflow, note_recovered
    <2>3. CASE PassEnds \/ FinalPass \/ WorkerEnds  BY <2>3 DEF PassEnds, FinalPass, WorkerEnds
    <2>4. QED  BY <1>3, <2>1, <2>2, <2>3 DEF WorkerStep
  <1>4. CASE DropFacade \/ JoinReturns  BY <1>4 DEF DropFacade, JoinReturns
  <1>5. QED  BY <1>1, <1>2, <1>3, <1>4 DEF Next

\* Every step is a step of the abstract map or leaves it alone.
LEMMA RefinementStep ==
    ASSUME FacadeInv, [Next]_vars PROVE [Durable!Next]_(Durable!vars)
  <1>1. CASE UNCHANGED vars  BY <1>1 DEF vars, frontend, work, Durable!vars
  <1>2. ASSUME NEW c \in Callers, put(c) PROVE Durable!Next
    <2>1. PICK k \in Keys : Mutate(c, Op(k, TRUE, next_seq))  BY Zenon, <1>2 DEF put
    <2>2. k # AllKeys  BY KeysAssumption DEF Keys, AllKeys
    <2>3. QED  BY Zenon, <2>1, <2>2, MutateIsIssue DEF Durable!Next
  <1>3. ASSUME NEW c \in Callers, remove(c) PROVE Durable!Next
    <2>1. PICK k \in Keys : Mutate(c, Op(k, FALSE, next_seq))  BY Zenon, <1>3 DEF remove
    <2>2. QED  BY Zenon, <2>1, MutateIsIssue DEF Durable!Next
  <1>4. ASSUME NEW c \in Callers, clear_all(c) PROVE Durable!Next
    <2>1. Mutate(c, Op(AllKeys, FALSE, next_seq))  BY Zenon, <1>4 DEF clear_all
    <2>2. QED  BY Zenon, <2>1, MutateIsIssue DEF Durable!Next
  <1>5. CASE ApplySucceeds  BY <1>5, ApplyIsPersist DEF Durable!Next
  <1>6. CASE UNCHANGED <<memory, issued, disk, last_applied>>  BY <1>6 DEF Durable!vars
  <1>7. QED  BY <1>1, <1>2, <1>3, <1>4, <1>5, <1>6, OtherSteps

\* The facade starts where the abstract map does.
LEMMA RefinementInit == ASSUME Init PROVE Durable!Init
  BY DEF Init, Durable!Init, Keys, Durable!Keys, Nothing, Durable!Nothing, Earlier, Durable!Earlier

\* The facade implements DurableMap: the disk of every key moves forward, one
\* write at a time, through states memory has had (apply_pass, note_success).
THEOREM FacadeImplementsDurableMap == Spec => ImplementsDurableMap
  <1>1. Init => Durable!Init  BY RefinementInit
  <1>2. FacadeInv /\ [Next]_vars => [Durable!Next]_(Durable!vars)  BY RefinementStep
  <1>3. QED  BY <1>1, <1>2, FacadeInvariant, PTL DEF Spec, ImplementsDurableMap, Durable!Spec
=============================================================================

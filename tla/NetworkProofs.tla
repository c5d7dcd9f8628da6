--------------------------- MODULE NetworkProofs ---------------------------
(***************************************************************************)
(* The marking of the outer sockets, for every set of sockets the in-flight *)
(* field can count: the packed word reads healthy only when every reported  *)
(* socket carries its mark. And the order of a connect, for every number of *)
(* connects, failures and steps of other managers: routes only behind the   *)
(* switch, and only in tables of ProtonWire's own.                          *)
(***************************************************************************)
EXTENDS MCNetwork, Sequences, FiniteSetTheorems, WellFoundedInduction, TLAPS

\* A step of the whole is a step of the part in question or leaves it alone.
LEMMA PartSteps ==
    ASSUME [Next]_vars
    PROVE  /\ part' = part
           /\ Is("session") => [Net!Next]_net
           /\ Is("sockets") => [Outer!Next]_outer
           /\ Is("cache") => [Cache!Next]_cache
           /\ Is("ledger") => [Ledger!Next]_ledger
  BY DEF Next, vars, NetStep, OuterStep, CacheStep, LedgerStep, Is

\* The part in question starts in an initial state of its own.
LEMMA PartStarts ==
    ASSUME Init
    PROVE  /\ Is("session") => Net!Init
           /\ Is("sockets") => Outer!Init
           /\ Is("cache") => Cache!Init
           /\ Is("ledger") => Ledger!Init
  BY Zenon DEF Init, Is

-----------------------------------------------------------------------------
(* The marks of the outer sockets.                                          *)

\* The sockets whose callback has begun and not ended.
Inside == {s \in Sockets : at[s] \in {"apply", "unmarked", "marked", "reported"}}

\* The sockets the reported count has counted.
Counted == {s \in Sockets : at[s] \in {"reported", "done"}}

\* How many values the in-flight field has.
Field == 2^IN_FLIGHT_BITS

\* The word is the two counts over the latch, and the latch is set for every
\* socket that went on without the mark.
WordInv ==
    /\ state \in Nat
    /\ at \in [Sockets -> {"new", "apply", "unmarked", "marked", "reported", "done"}]
    /\ state \div 2 = Cardinality(Inside) + Field * Cardinality(Counted)
    /\ \A s \in Sockets :
          at[s] \in {"marked", "reported", "done"} /\ s \notin marked => state % 2 = 1

\* The low field of a packed sum.
LEMMA ModOfSum ==
    ASSUME NEW n \in Nat, NEW r \in Nat, NEW b \in Nat, n < b
    PROVE (n + b * r) % b = n
  OBVIOUS

\* A field that reads above zero needs a word as large as its unit.
LEMMA QuotientPositive ==
    ASSUME NEW a \in Nat, NEW b \in Nat, b > 0, a \div b > 0
    PROVE a >= b
  OBVIOUS

\* Both counts are of parts of the sockets, so the first fits its field.
LEMMA Fields ==
    /\ IsFiniteSet(Inside) /\ Cardinality(Inside) \in Nat /\ Cardinality(Inside) < Field
          /\ IsFiniteSet(Counted) /\ Cardinality(Counted) \in Nat
  <1>1. Inside \in SUBSET Sockets /\ Counted \in SUBSET Sockets  BY DEF Inside, Counted
  <1>2. /\ IsFiniteSet(Inside) /\ Cardinality(Inside) <= Cardinality(Sockets)
        /\ IsFiniteSet(Counted)
    BY <1>1, FS_Subset, NetworkAssumption
  <1>3. /\ Cardinality(Inside) \in Nat /\ Cardinality(Counted) \in Nat
        /\ Cardinality(Sockets) \in Nat
    BY <1>2, FS_CardinalityType, NetworkAssumption
  <1>4. QED  BY <1>2, <1>3, NetworkAssumption DEF Field

\* The word starts at zero.
LEMMA WordInit == ASSUME Outer!Init PROVE WordInv
  <1>1. Inside = {} /\ Counted = {}  BY DEF Outer!Init, Inside, Counted
  <1>2. QED  BY <1>1, FS_EmptySet, NetworkAssumption DEF Outer!Init, WordInv, Field

\* Each atomic operation moves one socket and changes one field.
LEMMA WordStep == ASSUME WordInv, [Outer!Next]_outer PROVE WordInv'
  <1>0. /\ IsFiniteSet(Inside) /\ Cardinality(Inside) \in Nat /\ Cardinality(Inside) < Field
        /\ IsFiniteSet(Counted) /\ Cardinality(Counted) \in Nat /\ Field \in Nat
    BY Fields, NetworkAssumption DEF Field
  <1>w. /\ state \div 2 = Cardinality(Inside) + Field * Cardinality(Counted)
        /\ Field * Cardinality(Counted) \in Nat
    BY <1>0 DEF WordInv
  <1>1. ASSUME NEW s \in Sockets, Outer!note_in_flight(s) PROVE WordInv'
    <2>1. Inside' = Inside \cup {s} /\ s \notin Inside /\ Counted' = Counted
      BY <1>1 DEF Outer!note_in_flight, Outer!Step, WordInv, Inside, Counted
    <2>2. Cardinality(Inside') = Cardinality(Inside) + 1  BY Zenon, <1>0, <2>1, FS_AddElement
    <2>3. state' = state + 2  BY <1>1 DEF Outer!note_in_flight, Outer!IN_FLIGHT_UNIT
    <2>4. state' \div 2 = state \div 2 + 1 /\ state' % 2 = state % 2 /\ state' \in Nat
      BY <2>3 DEF WordInv
    <2>5. state' \div 2 = Cardinality(Inside') + Field * Cardinality(Counted')
      BY <1>0, <1>w, <2>1, <2>2, <2>4
    <2>6. QED  BY <1>1, <2>4, <2>5 DEF Outer!note_in_flight, Outer!Step, WordInv, Field
  <1>2. ASSUME NEW s \in Sockets, Outer!apply_mark(s) PROVE WordInv'
    <2>1. Inside' = Inside /\ Counted' = Counted /\ state' = state
      BY <1>2 DEF Outer!apply_mark, Outer!Step, WordInv, Inside, Counted
    <2>2. QED  BY <1>2, <2>1 DEF Outer!apply_mark, Outer!Step, WordInv, Field
  <1>3. ASSUME NEW s \in Sockets, Outer!note_failure(s) PROVE WordInv'
    <2>1. Inside' = Inside /\ Counted' = Counted
      BY <1>3 DEF Outer!note_failure, Outer!Step, WordInv, Inside, Counted
    <2>2. state' = IF state % 2 = 1 THEN state ELSE state + 1
      BY <1>3 DEF Outer!note_failure, Outer!failed, Outer!FAILED
    <2>3. state' \div 2 = state \div 2 /\ state' % 2 = 1 /\ state' \in Nat
      BY <2>2 DEF WordInv
    <2>4. QED  BY <1>3, <2>1, <2>3 DEF Outer!note_failure, Outer!Step, WordInv, Field
  <1>4. ASSUME NEW s \in Sockets, Outer!note_reported(s) PROVE WordInv'
    <2>1. Counted' = Counted \cup {s} /\ s \notin Counted /\ Inside' = Inside
      BY <1>4 DEF Outer!note_reported, Outer!Step, WordInv, Inside, Counted
    <2>2. Cardinality(Counted') = Cardinality(Counted) + 1  BY Zenon, <1>0, <2>1, FS_AddElement
    <2>3. state' = state + 2 * Field  BY <1>4 DEF Outer!note_reported, Outer!REPORTED_UNIT, Field
    <2>4. state' \div 2 = state \div 2 + Field /\ state' % 2 = state % 2 /\ state' \in Nat
      BY <1>0, <2>3 DEF WordInv
    <2>5. Field * Cardinality(Counted') = Field * Cardinality(Counted) + Field  BY <1>0, <2>2
    <2>6. state' \div 2 = Cardinality(Inside') + Field * Cardinality(Counted')
      BY <1>0, <1>w, <2>1, <2>4, <2>5
    <2>7. QED  BY <1>4, <2>4, <2>6 DEF Outer!note_reported, Outer!Step, WordInv, Field
  <1>5. ASSUME NEW s \in Sockets, Outer!note_done(s) PROVE WordInv'
    <2>1. Inside' = Inside \ {s} /\ s \in Inside /\ Counted' = Counted
      BY <1>5 DEF Outer!note_done, Outer!Step, WordInv, Inside, Counted
    <2>2. Cardinality(Inside') = Cardinality(Inside) - 1  BY Zenon, <1>0, <2>1, FS_RemoveElement
    <2>3. Cardinality(Inside) > 0  BY <1>0, <2>1, FS_EmptySet
    <2>4. state' = state - 2  BY <1>5 DEF Outer!note_done, Outer!IN_FLIGHT_UNIT
    <2>5. state \div 2 > 0  BY <1>0, <1>w, <2>3
    <2>6. state' \div 2 = state \div 2 - 1 /\ state' % 2 = state % 2 /\ state' \in Nat
      BY <2>4, <2>5 DEF WordInv
    <2>7. state' \div 2 = Cardinality(Inside') + Field * Cardinality(Counted')
      BY <1>0, <1>w, <2>1, <2>2, <2>6
    <2>8. QED  BY <1>5, <2>6, <2>7 DEF Outer!note_done, Outer!Step, WordInv, Field
  <1>6. CASE UNCHANGED outer
    BY <1>6 DEF outer, WordInv, Inside, Counted, Field
  <1>7. QED  BY <1>1, <1>2, <1>3, <1>4, <1>5, <1>6 DEF Outer!Next, Outer!protect_socket

\* A word that reads healthy has no callback inside and no latch.
LEMMA WordTells == ASSUME WordInv PROVE Outer!HealthyMeansMarked
  <1>1. SUFFICES ASSUME Outer!healthy
                 PROVE /\ \E s \in Sockets : at[s] = "done"
                       /\ \A s \in Sockets : at[s] \in {"new", "done"}
                       /\ \A s \in Sockets : at[s] = "done" => s \in marked
    BY DEF Outer!HealthyMeansMarked
  <1>2. /\ IsFiniteSet(Inside) /\ Cardinality(Inside) \in Nat /\ Cardinality(Inside) < Field
        /\ IsFiniteSet(Counted) /\ Cardinality(Counted) \in Nat /\ Field \in Nat /\ Field > 0
    BY Fields, NetworkAssumption DEF Field
  <1>3. Cardinality(Inside) = 0
    <2>1. (state \div 2) % Field = 0  BY <1>1 DEF Outer!healthy, Outer!in_flight, Outer!IN_FLIGHT_UNIT, Field
    <2>2. (Cardinality(Inside) + Field * Cardinality(Counted)) % Field = Cardinality(Inside)
      BY <1>2, ModOfSum
    <2>3. QED  BY <2>1, <2>2 DEF WordInv
  <1>4. Inside = {}  BY <1>2, <1>3, FS_EmptySet
  <1>5. Counted # {}
    <2>1. state \div (2 * Field) > 0  BY <1>1 DEF Outer!healthy, Outer!reported, Outer!REPORTED_UNIT, Field
    <2>2. state >= 2 * Field  BY <1>2, <2>1, QuotientPositive DEF WordInv
    <2>3. state \div 2 > 0  BY <1>2, <2>2 DEF WordInv
    <2>4. Cardinality(Counted) # 0  BY <1>2, <1>3, <2>3 DEF WordInv
    <2>5. QED  BY <2>4, FS_EmptySet
  <1>6. state % 2 # 1  BY <1>1 DEF Outer!healthy, Outer!failed
  <1>7. QED  BY <1>4, <1>5, <1>6 DEF Inside, Counted, WordInv

\* However many callbacks overlap, as long as there are fewer sockets than the
\* in-flight field has values (2^14 in marks.rs), a word that reads healthy
\* means that every reported socket is marked and none is inside the applier.
THEOREM HealthyIsTrue == Spec => []HealthyMeansMarked
  <1> DEFINE Inv == Is("sockets") => WordInv /\ marked \subseteq Sockets
  <1>1. Init => Inv
    <2>1. Outer!Init => WordInv /\ marked \subseteq Sockets  BY WordInit DEF Outer!Init
    <2>2. QED  BY <2>1, PartStarts
  <1>2. Inv /\ [Next]_vars => Inv'
    <2> SUFFICES ASSUME Inv, [Next]_vars, Is("sockets")' PROVE WordInv' /\ (marked \subseteq Sockets)'
      OBVIOUS
    <2>1. Is("sockets") /\ [Outer!Next]_outer  BY PartSteps DEF Is
    <2>2. WordInv'  BY <2>1, WordStep
    <2>3. marked' \subseteq Sockets
      BY <2>1 DEF outer, Outer!Next, Outer!protect_socket, Outer!note_in_flight,
         Outer!apply_mark, Outer!note_failure, Outer!note_reported, Outer!note_done
    <2>4. QED  BY <2>2, <2>3
  <1>3. Inv => HealthyMeansMarked
    BY WordTells DEF HealthyMeansMarked, Outer!TypeOK, WordInv
  <1>4. QED  BY <1>1, <1>2, <1>3, PTL DEF Spec
-----------------------------------------------------------------------------
(* Induction and recursion up to a number, which a filter is.               *)

\* A set of numbers that is not empty has a least one.
LEMMA LeastElement ==
    ASSUME NEW T \in SUBSET Nat, T # {}
    PROVE \E m \in T : \A k \in T : m <= k
  <1>1. PICK R : R = OpToRel(<, Nat)  BY Zenon
  <1>2. IsWellFoundedOn(R, Nat)  BY Zenon, <1>1, NatLessThanWellFounded
  <1>3. PICK m \in T : \A k \in T : ~(<<k, m>> \in R)  BY Zenon, <1>2, WFMin
  <1>4. \A k \in T : k < m => <<k, m>> \in R  BY <1>1 DEF OpToRel
  <1>5. \A k \in T : m <= k
    <2>1. SUFFICES ASSUME NEW k \in T PROVE m <= k  OBVIOUS
    <2>2. m \in Nat /\ k \in Nat  OBVIOUS
    <2>3. ~(k < m)  BY Zenon, <1>3, <1>4
    <2>4. QED  BY <2>2, <2>3
  <1>6. QED  BY <1>5

\* What holds of 0 and passes to the next number holds up to N.
LEMMA UpTo ==
    ASSUME NEW N \in Nat, NEW S, 0 \in S, \A n \in 1..N : n - 1 \in S => n \in S
    PROVE 0..N \subseteq S
  <1>1. SUFFICES ASSUME NEW T, T = {n \in 0..N : n \notin S}, T # {} PROVE FALSE  BY Zenon
  <1>a. T \in SUBSET Nat  BY <1>1
  <1>2. PICK m \in T : \A k \in T : m <= k  BY <1>1, <1>a, LeastElement, Zenon
  <1>3. m \in 1..N /\ m - 1 \in 0..N  BY <1>1
  <1>4. m - 1 \in S  BY <1>1, <1>2, <1>3
  <1>5. QED  BY <1>1, <1>3, <1>4

\* f starts at base and takes N steps.
Runs(f, N, base, step) == f[0] = base /\ \A n \in 1..N : f[n] = step[n][f[n - 1]]

\* A loop of N steps has a run.
LEMMA Iterate ==
    ASSUME NEW V, NEW N \in Nat, NEW base \in V, NEW step \in [1..N -> [V -> V]]
    PROVE  \E f \in [0..N -> V] : Runs(f, N, base, step)
  <1> DEFINE Run(f, m) == f[0] = base /\ \A n \in 1..m : f[n] = step[n][f[n - 1]]
  <1>0. PICK S : S = {m \in 0..N : \E f \in [0..m -> V] : Run(f, m)}  BY Zenon
  <1>1. 0 \in S
    <2>1. PICK f : f = [n \in 0..0 |-> base]  BY Zenon
    <2>2. f \in [0..0 -> V] /\ Run(f, 0)  BY <2>1
    <2>3. QED  BY <1>0, <2>2
  <1>2. ASSUME NEW m \in 1..N, m - 1 \in S PROVE m \in S
    <2>1. PICK f \in [0..(m - 1) -> V] : Run(f, m - 1)  BY <1>0, <1>2
    <2>2. PICK v : v = step[m][f[m - 1]]  OBVIOUS
    <2>3. f[m - 1] \in V /\ step[m] \in [V -> V]  BY <2>1
    <2>4. v \in V  BY <2>2, <2>3
    <2>5. PICK g : g = [n \in 0..m |-> IF n = m THEN v ELSE f[n]]  BY Zenon
    <2>6. \A n \in 0..m : n # m => n \in 0..(m - 1)  OBVIOUS
    <2>7. g \in [0..m -> V]  BY <2>1, <2>4, <2>5, <2>6
    <2>8. ASSUME NEW n \in 1..m PROVE g[n] = step[n][g[n - 1]]
      <3>1. g[n - 1] = f[n - 1]
        <4>1. n - 1 \in 0..m /\ n - 1 # m  OBVIOUS
        <4>2. QED  BY <2>5, <4>1
      <3>2. CASE n = m
        <4>1. g[m] = v  BY <2>5
        <4>2. QED  BY <2>2, <3>1, <3>2, <4>1
      <3>3. CASE n # m
        <4>1. n \in 1..(m - 1) /\ g[n] = f[n]  BY <2>5, <3>3
        <4>2. QED  BY <2>1, <3>1, <4>1
      <3>4. QED  BY <3>2, <3>3
    <2>9. g[0] = base  BY <2>1, <2>5
    <2>10. Run(g, m)  BY <2>8, <2>9
    <2>11. QED  BY <1>0, <2>7, <2>10
  <1>b. 0..N \subseteq S  BY <1>1, <1>2, UpTo, Zenon
  <1>3. N \in S  BY <1>b
  <1>4. PICK f \in [0..N -> V] : Run(f, N)  BY <1>0, <1>3
  <1>5. QED  BY <1>4 DEF Runs

-----------------------------------------------------------------------------
(* The network session.                                                      *)

\* The ids rt_tables gives a name to, none of them one of ProtonWire's.
Named == {51821, 51830}

\* The ids ProtonWire may own.
Own == {id \in Nat : id > 255 /\ id \notin Named}

Plans == {p \in [main : Own, bypass : Own, lan : Own] :
             p.main # p.bypass /\ p.main # p.lan /\ p.bypass # p.lan}

\* The rules a session may have: into a table of its own or, for marked
\* packets, into the kernel's, in the priorities it recognises as its own.
RuleSpecs == [table : Nat \ {0}, priority : {31699, 31700}, fwmark : Nat,
              family : {"V4", "V6"}, action : {"ToTable"}]

RouteSpecs == [table : Nat, dest : {"V4", "V6"}]

NetOps == [verb : {"AddRule", "DelRule"}, spec : RuleSpecs]
          \cup [verb : {"AddRoute", "DelRoute"}, spec : RouteSpecs]

\* What the host has of ProtonWire's.
HostInv ==
    /\ IsFiniteSet(DOMAIN rules) /\ DOMAIN rules \subseteq RuleSpecs
    /\ IsFiniteSet(routes) /\ IsFiniteSet(squat)

JobFields == {"plan", "ipv6", "dns", "todo", "applied", "undo", "stuck", "before",
              "evidence", "backend"}

\* What a sequence in progress will send.
JobInv ==
    /\ DOMAIN job = JobFields
    /\ job.todo \in Seq(NetOps) /\ job.applied \in Seq(NetOps) /\ job.undo \in Seq(NetOps)
    /\ pc \in {"arm", "probe", "commit", "dns", "capture", "replace"} => job.plan \in Plans

\* What the caller keeps.
CallerInv ==
    /\ kept.tables \in Plans \cup {Net!NoRecord}
    /\ session.installed \in Seq(NetOps)
    /\ session # Net!NoSession => session.plan \in Plans

\* From the first route to the last the switch of this attempt stands.
SwitchInv == pc = "commit" => Net!Armed(generation)

NetInv == HostInv /\ JobInv /\ CallerInv /\ SwitchInv
-----------------------------------------------------------------------------
\* A filter keeps operations of the sequence it is given.
LEMMA FilteredOps ==
    ASSUME NEW ops \in Seq(NetOps), NEW K
    PROVE  Net!Filtered(ops, K) \in Seq(NetOps)
  <1> DEFINE Step(n, s) == IF ops[n] \in K THEN Append(s, ops[n]) ELSE s
  <1>1. PICK N, V, base : N = Len(ops) /\ V = Seq(NetOps) /\ base = <<>>  OBVIOUS
  <1>2. N \in Nat /\ base \in V /\ \A n \in 1..N, s \in V : Step(n, s) \in V  BY <1>1
  <1>3. \A f : f = [n \in 0..N |-> IF n = 0 THEN base ELSE Step(n, f[n - 1])] =>
          \E g : /\ g = [n \in 0..N |-> IF n = 0 THEN base ELSE Step(n, g[n - 1])]
                 /\ Net!Filtered(ops, K) = g[N]
    BY <1>1, Zenon DEF Net!Filtered
  <1> HIDE DEF Step
  <1>4. PICK step : step = [n \in 1..N |-> [s \in V |-> Step(n, s)]]  BY Zenon
  <1>5. step \in [1..N -> [V -> V]]  BY <1>2, <1>4
  <1>a. N \in Nat /\ base \in V  BY <1>2
  <1>6. PICK f \in [0..N -> V] : Runs(f, N, base, step)  BY Zenon, <1>a, <1>5, Iterate
  <1>7. ASSUME NEW n \in 1..N PROVE f[n] = Step(n, f[n - 1])
    <2>1. f[n - 1] \in V  BY <1>2, <1>6
    <2>2. step[n][f[n - 1]] = Step(n, f[n - 1])  BY <1>4, <2>1
    <2>3. QED  BY <1>6, <2>2 DEF Runs
  <1>c. \A n \in 0..N : n = 0 \/ n \in 1..N  BY <1>2
  <1>d. \A n \in 0..N : f[n] = IF n = 0 THEN base ELSE Step(n, f[n - 1])  BY <1>c, <1>6, <1>7 DEF Runs
  <1>8. f = [n \in 0..N |-> IF n = 0 THEN base ELSE Step(n, f[n - 1])]  BY <1>6, <1>d
  <1>9. PICK g : /\ g = [n \in 0..N |-> IF n = 0 THEN base ELSE Step(n, g[n - 1])]
                 /\ Net!Filtered(ops, K) = g[N]
    BY Zenon, <1>3, <1>8
  <1>b. \A n \in 0..N : g[n] = IF n = 0 THEN base ELSE Step(n, g[n - 1])  BY Zenon, <1>9
  <1>10. g[0] = base /\ \A n \in 1..N : g[n] = Step(n, g[n - 1])  BY <1>2, <1>b
  <1>11. PICK T : T = {n \in 0..N : g[n] \in V}  BY Zenon
  <1>12. 0 \in T  BY <1>2, <1>10, <1>11
  <1>13. \A n \in 1..N : n - 1 \in T => n \in T  BY <1>2, <1>10, <1>11
  <1>14. 0..N \subseteq T  BY <1>2, <1>12, <1>13, UpTo, Zenon
  <1>15. N \in 0..N  BY <1>2
  <1>16. g[N] \in V  BY <1>11, <1>14, <1>15
  <1>17. QED  BY Zenon, <1>1, <1>9, <1>16

\* The names of rt_tables: two ids, neither with a name of ProtonWire's.
LEMMA NamesOfTables ==
    /\ DOMAIN Net!parse_rt_tables(Lines) = Named
    /\ \A id \in Named : Net!parse_rt_tables(Lines)[id] = "other"
  <1>1. DOMAIN Lines = 1..3 /\ Lines \in Seq([id : Nat, name : {"other"}])
    BY DEF Lines
  <1>2. /\ Lines[1].id = 0 /\ Lines[2].id = 51830 /\ Lines[3].id = 51821
        /\ \A i \in 1..3 : Lines[i].name = "other"
    BY DEF Lines
  <1>3. {line.id : line \in Net!Range(Lines)} = {0, 51830, 51821}
    <2>1. \A i \in 1..3 : i = 1 \/ i = 2 \/ i = 3  OBVIOUS
    <2>2. Net!Range(Lines) = {Lines[1], Lines[2], Lines[3]}
      BY <1>1, <2>1 DEF Net!Range
    <2>3. QED  BY <1>2, <2>2
  <1>4. ASSUME NEW id \in Named, NEW i,
               i = CHOOSE j \in DOMAIN Lines :
                       /\ Lines[j].id = id
                       /\ \A l \in DOMAIN Lines : Lines[l].id = id => l <= j
        PROVE i \in 1..3
    <2>1. \E j \in DOMAIN Lines : /\ Lines[j].id = id
                                 /\ \A l \in DOMAIN Lines : Lines[l].id = id => l <= j
      <3>1. CASE id = 51830
        <4>1. \A l \in 1..3 : Lines[l].id = 51830 => l <= 2  BY <1>2
        <4>2. QED  BY <1>1, <1>2, <3>1, <4>1
      <3>2. CASE id = 51821
        <4>1. \A l \in 1..3 : l <= 3  OBVIOUS
        <4>2. QED  BY <1>1, <1>2, <3>2, <4>1
      <3>3. QED  BY <3>1, <3>2 DEF Named
    <2>2. QED  BY Zenon, <1>1, <1>4, <2>1
  <1>5. DOMAIN Net!parse_rt_tables(Lines) = Named
    BY <1>3 DEF Net!parse_rt_tables, Named
  <1>6. ASSUME NEW id \in Named PROVE Net!parse_rt_tables(Lines)[id] = "other"
    <2>1. PICK i : i = CHOOSE j \in DOMAIN Lines :
                          /\ Lines[j].id = id
                          /\ \A l \in DOMAIN Lines : Lines[l].id = id => l <= j
      BY Zenon
    <2>2. i \in 1..3  BY Zenon, <1>4, <2>1
    <2>3. id \in {line.id : line \in Net!Range(Lines)} \ {0}  BY <1>3 DEF Named
    <2>4. Net!parse_rt_tables(Lines)[id] = Lines[i].name
      BY Zenon, <2>1, <2>3 DEF Net!parse_rt_tables
    <2>5. QED  BY <1>2, <2>2, <2>4
  <1>7. QED  BY <1>5, <1>6

\* The count the model takes of a set is its cardinality.
LEMMA SameCardinality == \A S : Net!Cardinality(S) = Cardinality(S)
  BY Zenon DEF Net!Cardinality, Cardinality

\* The scan for a free id ends: it is longer than what is taken.
LEMMA FirstFreeIsFree ==
    ASSUME NEW above \in Nat, above > 255, NEW survey, NEW claimed,
           IsFiniteSet(DOMAIN survey.named), IsFiniteSet(survey.occupied), IsFiniteSet(claimed)
    PROVE  /\ Net!FirstFree(above, survey, claimed) \in Nat
           /\ Net!free(Net!FirstFree(above, survey, claimed), survey, claimed)
  <1>1. PICK taken : taken = DOMAIN survey.named \cup survey.occupied \cup claimed  BY Zenon
  <1>2. IsFiniteSet(Net!PreferredIds)
    <2>1. Net!PreferredIds = {51820, 51821, 51822}
      BY DEF Net!PreferredIds, Net!preferred_id
    <2>2. PICK n \in Nat : n = 51822  OBVIOUS
    <2>3. Net!PreferredIds \in SUBSET Nat /\ \A id \in Net!PreferredIds : id <= n
      BY <2>1, <2>2
    <2>4. QED  BY Zenon, <2>3, FS_BoundedSetOfNaturals
  <1>3. PICK all : all = taken \cup Net!PreferredIds  BY Zenon
  <1>4. IsFiniteSet(all)
    <2>1. IsFiniteSet(DOMAIN survey.named \cup survey.occupied)  BY Zenon, FS_Union
    <2>2. IsFiniteSet(taken)  BY Zenon, <1>1, <2>1, FS_Union
    <2>3. QED  BY Zenon, <1>2, <1>3, <2>2, FS_Union
  <1>5. PICK n \in Nat : n = Cardinality(all)  BY Zenon, <1>4, FS_CardinalityType
  <1>6. PICK scan : scan = above + 1 .. above + 1 + n  BY Zenon
  <1>7. scan = Net!Scanned(above, survey, claimed)
    BY Zenon, <1>1, <1>3, <1>5, <1>6, SameCardinality DEF Net!Scanned
  <1>8. IsFiniteSet(scan) /\ Cardinality(scan) = n + 1
    <2>1. above + 1 \in Int /\ above + 1 + n \in Int /\ ~(above + 1 > above + 1 + n)
          /\ (above + 1 + n) - (above + 1) + 1 = n + 1
      OBVIOUS
    <2>2. QED  BY <1>6, <2>1, FS_Interval
  <1>9. \E id \in scan : id \notin all
    <2>1. SUFFICES ASSUME scan \in SUBSET all PROVE FALSE  BY Zenon
    <2>2. Cardinality(scan) <= Cardinality(all)  BY Zenon, <1>4, <2>1, FS_Subset
    <2>3. QED  BY <1>5, <1>8, <2>2
  <1>10. scan \subseteq Nat /\ \A id \in scan : id > 255  BY <1>6
  <1>11. ASSUME NEW id \in scan PROVE id \notin all => Net!free(id, survey, claimed)
    BY Zenon, <1>1, <1>3, <1>10, <1>11 DEF Net!free, Net!claimable, Net!KERNEL_RESERVED_MAX
  <1>12. PICK F : F = {id \in scan : Net!free(id, survey, claimed)}  BY Zenon
  <1>13. F \in SUBSET Nat /\ F # {}  BY Zenon, <1>9, <1>10, <1>11, <1>12
  <1>14. PICK m \in F : \A k \in F : m <= k  BY Zenon, <1>13, LeastElement
  <1>15. m \in scan /\ Net!free(m, survey, claimed)  BY Zenon, <1>12, <1>14
  <1>16. ASSUME NEW lower \in above + 1 .. m - 1 PROVE ~Net!free(lower, survey, claimed)
    <2>1. lower \in scan /\ ~(m <= lower)  BY <1>6, <1>10, <1>15
    <2>2. QED  BY Zenon, <1>12, <1>14, <2>1
  <1>17. \E id \in Net!Scanned(above, survey, claimed) :
            /\ Net!free(id, survey, claimed)
            /\ \A lower \in above + 1 .. id - 1 : ~Net!free(lower, survey, claimed)
    BY Zenon, <1>7, <1>15, <1>16
  <1>18. PICK id : id = Net!FirstFree(above, survey, claimed)  BY Zenon
  <1>19. id \in Net!Scanned(above, survey, claimed) /\ Net!free(id, survey, claimed)
    BY Zenon, <1>17, <1>18 DEF Net!FirstFree
  <1>20. QED  BY Zenon, <1>7, <1>10, <1>18, <1>19

\* A survey of a host whose bookkeeping is in order.
Surveyed(survey) ==
    /\ DOMAIN survey.named = Named /\ \A id \in Named : survey.named[id] = "other"
    /\ IsFiniteSet(survey.occupied)
    /\ survey.persisted \in Plans \cup {Net!NoRecord}

\* A kind's table is ProtonWire's to take: unnamed, unclaimed, and in use only
\* by rules of its own.
LEMMA Resolved ==
    ASSUME NEW kind \in {"main", "bypass", "lan"}, NEW survey, Surveyed(survey),
           NEW claimed, IsFiniteSet(claimed), NEW id, id = Net!resolve(kind, survey, claimed)
    PROVE  /\ id \in Own /\ id \notin claimed
           /\ id \in survey.occupied => id \in survey.occupied_by_us
  <1>1. CASE Net!Reclaimable(kind, survey, claimed)
    <2>1. id = survey.persisted[kind]  BY Zenon, <1>1 DEF Net!resolve
    <2>2. survey.persisted \in Plans  BY Zenon, <1>1 DEF Net!Reclaimable, Surveyed
    <2>3. id \in Own  BY <2>1, <2>2 DEF Plans
    <2>4. id \notin DOMAIN survey.named  BY Zenon, <2>3 DEF Surveyed, Own
    <2>5. /\ id \notin claimed
          /\ \/ id \notin survey.occupied \/ id \in survey.occupied_by_us
             \/ id \in DOMAIN survey.named
      BY Zenon, <1>1, <2>1 DEF Net!Reclaimable
    <2>6. QED  BY Zenon, <2>3, <2>4, <2>5
  <1>2. PICK above : above = Net!preferred_id[kind]  BY Zenon
  <1>3. above \in Nat /\ above > 255  BY <1>2 DEF Net!preferred_id
  <1>4. CASE ~Net!Reclaimable(kind, survey, claimed)
    <2>1. id \in Nat /\ Net!claimable(id, survey, claimed)
      <3>1. CASE Net!claimable(above, survey, claimed)
        BY Zenon, <1>2, <1>3, <1>4, <3>1 DEF Net!resolve
      <3>2. CASE ~Net!claimable(above, survey, claimed)
        <4>1. id = Net!FirstFree(above, survey, claimed)
          BY Zenon, <1>2, <1>4, <3>2 DEF Net!resolve
        <4>2. IsFiniteSet(DOMAIN survey.named)
          <5>1. PICK n \in Nat : n = 51830  OBVIOUS
          <5>2. Named \in SUBSET Nat /\ \A x \in Named : x <= n  BY <5>1 DEF Named
          <5>3. IsFiniteSet(Named)  BY Zenon, <5>2, FS_BoundedSetOfNaturals
          <5>4. QED  BY Zenon, <5>3 DEF Surveyed
        <4>3. IsFiniteSet(survey.occupied)  BY DEF Surveyed
        <4>4. id \in Nat /\ Net!free(id, survey, claimed)
          BY Zenon, <1>3, <4>1, <4>2, <4>3, FirstFreeIsFree
        <4>5. QED  BY Zenon, <4>4 DEF Net!free
      <3>3. QED  BY <3>1, <3>2
    <2>2. /\ id > 255 /\ id \notin Named /\ id \notin survey.occupied /\ id \notin claimed
      BY Zenon, <2>1 DEF Net!claimable, Net!KERNEL_RESERVED_MAX, Surveyed
    <2>3. QED  BY Zenon, <2>1, <2>2 DEF Own
  <1>5. QED  BY <1>1, <1>4

\* The tables a survey finds in use are finitely many.
LEMMA TablesAreFinite ==
    ASSUME NEW S, IsFiniteSet(S)
    PROVE  IsFiniteSet({x.table : x \in S})
  <1>1. PICK T : T = {x.table : x \in S}  BY Zenon
  <1>2. PICK f : f = [x \in S |-> x.table]  BY Zenon
  <1>3. f \in Surjection(S, T)  BY <1>1, <1>2 DEF Surjection
  <1>4. QED  BY Zenon, <1>1, <1>3, FS_Surjection

\* The survey of the host reads what the host has.
LEMMA SurveyIsSound ==
    ASSUME HostInv, CallerInv
    PROVE  Surveyed(Net!survey)
  <1>1. PICK sv : sv = Net!survey  BY Zenon
  <1>2. /\ sv.named = Net!parse_rt_tables(Lines)
        /\ sv.occupied = squat \cup {r.table : r \in DOMAIN rules} \cup {r.table : r \in routes}
        /\ sv.persisted = kept.tables
    BY <1>1 DEF Net!survey
  <1>3. IsFiniteSet({r.table : r \in DOMAIN rules})  BY Zenon, TablesAreFinite DEF HostInv
  <1>4. IsFiniteSet({r.table : r \in routes})  BY Zenon, TablesAreFinite DEF HostInv
  <1>5. IsFiniteSet(squat \cup {r.table : r \in DOMAIN rules})
    BY Zenon, <1>3, FS_Union DEF HostInv
  <1>a. IsFiniteSet(squat \cup {r.table : r \in DOMAIN rules} \cup {r.table : r \in routes})
    BY Zenon, <1>4, <1>5, FS_Union
  <1>6. IsFiniteSet(sv.occupied)  BY Zenon, <1>2, <1>a
  <1>7. QED  BY Zenon, <1>1, <1>2, <1>6, NamesOfTables DEF Surveyed, CallerInv

\* tables.rs plan: three tables of ProtonWire's own, none in use by others
\* alone, and the recorded main table while rules still point into it.
LEMMA PlanIsOwn ==
    ASSUME HostInv, CallerInv, NEW plan, plan = Net!plan_tables(Net!survey)
    PROVE  /\ plan \in Plans
           /\ \A id \in Net!ids(plan) :
                 id \in squat => id \in {r.table : r \in DOMAIN rules}
           /\ Net!Cardinality(Net!ids(plan)) = 3
           /\ \A r \in DOMAIN rules : r.table = kept.tables.main => plan.main = r.table
  <1>1. PICK sv : sv = Net!survey  BY Zenon
  <1>2. Surveyed(sv)  BY Zenon, <1>1, SurveyIsSound
  <1>3. PICK main : main = Net!resolve("main", sv, {})  BY Zenon
  <1>4. PICK bypass : bypass = Net!resolve("bypass", sv, {main})  BY Zenon
  <1>5. PICK lan : lan = Net!resolve("lan", sv, {main, bypass})  BY Zenon
  <1>6. plan = [main |-> main, bypass |-> bypass, lan |-> lan]
    BY Zenon, <1>1, <1>3, <1>4, <1>5 DEF Net!plan_tables
  <1>a. IsFiniteSet({}) /\ IsFiniteSet({main})  BY Zenon, FS_EmptySet, FS_Singleton
  <1>b. IsFiniteSet({main, bypass})
    <2>1. IsFiniteSet({main} \cup {bypass})  BY Zenon, <1>a, FS_AddElement
    <2>2. {main} \cup {bypass} = {main, bypass}  OBVIOUS
    <2>3. QED  BY <2>1, <2>2
  <1>7. main \in Own /\ (main \in sv.occupied => main \in sv.occupied_by_us)
    BY Zenon, <1>2, <1>3, <1>a, Resolved
  <1>8. /\ bypass \in Own /\ bypass \notin {main}
        /\ bypass \in sv.occupied => bypass \in sv.occupied_by_us
    BY Zenon, <1>2, <1>4, <1>a, Resolved
  <1>9. /\ lan \in Own /\ lan \notin {main, bypass}
        /\ lan \in sv.occupied => lan \in sv.occupied_by_us
    <2>1. PICK claimed : claimed = {main, bypass}  BY Zenon
    <2>2. IsFiniteSet(claimed) /\ lan = Net!resolve("lan", sv, claimed)  BY Zenon, <1>5, <1>b, <2>1
    <2>3. /\ lan \in Own /\ lan \notin claimed
          /\ lan \in sv.occupied => lan \in sv.occupied_by_us
      BY Zenon, <1>2, <2>2, Resolved
    <2>4. QED  BY Zenon, <2>1, <2>3
  <1>10. plan \in Plans  BY <1>6, <1>7, <1>8, <1>9 DEF Plans
  <1>11. Net!ids(plan) = {main, bypass, lan}  BY <1>6 DEF Net!ids
  <1>12. squat \subseteq sv.occupied /\ sv.occupied_by_us \subseteq {r.table : r \in DOMAIN rules}
    BY <1>1 DEF Net!survey
  <1>13. \A id \in Net!ids(plan) : id \in squat => id \in {r.table : r \in DOMAIN rules}
    BY Zenon, <1>7, <1>8, <1>9, <1>11, <1>12
  <1>14. Cardinality({main, bypass, lan}) = 3
    <2>1. Cardinality({main}) = 1  BY Zenon, FS_Singleton
    <2>a. Cardinality({main} \cup {bypass}) = Cardinality({main}) + 1
      BY Zenon, <1>8, <1>a, FS_AddElement
    <2>2. Cardinality({main} \cup {bypass}) = 2  BY <2>1, <2>a
    <2>3. {main} \cup {bypass} = {main, bypass} /\ {main, bypass} \cup {lan} = {main, bypass, lan}
      OBVIOUS
    <2>b. Cardinality({main, bypass} \cup {lan}) = Cardinality({main, bypass}) + 1
      <3>1. PICK pair : pair = {main, bypass}  BY Zenon
      <3>2. IsFiniteSet(pair) /\ lan \notin pair  BY Zenon, <1>9, <1>b, <3>1
      <3>3. Cardinality(pair \cup {lan}) = Cardinality(pair) + 1  BY Zenon, <3>2, FS_AddElement
      <3>4. QED  BY Zenon, <3>1, <3>3
    <2>4. Cardinality({main, bypass} \cup {lan}) = 3  BY <2>2, <2>3, <2>b
    <2>5. QED  BY <2>3, <2>4
  <1>15. ASSUME NEW r \in DOMAIN rules, r.table = kept.tables.main PROVE main = r.table
    <2>1. r \in RuleSpecs  BY DEF HostInv
    <2>2. r.table # 0 /\ r.priority \in 31699 .. 31700  BY <2>1 DEF RuleSpecs
    <2>3. sv.persisted = kept.tables /\ sv.persisted \in Plans
      <3>1. sv.persisted = kept.tables  BY <1>1 DEF Net!survey
      <3>2. Net!NoRecord.main = 0  BY DEF Net!NoRecord
      <3>3. QED  BY <1>15, <2>2, <3>1, <3>2 DEF CallerInv
    <2>4. r.table \in sv.occupied_by_us
      BY <1>1, <2>2 DEF Net!survey, Net!BYPASS_RULE_PRIORITY, Net!FULL_TUNNEL_RULE_PRIORITY
    <2>5. PICK id : id = sv.persisted["main"]  BY Zenon
    <2>6. id = r.table /\ id \in Own  BY <1>15, <2>3, <2>5 DEF Plans
    <2>7. \A other \in Net!Range(Net!Kinds) \ {"main"} : sv.persisted[other] # id
      <3>1. Net!Range(Net!Kinds) = {"main", "bypass", "lan"}
        <4>1. DOMAIN Net!Kinds = 1..3 /\ \A i \in 1..3 : i = 1 \/ i = 2 \/ i = 3  BY DEF Net!Kinds
        <4>2. Net!Range(Net!Kinds) = {Net!Kinds[1], Net!Kinds[2], Net!Kinds[3]}
          BY <4>1 DEF Net!Range
        <4>3. QED  BY <4>2 DEF Net!Kinds
      <3>2. sv.persisted["bypass"] # id /\ sv.persisted["lan"] # id  BY <2>3, <2>5 DEF Plans
      <3>3. QED  BY Zenon, <3>1, <3>2
    <2>8. id \notin DOMAIN sv.named  BY Zenon, <1>2, <2>6 DEF Surveyed, Own
    <2>9. id > Net!KERNEL_RESERVED_MAX  BY <2>6 DEF Own, Net!KERNEL_RESERVED_MAX
    <2>10. sv.persisted # Net!NoRecord
      <3>1. sv.persisted.main = id /\ Net!NoRecord.main = 0  BY <2>5 DEF Net!NoRecord
      <3>2. QED  BY <2>2, <2>6, <3>1
    <2>11. Net!Reclaimable("main", sv, {})
      BY Zenon, <2>4, <2>5, <2>6, <2>7, <2>8, <2>9, <2>10 DEF Net!Reclaimable
    <2>12. QED  BY Zenon, <1>3, <2>5, <2>6, <2>11 DEF Net!resolve
  <1>16. plan.main = main  BY <1>6
  <1>17. QED  BY Zenon, <1>10, <1>11, <1>13, <1>14, <1>15, <1>16, SameCardinality

-----------------------------------------------------------------------------
\* The desired state of a plan is operations a session may send.
LEMMA DesiredOps ==
    ASSUME NEW plan \in Plans, NEW ipv6
    PROVE  Net!desired_ops(plan, Net!MARK, ipv6, TRUE) \in Seq(NetOps)
  <1>1. plan.main \in Nat \ {0}  BY DEF Plans, Own
  <1>2. PICK bypass4, bypass6 :
          /\ bypass4 = Net!Op("AddRule", Net!Rule(Net!KERNEL_MAIN, Net!BYPASS_RULE_PRIORITY,
                                                  Net!MARK, "V4", "ToTable"))
          /\ bypass6 = Net!Op("AddRule", Net!Rule(Net!KERNEL_MAIN, Net!BYPASS_RULE_PRIORITY,
                                                  Net!MARK, "V6", "ToTable"))
    BY Zenon
  <1>3. PICK rule4, rule6, route4, route6 :
          /\ rule4 = Net!Op("AddRule", Net!Rule(plan.main, Net!FULL_TUNNEL_RULE_PRIORITY, 0,
                                                "V4", "ToTable"))
          /\ rule6 = Net!Op("AddRule", Net!Rule(plan.main, Net!FULL_TUNNEL_RULE_PRIORITY, 0,
                                                "V6", "ToTable"))
          /\ route4 = Net!Op("AddRoute", Net!Route(plan.main, "V4"))
          /\ route6 = Net!Op("AddRoute", Net!Route(plan.main, "V6"))
    BY Zenon
  <1>4. bypass4 \in NetOps /\ bypass6 \in NetOps
    BY <1>2 DEF NetOps, RuleSpecs, Net!Op, Net!Rule, Net!MARK, Net!KERNEL_MAIN,
       Net!BYPASS_RULE_PRIORITY, Net!FULL_TUNNEL_RULE_PRIORITY
  <1>5. rule4 \in NetOps /\ rule6 \in NetOps
    BY <1>1, <1>3 DEF NetOps, RuleSpecs, Net!Op, Net!Rule, Net!FULL_TUNNEL_RULE_PRIORITY
  <1>6. route4 \in NetOps /\ route6 \in NetOps
    BY <1>1, <1>3 DEF NetOps, RouteSpecs, Net!Op, Net!Route
  <1>7. PICK last : last \in {<<rule6, route6>>, <<>>} /\
          Net!desired_ops(plan, Net!MARK, ipv6, TRUE)
            = (<<bypass4, bypass6>> \o <<rule4, route4>>) \o last
    <2>1. Net!MARK # 0  BY DEF Net!MARK
    <2>2. CASE ipv6 = "Tunnelled"
      BY Zenon, <1>2, <1>3, <2>1, <2>2 DEF Net!desired_ops
    <2>3. CASE ipv6 # "Tunnelled"
      BY Zenon, <1>2, <1>3, <2>1, <2>3 DEF Net!desired_ops
    <2>4. QED  BY Zenon, <2>2, <2>3
  <1>8. last \in Seq(NetOps)
    <2>1. <<rule6, route6>> \in Seq(NetOps)  BY <1>5, <1>6
    <2>2. <<>> \in Seq(NetOps)  OBVIOUS
    <2>3. QED  BY Zenon, <1>7, <2>1, <2>2
  <1>9. PICK front : front = <<bypass4, bypass6>> \o <<rule4, route4>>  BY Zenon
  <1>10. front \in Seq(NetOps)  BY <1>4, <1>5, <1>6, <1>9
  <1>11. front \o last \in Seq(NetOps)  BY <1>8, <1>10
  <1>12. QED  BY Zenon, <1>7, <1>9, <1>11

\* The inverse of an operation is an operation.
LEMMA InverseOp == ASSUME NEW op \in NetOps PROVE Net!inverse(op) \in NetOps
  BY DEF NetOps, Net!inverse

\* What an operation may do to the host, done or failed half way.
LEMMA HostAfter ==
    ASSUME HostInv, NEW op \in NetOps,
           Net!Becomes(Net!Done(op).host) \/ \E after \in Net!Failed(op) : Net!Becomes(after),
           UNCHANGED squat
    PROVE  HostInv'
  <1>1. /\ Net!IsRule(op) => op.spec \in RuleSpecs
        /\ op.verb = "AddRule" => Net!IsRule(op)
    BY DEF NetOps, Net!IsRule
  <1>2. DOMAIN Net!More(op.spec) = DOMAIN rules \cup {op.spec}  BY DEF Net!More
  <1>3. \A n : DOMAIN Net!Less(op.spec, n) \subseteq DOMAIN rules
    BY DEF Net!Less, Net!Restrict
  <1>4. \/ DOMAIN rules' \in SUBSET DOMAIN rules
        \/ op.verb = "AddRule" /\ DOMAIN rules' = DOMAIN rules \cup {op.spec}
    <2>1. CASE Net!Becomes(Net!Done(op).host)
      <3>1. \/ rules' = rules
            \/ op.verb = "AddRule" /\ rules' = Net!More(op.spec)
            \/ \E n : rules' = Net!Less(op.spec, n)
        <4>0. PICK host : host = Net!Done(op).host /\ rules' = host[1]
          BY Zenon, <2>1 DEF Net!Becomes
        <4>1. CASE op.verb = "AddRule"
          <5>1. host \in {<<Net!More(op.spec), routes>>, <<rules, routes>>}
            BY <4>0, <4>1 DEF Net!Done
          <5>2. QED  BY <4>0, <4>1, <5>1
        <4>2. CASE op.verb = "DelRule" /\ Net!Present(op)
          BY <2>1, <4>2 DEF Net!Becomes, Net!Done
        <4>3. CASE op.verb # "AddRule" /\ ~(op.verb = "DelRule" /\ Net!Present(op))
          <5>1. host[1] = rules
            <6>1. CASE op.verb = "AddRoute"  BY <4>0, <6>1 DEF Net!Done
            <6>2. CASE op.verb = "DelRoute"  BY <4>0, <6>2 DEF Net!Done
            <6>3. CASE op.verb \notin {"AddRoute", "DelRoute"}  BY <4>0, <4>3, <6>3 DEF Net!Done
            <6>4. QED  BY Zenon, <6>1, <6>2, <6>3
          <5>2. QED  BY Zenon, <4>0, <5>1
        <4>4. QED  BY Zenon, <4>1, <4>2, <4>3
      <3>2. QED  BY <1>2, <1>3, <3>1
    <2>2. CASE \E after \in Net!Failed(op) : Net!Becomes(after)
      <3>1. rules' = rules \/ \E n : rules' = Net!Less(op.spec, n)
        BY <2>2 DEF Net!Becomes, Net!Failed
      <3>2. QED  BY <1>3, <3>1
    <2>3. QED  BY <2>1, <2>2
  <1>5. routes' \in SUBSET routes \/ routes' = routes \cup {op.spec}
    <2>1. CASE Net!Becomes(Net!Done(op).host)  BY <2>1 DEF Net!Becomes, Net!Done
    <2>2. CASE \E after \in Net!Failed(op) : Net!Becomes(after)
      BY <2>2 DEF Net!Becomes, Net!Failed
    <2>3. QED  BY <2>1, <2>2
  <1>6. IsFiniteSet(DOMAIN rules') /\ DOMAIN rules' \subseteq RuleSpecs
    <2>1. CASE DOMAIN rules' \in SUBSET DOMAIN rules  BY Zenon, <2>1, FS_Subset DEF HostInv
    <2>2. CASE op.verb = "AddRule" /\ DOMAIN rules' = DOMAIN rules \cup {op.spec}
      <3>1. IsFiniteSet(DOMAIN rules')  BY Zenon, <2>2, FS_AddElement DEF HostInv
      <3>2. QED  BY <1>1, <2>2, <3>1 DEF HostInv
    <2>3. QED  BY Zenon, <1>4, <2>1, <2>2
  <1>7. IsFiniteSet(routes')
    <2>1. CASE routes' \in SUBSET routes  BY Zenon, <2>1, FS_Subset DEF HostInv
    <2>2. CASE routes' = routes \cup {op.spec}  BY Zenon, <2>2, FS_AddElement DEF HostInv
    <2>3. QED  BY Zenon, <1>5, <2>1, <2>2
  <1>8. QED  BY <1>6, <1>7 DEF HostInv

-----------------------------------------------------------------------------
(* The steps of a session.                                                   *)

\* Sequences of operations, taken apart, grown and turned round.
LEMMA OpsSplit ==
    ASSUME NEW ops \in Seq(NetOps), ops # <<>>
    PROVE  Head(ops) \in NetOps /\ Tail(ops) \in Seq(NetOps)
  OBVIOUS

\* Inverting each operation gives operations.
LEMMA OpsInverted ==
    ASSUME NEW ops \in Seq(NetOps)
    PROVE  [i \in DOMAIN ops |-> Net!inverse(ops[i])] \in Seq(NetOps)
  <1>1. \A i \in DOMAIN ops : Net!inverse(ops[i]) \in NetOps  BY InverseOp
  <1>2. DOMAIN ops = 1..Len(ops) /\ Len(ops) \in Nat  OBVIOUS
  <1> HIDE DEF Net!inverse
  <1>3. QED  BY <1>1, <1>2

\* So does inverting them last first, as a rollback does.
LEMMA OpsReversed ==
    ASSUME NEW ops \in Seq(NetOps)
    PROVE  [i \in DOMAIN ops |-> Net!inverse(ops[Len(ops) + 1 - i])] \in Seq(NetOps)
  <1>1. DOMAIN ops = 1..Len(ops) /\ Len(ops) \in Nat  OBVIOUS
  <1>2. \A i \in DOMAIN ops : ops[Len(ops) + 1 - i] \in NetOps  BY <1>1
  <1>3. \A i \in DOMAIN ops : Net!inverse(ops[Len(ops) + 1 - i]) \in NetOps
    BY Zenon, <1>2, InverseOp
  <1>4. QED  BY <1>1, <1>3

\* disconnect sends operations.
LEMMA CleanupOps ==
    ASSUME NEW ops \in Seq(NetOps), NEW present
    PROVE  Net!cleanup_ops(ops, present) \in Seq(NetOps)
  <1>1. PICK K : K = {op \in present : op.verb \in {"AddRule", "AddRoute"}}  BY Zenon
  <1>2. PICK added : added = Net!Filtered(ops, K)  BY Zenon
  <1>3. added \in Seq(NetOps)  BY Zenon, <1>2, FilteredOps
  <1>4. [i \in DOMAIN added |-> Net!inverse(added[i])] \in Seq(NetOps)  BY Zenon, <1>3, OpsInverted
  <1>5. QED  BY Zenon, <1>1, <1>2, <1>4 DEF Net!cleanup_ops

\* What a step leaves alone stays in order.
LEMMA HostKept == ASSUME HostInv, UNCHANGED <<Net!net, squat>> PROVE HostInv'
  BY DEF HostInv, Net!net

\* So does the caller's record.
LEMMA CallerKept == ASSUME CallerInv, UNCHANGED <<kept, session>> PROVE CallerInv'
  BY DEF CallerInv

\* A sequence that ends leaves no work.
LEMMA Returned == ASSUME NEW how, Net!Return(how) PROVE JobInv' /\ SwitchInv'
  <1>1. pc' = "idle" /\ job' = Net!NoJob  BY DEF Net!Return
  <1>2. DOMAIN job' = JobFields /\ job'.todo = <<>> /\ job'.applied = <<>> /\ job'.undo = <<>>
    BY <1>1 DEF Net!NoJob, JobFields
  <1>3. <<>> \in Seq(NetOps)  OBVIOUS
  <1>4. JobInv'  BY <1>1, <1>2, <1>3 DEF JobInv
  <1>5. SwitchInv'  BY <1>1 DEF SwitchInv
  <1>6. QED  BY <1>4, <1>5

\* The work of a step that goes on elsewhere than to the routes.
LEMMA JobKept ==
    ASSUME JobInv, job' = job, pc' # "commit",
           pc' \in {"arm", "probe", "dns", "capture", "replace"} => job.plan \in Plans
    PROVE  JobInv' /\ SwitchInv'
  BY DEF JobInv, SwitchInv

\* Another field of the work changes.
LEMMA JobAside ==
    ASSUME JobInv, NEW field \in {"ipv6", "dns", "stuck", "before", "evidence", "backend"},
           NEW value, job' = [job EXCEPT ![field] = value], pc' # "commit",
           pc' \in {"arm", "probe", "dns", "capture", "replace"} => job.plan \in Plans
    PROVE  JobInv' /\ SwitchInv'
  <1>1. /\ DOMAIN job' = JobFields
        /\ job'.todo = job.todo /\ job'.applied = job.applied
        /\ job'.undo = job.undo /\ job'.plan = job.plan
    BY DEF JobInv, JobFields
  <1>2. QED  BY <1>1 DEF JobInv, SwitchInv

\* connect begins with no plan and nothing to send.
LEMMA ConnectSteps ==
    ASSUME NetInv, NEW ipv6, NEW servers, Net!Connect(ipv6, servers) PROVE NetInv'
  <1>1. HostInv'  BY HostKept DEF Net!Connect, NetInv
  <1>2. CallerInv'  BY CallerKept DEF Net!Connect, NetInv
  <1>3. pc' = "plan" /\ job' = [Net!NoJob EXCEPT !.ipv6 = ipv6, !.dns = servers]
    BY DEF Net!Connect
  <1>4. DOMAIN job' = JobFields /\ job'.todo = <<>> /\ job'.applied = <<>> /\ job'.undo = <<>>
    BY <1>3 DEF Net!NoJob, JobFields
  <1>5. <<>> \in Seq(NetOps)  OBVIOUS
  <1>6. JobInv' /\ SwitchInv'  BY Zenon, <1>3, <1>4, <1>5 DEF JobInv, SwitchInv
  <1>7. QED  BY <1>1, <1>2, <1>6 DEF NetInv

\* The plan is of ProtonWire's own tables.
LEMMA PlanSteps == ASSUME NetInv, Net!plan_with PROVE NetInv'
  <1>1. HostInv'  BY HostKept DEF Net!plan_with, NetInv
  <1>2. CallerInv'  BY CallerKept DEF Net!plan_with, Net!caller, NetInv
  <1>3. PICK plan : plan = Net!plan_tables(Net!survey)  BY Zenon
  <1>4. plan \in Plans  BY Zenon, <1>3, PlanIsOwn DEF NetInv
  <1>5. CASE pc' = "arm" /\ job' = [job EXCEPT !.plan = plan]
    <2>1. /\ DOMAIN job' = JobFields /\ job'.plan = plan
          /\ job'.todo = job.todo /\ job'.applied = job.applied /\ job'.undo = job.undo
      BY <1>5 DEF NetInv, JobInv, JobFields
    <2>2. JobInv' /\ SwitchInv'  BY <1>4, <1>5, <2>1 DEF NetInv, JobInv, SwitchInv
    <2>3. QED  BY <1>1, <1>2, <2>2 DEF NetInv
  <1>6. CASE Net!Return("failed")
    <2>1. JobInv' /\ SwitchInv'  BY Zenon, <1>6, Returned
    <2>2. QED  BY <1>1, <1>2, <2>1 DEF NetInv
  <1>7. QED  BY Zenon, <1>3, <1>5, <1>6 DEF Net!plan_with, Net!Go

\* The switch is installed, or refused as a lookalike.
LEMMA ArmSteps == ASSUME NetInv, Net!Arm PROVE NetInv'
  <1>1. HostInv'  BY HostKept DEF Net!Arm, NetInv
  <1>2. CallerInv'  BY CallerKept DEF Net!Arm, Net!caller, NetInv
  <1>3. pc = "arm"  BY DEF Net!Arm
  <1>4. JobInv' /\ SwitchInv'
    <2>1. CASE pc' = "probe" /\ job' = job
      <3>1. job.plan \in Plans  BY <1>3 DEF NetInv, JobInv
      <3>2. QED  BY <2>1, <3>1, JobKept DEF NetInv
    <2>2. CASE Net!Return("failed")  BY Zenon, <2>2, Returned
    <2>3. QED  BY Zenon, <2>1, <2>2 DEF Net!Arm, Net!Go
  <1>5. QED  BY <1>1, <1>2, <1>4 DEF NetInv

\* The routes are begun only after the switch was seen in place.
LEMMA ProbeSteps == ASSUME NetInv, Net!Probe PROVE NetInv'
  <1>1. HostInv'  BY HostKept DEF Net!Probe, NetInv
  <1>2. CallerInv'  BY CallerKept DEF Net!Probe, Net!caller, NetInv
  <1>3. pc = "probe" /\ nft' = nft /\ generation' = generation  BY DEF Net!Probe, Net!caller
  <1>4. job.plan \in Plans  BY <1>3 DEF NetInv, JobInv
  <1>5. PICK desired : desired = Net!desired_ops(job.plan, Net!MARK, job.ipv6, TRUE)  BY Zenon
  <1>6. desired \in Seq(NetOps)  BY Zenon, <1>4, <1>5, DesiredOps
  <1>7. PICK before : before = {op \in Net!Range(desired) : Net!Present(op)}  BY Zenon
  <1>8. JobInv' /\ SwitchInv'
    <2>1. CASE /\ nft = {Net!Switch(generation)} /\ pc' = "commit"
               /\ job' = [job EXCEPT !.todo = desired, !.before = before]
      <3>1. /\ DOMAIN job' = JobFields /\ job'.plan = job.plan
            /\ job'.todo = desired /\ job'.applied = job.applied /\ job'.undo = job.undo
        BY <2>1 DEF NetInv, JobInv, JobFields
      <3>2. JobInv'  BY <1>4, <1>6, <3>1 DEF NetInv, JobInv
      <3>3. SwitchInv'  BY <1>3, <2>1 DEF SwitchInv, Net!Armed, Net!Switch
      <3>4. QED  BY <3>2, <3>3
    <2>2. CASE Net!Return("failed")  BY Zenon, <2>2, Returned
    <2>3. QED  BY Zenon, <1>5, <1>7, <2>1, <2>2 DEF Net!Probe, Net!Go
  <1>9. QED  BY <1>1, <1>2, <1>8 DEF NetInv

\* An operation is done, or fails and turns the batch round.
LEMMA ExecSteps == ASSUME NetInv, Net!Exec PROVE NetInv'
  <1>1. CallerInv'  BY CallerKept DEF Net!Exec, Net!caller, NetInv
  <1>2. /\ pc \in {"commit", "uncommit", "repair"} /\ job.todo # <<>>
        /\ nft' = nft /\ squat' = squat /\ generation' = generation
    BY DEF Net!Exec, Net!Applying, Net!rollbackOf, Net!caller
  <1>3. /\ job.todo \in Seq(NetOps) /\ job.applied \in Seq(NetOps)
        /\ job.undo \in Seq(NetOps) /\ DOMAIN job = JobFields
    BY DEF NetInv, JobInv
  <1>4. PICK op : op = Head(job.todo)  BY Zenon
  <1>5. op \in NetOps /\ Tail(job.todo) \in Seq(NetOps)  BY Zenon, <1>2, <1>3, <1>4, OpsSplit
  <1>6. PICK sent : sent \in {job.applied, Append(job.applied, op)} /\
          \/ /\ Net!Becomes(Net!Done(op).host) /\ pc' = pc
             /\ job' = [job EXCEPT !.todo = Tail(job.todo), !.applied = sent]
          \/ /\ \E after \in Net!Failed(op) : Net!Becomes(after)
             /\ pc' = Net!rollbackOf[pc]
             /\ job' = [job EXCEPT !.todo = <<>>,
                           !.undo = [i \in DOMAIN job.applied |->
                               Net!inverse(job.applied[Len(job.applied) + 1 - i])]]
    <2>1. CASE Net!Done(op).changed  BY Zenon, <1>4, <2>1 DEF Net!Exec, Net!Go
    <2>2. CASE ~Net!Done(op).changed  BY Zenon, <1>4, <2>2 DEF Net!Exec, Net!Go
    <2>3. QED  BY Zenon, <2>1, <2>2
  <1>7. HostInv'  BY Zenon, <1>2, <1>5, <1>6, HostAfter DEF NetInv
  <1>8. JobInv' /\ SwitchInv'
    <2>1. CASE pc' = pc /\ job' = [job EXCEPT !.todo = Tail(job.todo), !.applied = sent]
      <3>1. sent \in Seq(NetOps)
        <4>1. Append(job.applied, op) \in Seq(NetOps)  BY <1>3, <1>5
        <4>2. QED  BY Zenon, <1>3, <1>6, <4>1
      <3>2. /\ DOMAIN job' = JobFields /\ job'.plan = job.plan
            /\ job'.todo = Tail(job.todo) /\ job'.applied = sent /\ job'.undo = job.undo
        BY <1>3, <2>1 DEF JobFields
      <3>3. JobInv'  BY <1>3, <1>5, <2>1, <3>1, <3>2 DEF NetInv, JobInv
      <3>4. SwitchInv'  BY <1>2, <2>1 DEF NetInv, SwitchInv, Net!Armed, Net!Switch
      <3>5. QED  BY <3>3, <3>4
    <2>2. CASE /\ pc' = Net!rollbackOf[pc]
               /\ job' = [job EXCEPT !.todo = <<>>,
                           !.undo = [i \in DOMAIN job.applied |->
                               Net!inverse(job.applied[Len(job.applied) + 1 - i])]]
      <3>1. PICK undo : undo = [i \in DOMAIN job.applied |->
                               Net!inverse(job.applied[Len(job.applied) + 1 - i])]
        BY Zenon
      <3>2. undo \in Seq(NetOps)  BY Zenon, <1>3, <3>1, OpsReversed
      <3>3. job' = [job EXCEPT !.todo = <<>>, !.undo = undo]  BY Zenon, <2>2, <3>1
      <3>4. /\ DOMAIN job' = JobFields
            /\ job'.todo = <<>> /\ job'.applied = job.applied /\ job'.undo = undo
        BY <1>3, <3>3 DEF JobFields
      <3>5. pc' \in {"rollback", "unrollback", "unrepair"}  BY <1>2, <2>2 DEF Net!rollbackOf
      <3>6. <<>> \in Seq(NetOps)  OBVIOUS
      <3>7. QED  BY <1>3, <3>2, <3>4, <3>5, <3>6 DEF JobInv, SwitchInv
    <2>3. QED  BY Zenon, <1>6, <2>1, <2>2
  <1>9. QED  BY <1>1, <1>7, <1>8 DEF NetInv

\* One inverse of a rollback, done or failed.
LEMMA UndoSteps == ASSUME NetInv, Net!Undo PROVE NetInv'
  <1>1. CallerInv'  BY CallerKept DEF Net!Undo, Net!caller, NetInv
  <1>2. pc \in {"rollback", "unrollback", "unrepair"}
    <2>1. DOMAIN Net!rollbackOf = {"commit", "uncommit", "repair"}  BY DEF Net!rollbackOf
    <2>2. pc \in {Net!rollbackOf[p] : p \in {"commit", "uncommit", "repair"}}
      BY Zenon, <2>1 DEF Net!Undo
    <2>3. QED  BY <2>2 DEF Net!rollbackOf
  <1>3. pc' = pc /\ squat' = squat /\ job.undo # <<>>  BY DEF Net!Undo, Net!Go
  <1>4. /\ job.todo \in Seq(NetOps) /\ job.applied \in Seq(NetOps)
        /\ job.undo \in Seq(NetOps) /\ DOMAIN job = JobFields
    BY DEF NetInv, JobInv
  <1>5. PICK op : op = Head(job.undo)  BY Zenon
  <1>6. op \in NetOps /\ Tail(job.undo) \in Seq(NetOps)  BY Zenon, <1>3, <1>4, <1>5, OpsSplit
  <1>7. \/ /\ Net!Becomes(Net!Done(op).host)
           /\ job' = [job EXCEPT !.undo = Tail(job.undo)]
        \/ /\ \E after \in Net!Failed(op) : Net!Becomes(after)
           /\ job' = [job EXCEPT !.undo = Tail(job.undo), !.stuck = TRUE]
    BY <1>5 DEF Net!Undo
  <1>8. HostInv'  BY Zenon, <1>3, <1>6, <1>7, HostAfter DEF NetInv
  <1>9. /\ DOMAIN job' = JobFields
        /\ job'.todo = job.todo /\ job'.applied = job.applied /\ job'.undo = Tail(job.undo)
    <2>1. CASE job' = [job EXCEPT !.undo = Tail(job.undo)]  BY <1>4, <2>1 DEF JobFields
    <2>2. CASE job' = [job EXCEPT !.undo = Tail(job.undo), !.stuck = TRUE]
      BY <1>4, <2>2 DEF JobFields
    <2>3. QED  BY Zenon, <1>7, <2>1, <2>2
  <1>10. JobInv' /\ SwitchInv'  BY <1>2, <1>3, <1>4, <1>6, <1>9 DEF JobInv, SwitchInv
  <1>11. QED  BY <1>1, <1>8, <1>10 DEF NetInv

\* A batch is through.
LEMMA AppliedSteps == ASSUME NetInv, Net!Applied PROVE NetInv'
  <1>1. HostInv'  BY HostKept DEF Net!Applied, NetInv
  <1>2. CallerInv'  BY CallerKept DEF Net!Applied, Net!caller, NetInv
  <1>3. JobInv' /\ SwitchInv'
    <2>1. CASE pc = "commit" /\ pc' = "dns" /\ job' = job
      <3>1. job.plan \in Plans  BY <2>1 DEF NetInv, JobInv
      <3>2. QED  BY <2>1, <3>1, JobKept DEF NetInv
    <2>2. CASE pc' = "disarm" /\ job' = job  BY <2>2, JobKept DEF NetInv
    <2>3. CASE Net!Return("repaired")  BY Zenon, <2>3, Returned
    <2>4. QED  BY Zenon, <2>1, <2>2, <2>3 DEF Net!Applied, Net!Go
  <1>4. QED  BY <1>1, <1>2, <1>3 DEF NetInv

\* A rollback of a disconnect or a repair is through.
LEMMA RolledBackSteps == ASSUME NetInv, Net!RolledBack PROVE NetInv'
  <1>1. HostInv'  BY HostKept DEF Net!RolledBack, NetInv
  <1>2. CallerInv'  BY CallerKept DEF Net!RolledBack, Net!caller, NetInv
  <1>3. JobInv' /\ SwitchInv'  BY Zenon, Returned DEF Net!RolledBack
  <1>4. QED  BY <1>1, <1>2, <1>3 DEF NetInv

\* A rollback of a connect is through, and its switch removed.
LEMMA GiveUpSteps == ASSUME NetInv, Net!GiveUp PROVE NetInv'
  <1>1. HostInv'  BY HostKept DEF Net!GiveUp, NetInv
  <1>2. CallerInv'  BY CallerKept DEF Net!GiveUp, Net!caller, NetInv
  <1>3. JobInv' /\ SwitchInv'  BY Zenon, Returned DEF Net!GiveUp
  <1>4. QED  BY <1>1, <1>2, <1>3 DEF NetInv

\* connect returns Ok: the caller's new record is of the work done.
LEMMA EstablishedHolds ==
    ASSUME NetInv, NEW evidence, NEW backend, Net!Established(evidence, backend),
           job.plan \in Plans
    PROVE  JobInv' /\ SwitchInv' /\ CallerInv'
  <1>1. JobInv' /\ SwitchInv'
    <2>1. Net!Return("connected")  BY DEF Net!Established
    <2>2. QED  BY Zenon, <2>1, Returned
  <1>2. /\ session'.installed = job.applied /\ session'.plan = job.plan
        /\ kept'.tables = job.plan
    BY DEF Net!Established
  <1>3. QED  BY <1>1, <1>2 DEF NetInv, JobInv, CallerInv

\* The resolver is chosen, or the connect is complete without one.
LEMMA DnsSteps == ASSUME NetInv, Net!ApplyDns PROVE NetInv'
  <1>1. HostInv'  BY HostKept DEF Net!ApplyDns, NetInv
  <1>2. job.plan \in Plans  BY DEF Net!ApplyDns, NetInv, JobInv
  <1>3. PICK backend \in {"resolved", "file"} :
          \/ Net!Established(Net!NoFile, backend)
          \/ /\ job' = [job EXCEPT !.backend = backend] /\ pc' = "capture"
             /\ UNCHANGED <<session, kept>>
    BY Zenon DEF Net!ApplyDns, Net!Go
  <1>4. JobInv' /\ SwitchInv' /\ CallerInv'
    <2>1. CASE Net!Established(Net!NoFile, backend)
      <3>1. PICK file : file = Net!NoFile  BY Zenon
      <3>2. QED  BY Zenon, <1>2, <2>1, <3>1, EstablishedHolds
    <2>2. CASE /\ job' = [job EXCEPT !.backend = backend] /\ pc' = "capture"
               /\ UNCHANGED <<session, kept>>
      <3>1. CallerInv'  BY <2>2, CallerKept DEF NetInv
      <3>2. PICK field : field = "backend"  BY Zenon
      <3>3. job' = [job EXCEPT ![field] = backend]  BY <2>2, <3>2
      <3>4. JobInv' /\ SwitchInv'  BY <1>2, <2>2, <3>2, <3>3, JobAside DEF NetInv
      <3>5. QED  BY <3>1, <3>4
    <2>3. QED  BY Zenon, <1>3, <2>1, <2>2
  <1>5. QED  BY <1>1, <1>4 DEF NetInv

\* The resolver's file is captured.
LEMMA CaptureSteps == ASSUME NetInv, Net!capture_resolv_conf PROVE NetInv'
  <1>1. HostInv'  BY HostKept DEF Net!capture_resolv_conf, NetInv
  <1>2. CallerInv'  BY CallerKept DEF Net!capture_resolv_conf, Net!caller, NetInv
  <1>3. job.plan \in Plans  BY DEF Net!capture_resolv_conf, NetInv, JobInv
  <1>4. JobInv' /\ SwitchInv'
    <2>1. CASE pc' = "replace" /\ job' = [job EXCEPT !.evidence = resolv]
      <3>1. PICK field : field = "evidence"  BY Zenon
      <3>2. job' = [job EXCEPT ![field] = resolv]  BY <2>1, <3>1
      <3>3. QED  BY <1>3, <2>1, <3>1, <3>2, JobAside DEF NetInv
    <2>2. CASE Net!Return("failed")  BY Zenon, <2>2, Returned
    <2>3. QED  BY Zenon, <2>1, <2>2 DEF Net!capture_resolv_conf, Net!Go
  <1>5. QED  BY <1>1, <1>2, <1>4 DEF NetInv

\* The resolver's file is replaced and the connect is complete.
LEMMA ReplaceSteps == ASSUME NetInv, Net!apply_resolv_conf PROVE NetInv'
  <1>1. HostInv'  BY HostKept DEF Net!apply_resolv_conf, NetInv
  <1>2. job.plan \in Plans  BY DEF Net!apply_resolv_conf, NetInv, JobInv
  <1>3. CASE Net!Established(job.evidence, job.backend)
    <2>1. JobInv' /\ SwitchInv' /\ CallerInv'  BY Zenon, <1>2, <1>3, EstablishedHolds
    <2>2. QED  BY <1>1, <2>1 DEF NetInv
  <1>4. CASE Net!Return("failed") /\ UNCHANGED <<session, kept>>
    <2>1. JobInv' /\ SwitchInv'  BY Zenon, <1>4, Returned
    <2>2. CallerInv'  BY <1>4, CallerKept DEF NetInv
    <2>3. QED  BY <1>1, <2>1, <2>2 DEF NetInv
  <1>5. QED  BY <1>3, <1>4 DEF Net!apply_resolv_conf

\* disconnect puts the resolver back and begins anew.
LEMMA DisconnectSteps == ASSUME NetInv, Net!Disconnect PROVE NetInv'
  <1>1. HostInv'  BY HostKept DEF Net!Disconnect, NetInv
  <1>2. CallerInv'  BY CallerKept DEF Net!Disconnect, Net!caller, NetInv
  <1>3. pc' = "cleanup" /\ job' = Net!NoJob  BY DEF Net!Disconnect
  <1>4. JobInv' /\ SwitchInv'
    <2>1. DOMAIN job' = JobFields /\ job'.todo = <<>> /\ job'.applied = <<>> /\ job'.undo = <<>>
      BY Zenon, <1>3 DEF Net!NoJob, JobFields
    <2>2. <<>> \in Seq(NetOps)  OBVIOUS
    <2>3. QED  BY <1>3, <2>1, <2>2 DEF JobInv, SwitchInv
  <1>5. QED  BY <1>1, <1>2, <1>4 DEF NetInv

\* A sequence that begins with operations to send.
LEMMA Begun ==
    ASSUME DOMAIN job' = JobFields, job'.todo \in Seq(NetOps),
           job'.applied = <<>>, job'.undo = <<>>, pc' \in {"uncommit", "repair"}
    PROVE  JobInv' /\ SwitchInv'
  <1>1. <<>> \in Seq(NetOps)  OBVIOUS
  <1>2. QED  BY <1>1 DEF JobInv, SwitchInv

\* disconnect probes its session's operations and inverts them.
LEMMA CleanupSteps == ASSUME NetInv, Net!Cleanup PROVE NetInv'
  <1>1. HostInv'  BY HostKept DEF Net!Cleanup, NetInv
  <1>2. CallerInv'  BY CallerKept DEF Net!Cleanup, Net!caller, NetInv
  <1>3. PICK ops : ops = Net!cleanup_ops(session.installed,
                            {op \in Net!Range(session.installed) : Net!Present(op)})
    BY Zenon
  <1>4. ops \in Seq(NetOps)
    <2>1. session.installed \in Seq(NetOps)  BY DEF NetInv, CallerInv
    <2>2. PICK S : S = {op \in Net!Range(session.installed) : Net!Present(op)}  BY Zenon
    <2>3. QED  BY Zenon, <1>3, <2>1, <2>2, CleanupOps
  <1>5. JobInv' /\ SwitchInv'
    <2>1. CASE pc' = "uncommit" /\ job' = [Net!NoJob EXCEPT !.plan = session.plan, !.todo = ops]
      <3>1. /\ DOMAIN job' = JobFields /\ job'.todo = ops /\ job'.applied = <<>>
            /\ job'.undo = <<>>
        BY <2>1 DEF Net!NoJob, JobFields
      <3>2. pc' \in {"uncommit", "repair"}  BY <2>1
      <3>3. QED  BY Zenon, <1>4, <3>1, <3>2, Begun
    <2>2. CASE Net!Return("failed")  BY Zenon, <2>2, Returned
    <2>3. QED  BY Zenon, <1>3, <2>1, <2>2 DEF Net!Cleanup, Net!Go
  <1>6. QED  BY <1>1, <1>2, <1>5 DEF NetInv

\* disconnect removes the switch, or leaves a permanent one.
LEMMA DisarmSteps == ASSUME NetInv, Net!Disarm PROVE NetInv'
  <1>1. HostInv'  BY HostKept DEF Net!Disarm, NetInv
  <1>2. JobInv' /\ SwitchInv'
    <2>1. \E how : Net!Return(how)  BY Zenon DEF Net!Disarm
    <2>2. QED  BY Zenon, <2>1, Returned
  <1>3. CallerInv'
    <2>1. kept' = kept /\ session' \in {session, Net!NoSession}  BY DEF Net!Disarm
    <2>2. Net!NoSession.installed = <<>> /\ <<>> \in Seq(NetOps)  BY DEF Net!NoSession
    <2>3. CASE session' = session  BY <2>1, <2>3, CallerKept DEF NetInv
    <2>4. CASE session' = Net!NoSession  BY Zenon, <2>1, <2>2, <2>4 DEF NetInv, CallerInv
    <2>5. QED  BY Zenon, <2>1, <2>3, <2>4
  <1>4. QED  BY <1>1, <1>2, <1>3 DEF NetInv

\* A repair sends what is missing of the desired state.
LEMMA RepairSteps == ASSUME NetInv, Net!Repair PROVE NetInv'
  <1>1. HostInv'  BY HostKept DEF Net!Repair, NetInv
  <1>2. CallerInv'  BY CallerKept DEF Net!Repair, Net!caller, NetInv
  <1>3. session.plan \in Plans  BY Zenon DEF Net!Repair, NetInv, CallerInv
  <1>4. PICK plan : plan = session.plan  BY Zenon
  <1>5. PICK desired : desired = Net!desired_ops(plan, Net!MARK, session.ipv6, TRUE)  BY Zenon
  <1>6. desired \in Seq(NetOps)
    <2>1. PICK ipv6 : ipv6 = session.ipv6  BY Zenon
    <2>2. QED  BY Zenon, <1>3, <1>4, <1>5, <2>1, DesiredOps
  <1>7. PICK present : present = Net!Filtered(desired, {op \in Net!Range(desired) : Net!Present(op)})
    BY Zenon
  <1>8. PICK ops : ops = Net!repair_ops(desired, present)  BY Zenon
  <1>9. ops \in Seq(NetOps)
    <2>1. PICK K : K = Net!Range(desired) \ Net!Range(present)  BY Zenon
    <2>2. ops = Net!Filtered(desired, K)  BY Zenon, <1>8, <2>1 DEF Net!repair_ops
    <2>3. QED  BY Zenon, <1>6, <2>2, FilteredOps
  <1>10. JobInv' /\ SwitchInv'
    <2>1. CASE pc' = "repair" /\ job' = [Net!NoJob EXCEPT !.plan = plan, !.todo = ops]
      <3>1. /\ DOMAIN job' = JobFields /\ job'.todo = ops /\ job'.applied = <<>>
            /\ job'.undo = <<>>
        BY <2>1 DEF Net!NoJob, JobFields
      <3>2. pc' \in {"uncommit", "repair"}  BY <2>1
      <3>3. QED  BY Zenon, <1>9, <3>1, <3>2, Begun
    <2>2. CASE Net!Return("failed")  BY Zenon, <2>2, Returned
    <2>3. QED  BY Zenon, <1>4, <1>5, <1>7, <1>8, <2>1, <2>2 DEF Net!Repair
  <1>11. QED  BY <1>1, <1>2, <1>10 DEF NetInv

\* The early firewall is installed while nothing is in progress.
LEMMA EarlySteps == ASSUME NetInv, Net!EarlyFirewall PROVE NetInv'
  <1>1. HostInv'  BY HostKept DEF Net!EarlyFirewall, NetInv
  <1>2. CallerInv'  BY CallerKept DEF Net!EarlyFirewall, NetInv
  <1>3. JobInv' /\ SwitchInv'  BY Zenon, Returned DEF Net!EarlyFirewall
  <1>4. QED  BY <1>1, <1>2, <1>3 DEF NetInv

\* The permanent switch is disabled while nothing is in progress.
LEMMA DisableSteps == ASSUME NetInv, Net!Disable PROVE NetInv'
  <1>1. HostInv'  BY HostKept DEF Net!Disable, NetInv
  <1>2. CallerInv'  BY CallerKept DEF Net!Disable, NetInv
  <1>3. pc' = "idle" /\ job' = job  BY DEF Net!Disable
  <1>4. JobInv' /\ SwitchInv'  BY <1>3, JobKept DEF NetInv
  <1>5. QED  BY <1>1, <1>2, <1>4 DEF NetInv

\* A stop of the process takes the routes and ends the work.
LEMMA CrashSteps == ASSUME NetInv, Net!Crash PROVE NetInv'
  <1>1. HostInv'
    <2>1. rules' = rules /\ squat' = squat /\ routes' = {}  BY DEF Net!Crash
    <2>2. IsFiniteSet({})  BY Zenon, FS_EmptySet
    <2>3. QED  BY <2>1, <2>2 DEF NetInv, HostInv
  <1>2. CallerInv'
    <2>1. kept' = kept /\ session' = Net!NoSession  BY DEF Net!Crash
    <2>2. Net!NoSession.installed = <<>> /\ <<>> \in Seq(NetOps)  BY DEF Net!NoSession
    <2>3. QED  BY <2>1, <2>2 DEF NetInv, CallerInv
  <1>3. JobInv' /\ SwitchInv'  BY Zenon, Returned DEF Net!Crash
  <1>4. QED  BY <1>1, <1>2, <1>3 DEF NetInv

\* The steps of other managers leave the work and its switch alone.
LEMMA OthersLeave ==
    ASSUME NetInv, HostInv', UNCHANGED <<Net!caller, pc, job>>, nft \subseteq nft'
    PROVE  NetInv'
  <1>1. CallerInv'  BY CallerKept DEF Net!caller, NetInv
  <1>2. JobInv'  BY DEF NetInv, JobInv
  <1>3. SwitchInv'  BY DEF NetInv, SwitchInv, Net!caller, Net!Armed, Net!Switch
  <1>4. QED  BY <1>1, <1>2, <1>3 DEF NetInv

\* Another manager takes a table.
LEMMA SquatSteps == ASSUME NetInv, Net!Squat PROVE NetInv'
  <1>1. PICK id : squat' = squat \cup {id}  BY DEF Net!Squat
  <1>2. IsFiniteSet(squat')  BY Zenon, <1>1, FS_AddElement DEF NetInv, HostInv
  <1>3. HostInv'  BY Zenon, <1>2 DEF Net!Squat, Net!net, NetInv, HostInv
  <1>4. UNCHANGED <<Net!caller, pc, job>> /\ nft \subseteq nft'  BY DEF Net!Squat
  <1>5. QED  BY Zenon, <1>3, <1>4, OthersLeave

\* A rule or a route of the session goes, or a rule is doubled.
LEMMA DriftSteps == ASSUME NetInv, Net!Drift PROVE NetInv'
  <1>1. DOMAIN rules' \in SUBSET DOMAIN rules
    <2>1. CASE \E spec \in DOMAIN rules : rules' \in {Net!Less(spec, 1), Net!More(spec)}
      <3>1. PICK spec \in DOMAIN rules : rules' \in {Net!Less(spec, 1), Net!More(spec)}
        BY Zenon, <2>1
      <3>2. DOMAIN Net!Less(spec, 1) \subseteq DOMAIN rules  BY DEF Net!Less, Net!Restrict
      <3>3. DOMAIN Net!More(spec) \subseteq DOMAIN rules  BY DEF Net!More
      <3>4. QED  BY Zenon, <3>1, <3>2, <3>3
    <2>2. CASE rules' = rules  BY <2>2
    <2>3. QED  BY Zenon, <2>1, <2>2 DEF Net!Drift
  <1>2. routes' \in SUBSET routes  BY DEF Net!Drift
  <1>3. IsFiniteSet(DOMAIN rules') /\ DOMAIN rules' \subseteq RuleSpecs
    BY Zenon, <1>1, FS_Subset DEF NetInv, HostInv
  <1>4. IsFiniteSet(routes')  BY Zenon, <1>2, FS_Subset DEF NetInv, HostInv
  <1>5. HostInv'  BY <1>3, <1>4 DEF Net!Drift, NetInv, HostInv
  <1>6. UNCHANGED <<Net!caller, pc, job>> /\ nft \subseteq nft'  BY DEF Net!Drift
  <1>7. QED  BY Zenon, <1>5, <1>6, OthersLeave

\* Another table of the switch's name appears beside it.
LEMMA ImitateSteps == ASSUME NetInv, Net!Imitate PROVE NetInv'
  <1>1. HostInv'  BY HostKept DEF Net!Imitate, NetInv
  <1>2. UNCHANGED <<Net!caller, pc, job>> /\ nft \subseteq nft'  BY DEF Net!Imitate
  <1>3. QED  BY Zenon, <1>1, <1>2, OthersLeave

\* Another manager replaces the resolver's file.
LEMMA ResolveSteps == ASSUME NetInv, Net!Resolve PROVE NetInv'
  <1>1. HostInv'  BY HostKept DEF Net!Resolve, NetInv
  <1>2. UNCHANGED <<Net!caller, pc, job>> /\ nft \subseteq nft'  BY DEF Net!Resolve
  <1>3. QED  BY Zenon, <1>1, <1>2, OthersLeave

-----------------------------------------------------------------------------
(* The invariant and the property.                                          *)

\* A host ProtonWire has not touched yet.
LEMMA NetStarts == ASSUME Net!Init PROVE NetInv
  <1>1. HostInv
    <2>1. DOMAIN rules = {} /\ routes = {} /\ squat = {}  BY DEF Net!Init
    <2>2. IsFiniteSet({})  BY Zenon, FS_EmptySet
    <2>3. QED  BY <2>1, <2>2 DEF HostInv
  <1>2. JobInv /\ SwitchInv
    <2>1. pc = "idle" /\ job = Net!NoJob  BY DEF Net!Init
    <2>2. DOMAIN job = JobFields /\ job.todo = <<>> /\ job.applied = <<>> /\ job.undo = <<>>
      BY Zenon, <2>1 DEF Net!NoJob, JobFields
    <2>3. <<>> \in Seq(NetOps)  OBVIOUS
    <2>4. QED  BY <2>1, <2>2, <2>3 DEF JobInv, SwitchInv
  <1>3. CallerInv
    <2>1. kept.tables = Net!NoRecord /\ session = Net!NoSession  BY DEF Net!Init
    <2>2. Net!NoSession.installed = <<>> /\ <<>> \in Seq(NetOps)  BY DEF Net!NoSession
    <2>3. QED  BY <2>1, <2>2 DEF CallerInv
  <1>4. QED  BY <1>1, <1>2, <1>3 DEF NetInv

\* Every step of a session and of the host keeps its invariant.
LEMMA NetSteps == ASSUME NetInv, [Net!Next]_net PROVE NetInv'
  <1>1. CASE UNCHANGED net
    <2>1. HostInv'  BY <1>1, HostKept DEF net, Net!net, NetInv
    <2>2. CallerInv'  BY <1>1, CallerKept DEF net, NetInv
    <2>3. JobInv' /\ SwitchInv'
      BY <1>1 DEF net, NetInv, JobInv, SwitchInv, Net!Armed, Net!Switch
    <2>4. QED  BY <2>1, <2>2, <2>3 DEF NetInv
  <1>2. CASE Net!Next
    BY Zenon, <1>2, ConnectSteps, PlanSteps, ArmSteps, ProbeSteps, ExecSteps, UndoSteps,
       AppliedSteps, RolledBackSteps, GiveUpSteps, DnsSteps, CaptureSteps, ReplaceSteps,
       DisconnectSteps, CleanupSteps, DisarmSteps, RepairSteps, EarlySteps, DisableSteps,
       CrashSteps, SquatSteps, DriftSteps, ImitateSteps, ResolveSteps DEF Net!Next
  <1>3. QED  BY <1>1, <1>2

\* Only plan_with leaves the planning step for the switch.
LEMMA PlanningStep ==
    ASSUME Net!Next, pc = "plan", pc' = "arm"
    PROVE  Net!plan_with
  <1>1. ~Net!Arm /\ ~Net!Probe /\ ~Net!RolledBack /\ ~Net!GiveUp /\ ~Net!ApplyDns
    BY DEF Net!Arm, Net!Probe, Net!RolledBack, Net!GiveUp, Net!ApplyDns
  <1>2. ~Net!Exec /\ ~Net!Applied
    <2>1. ~Net!Applying  BY DEF Net!Applying, Net!rollbackOf
    <2>2. QED  BY Zenon, <2>1 DEF Net!Exec, Net!Applied
  <1>3. ~Net!Undo
    <2>1. pc = pc' => FALSE  OBVIOUS
    <2>2. QED  BY Zenon, <2>1 DEF Net!Undo, Net!Go
  <1>4. ~Net!capture_resolv_conf /\ ~Net!apply_resolv_conf /\ ~Net!Cleanup /\ ~Net!Disarm
    BY DEF Net!capture_resolv_conf, Net!apply_resolv_conf, Net!Cleanup, Net!Disarm
  <1>5. /\ ~Net!Disconnect /\ ~Net!Repair /\ ~Net!EarlyFirewall /\ ~Net!Disable
        /\ \A ipv6, servers : ~Net!Connect(ipv6, servers)
    BY DEF Net!Disconnect, Net!Repair, Net!EarlyFirewall, Net!Disable, Net!Connect
  <1>6. ~Net!Crash  BY DEF Net!Crash, Net!Return
  <1>7. ~Net!Squat /\ ~Net!Drift /\ ~Net!Imitate /\ ~Net!Resolve
    BY DEF Net!Squat, Net!Drift, Net!Imitate, Net!Resolve
  <1>8. QED  BY Zenon, <1>1, <1>2, <1>3, <1>4, <1>5, <1>6, <1>7 DEF Net!Next

\* What the invariant says of a step.
LEMMA StepIsBehindTheSwitch ==
    ASSUME NetInv, [Net!Next]_net
    PROVE  Net!ArmedBeforeRouted /\ Net!PlanKeepsToOwnTables
  <1>1. Net!ArmedBeforeRouted  BY DEF NetInv, SwitchInv, Net!ArmedBeforeRouted
  <1>2. Net!PlanKeepsToOwnTables
    <2>1. SUFFICES ASSUME pc = "plan", pc' = "arm"
                   PROVE  /\ \A id \in Net!ids(job'.plan) :
                                id \in squat => id \in {r.table : r \in DOMAIN rules}
                          /\ Net!Cardinality(Net!ids(job'.plan)) = 3
                          /\ \A r \in DOMAIN rules :
                                r.table = kept.tables.main => job'.plan.main = r.table
      BY Zenon DEF Net!PlanKeepsToOwnTables
    <2>2. ~UNCHANGED net  BY <2>1 DEF net
    <2>3. Net!plan_with  BY <2>1, <2>2, PlanningStep
    <2>4. PICK plan : plan = Net!plan_tables(Net!survey)  BY Zenon
    <2>5. job' = [job EXCEPT !.plan = plan]  BY <2>1, <2>3, <2>4 DEF Net!plan_with, Net!Return
    <2>6. job'.plan = plan  BY <2>5 DEF NetInv, JobInv, JobFields
    <2>7. HostInv /\ CallerInv  BY DEF NetInv
    <2>8. QED  BY Zenon, <2>4, <2>6, <2>7, PlanIsOwn
  <1>3. QED  BY <1>1, <1>2

\* connect puts a rule or a route on the host only behind the switch of its
\* own attempt, and plans three distinct tables of its own, whatever fails,
\* crashes or meddles, and for every bound on them (session.rs connect_with,
\* tables.rs resolve).
THEOREM RoutesStayBehindTheSwitch == Spec => RoutedOnlyBehindTheSwitch
  <1> DEFINE Inv == Is("session") => NetInv
  <1>1. Init => Inv  BY PartStarts, NetStarts
  <1>2. Inv /\ [Next]_vars => Inv'
    <2> SUFFICES ASSUME Inv, [Next]_vars, Is("session")' PROVE NetInv'
      OBVIOUS
    <2>1. Is("session") /\ [Net!Next]_net  BY PartSteps DEF Is
    <2>2. QED  BY <2>1, NetSteps
  <1>3. Inv /\ [Next]_vars =>
          [Is("session") => Net!ArmedBeforeRouted /\ Net!PlanKeepsToOwnTables]_vars
    <2> SUFFICES ASSUME Inv, [Next]_vars, Is("session")
                 PROVE  Net!ArmedBeforeRouted /\ Net!PlanKeepsToOwnTables
      OBVIOUS
    <2>1. [Net!Next]_net  BY PartSteps
    <2>2. QED  BY <2>1, StepIsBehindTheSwitch
  <1>4. QED  BY <1>1, <1>2, <1>3, PTL DEF Spec, RoutedOnlyBehindTheSwitch

=============================================================================

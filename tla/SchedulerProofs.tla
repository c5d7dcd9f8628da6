-------------------------- MODULE SchedulerProofs --------------------------
(***************************************************************************)
(* Theorems about Scheduler, for every floor, interval, jitter, set of      *)
(* Retry-After delays, set of session threads and bound.                    *)
(***************************************************************************)
EXTENDS Scheduler, TLAPS

\* The saturating sum of two times is a time.
LEMMA SaturatingType ==
    ASSUME NEW a \in Time, NEW b \in Nat
    PROVE  saturating_add(a, b) \in Time
  BY SchedulerConfigValid DEF saturating_add, Time

\* The greater of two times is a time, and bounds both.
LEMMA MaxType ==
    ASSUME NEW a \in Time, NEW b \in Time
    PROVE  /\ MaxOf(a, b) \in Time
           /\ MaxOf(a, b) >= a /\ MaxOf(a, b) >= b
  BY SchedulerConfigValid DEF MaxOf, Time

\* Saturating addition is monotone in both arguments.
LEMMA SaturatingMonotone ==
    ASSUME NEW a \in Time, NEW b \in Time, NEW m \in Nat, NEW n \in Nat,
           a <= b, m <= n
    PROVE  saturating_add(a, m) <= saturating_add(b, n)
  BY SchedulerConfigValid DEF saturating_add, Time

\* The effective time is a time, and never behind the high-water mark.
LEMMA EffectiveType ==
    ASSUME TypeOK, NEW reading \in 0..MaxWall
    PROVE  /\ effective(reading) \in Time
           /\ effective(reading) >= persisted.high_water
  <1>1. reading \in Time
    BY SchedulerConfigValid DEF Time
  <1>2. persisted.high_water \in Time
    BY DEF TypeOK, Deadlines
  <1> QED  BY Zenon, <1>1, <1>2, MaxType DEF effective

\* What next_deadline returns, for any response: two times, the window at
\* least the floor after the origin, never inside its own suppression.
LEMMA NextDeadline ==
    ASSUME NEW origin \in Time, NEW now \in Time, NEW limited \in BOOLEAN,
           NEW delay \in RetryAfters \cup {None}, NEW jitter \in 0..MaxJitter
    PROVE  LET d == next_deadline(origin, now, limited, delay, jitter)
           IN  /\ d.next_eligible \in Time /\ d.suppression \in Time
               /\ d.next_eligible >= saturating_add(origin, Floor)
               /\ d.next_eligible >= d.suppression
  <1> DEFINE span == MaxOf(Interval, Floor)
             raw0 == saturating_add(origin, span)
             raw  == IF delay = None THEN raw0
                     ELSE MaxOf(raw0, saturating_add(now, delay))
  <1>1. span \in Nat /\ Floor <= span
    BY SchedulerConfigValid DEF MaxOf
  <1>2. raw0 \in Time /\ raw0 >= saturating_add(origin, Floor)
    <2> HIDE DEF span
    <2>1. raw0 \in Time
      BY <1>1, SaturatingType
    <2>2. Floor \in Nat /\ origin <= origin
      BY SchedulerConfigValid DEF Time
    <2>3. saturating_add(origin, Floor) <= raw0
      BY <1>1, <2>2, SaturatingMonotone
    <2> QED
      BY <2>1, <2>2, <2>3, SaturatingType DEF Time
  <1>3. raw \in Time /\ raw >= raw0
    <2>1. CASE delay = None
      BY <2>1, <1>2 DEF Time
    <2>2. CASE delay # None
      <3>1. delay \in Nat
        BY <2>2, SchedulerConfigValid
      <3> QED  BY <2>2, <3>1, <1>2, SaturatingType, MaxType
    <2> QED  BY <2>1, <2>2
  <1>4. saturating_add(raw, jitter) \in Time /\ saturating_add(raw, jitter) >= raw
    <2> HIDE DEF raw, raw0, span
    <2>1. jitter \in Nat
      BY SchedulerConfigValid
    <2> QED  BY <1>3, <2>1, SchedulerConfigValid DEF saturating_add, Time
  <1>5. saturating_add(origin, Floor) \in Time
    BY SaturatingType, SchedulerConfigValid
  <1> HIDE DEF raw, raw0, span
  <1>6. next_deadline(origin, now, limited, delay, jitter)
          = [next_eligible |-> saturating_add(raw, jitter),
             suppression   |-> IF limited THEN raw ELSE 0]
    BY DEF next_deadline, raw, raw0, span
  <1>7. 0 \in Time
    BY SchedulerConfigValid DEF Time
  <1> QED  BY <1>2, <1>3, <1>4, <1>5, <1>6, <1>7 DEF Time

-----------------------------------------------------------------------------
\* A fresh Inner over any document and etag is well typed.
LEMMA FreshInnerType ==
    ASSUME NEW doc \in Deadlines, NEW tag \in Nat, FreshInner(doc, tag)
    PROVE  /\ persisted' \in Deadlines /\ healthy' \in BOOLEAN /\ etag' \in Nat
           /\ generation' \in Nat /\ in_flight' \in Nat /\ completed' \in Nat
           /\ token' \in [id : Nat, expires : Time]
           /\ pc' \in [Threads -> {"idle", "calling", "parked", "stopped"} \cup Leading]
           /\ seen' \in [Threads -> Nat] /\ sent' \in [Threads -> Nat]
           /\ started' \in [Threads -> Time] /\ gate' \in [Threads -> Time]
           /\ resp' \in [Threads -> Responses]
           /\ override' \in [Threads -> BOOLEAN]
           /\ arg' \in [Threads -> Nat]
  <1>1. 0 \in Time
    BY SchedulerConfigValid DEF Time
  <1>2. NoResponse \in Responses
    BY DEF NoResponse, Responses
  <1>3. NoToken \in [id : Nat, expires : Time]
    BY <1>1 DEF NoToken
  <1> QED  BY <1>1, <1>2, <1>3 DEF FreshInner

\* The document of a first run is well typed.
LEMMA NoDeadlinesType == NoDeadlines \in Deadlines
  <1>1. 0 \in Time
    BY SchedulerConfigValid DEF Time
  <1> QED  BY <1>1 DEF NoDeadlines, Deadlines

\* Re-deriving the crash window keeps the document well typed, changes no
\* other field, and restores the floor.
LEMMA Rederive ==
    ASSUME NEW doc \in Deadlines
    PROVE  LET new == rederive_crash_pacing(doc)
           IN  /\ new \in Deadlines
               /\ new.last_request = doc.last_request
               /\ new.high_water = doc.high_water
               /\ new.suppression = doc.suppression
               /\ new.next_eligible >= doc.next_eligible
               /\ new.last_request # None =>
                    new.next_eligible >= saturating_add(new.last_request, Floor)
  <1> DEFINE new == rederive_crash_pacing(doc)
  <1>0. doc.next_eligible \in Time
    BY DEF Deadlines
  <1>1. CASE doc.last_request = None
    BY <1>0, <1>1 DEF rederive_crash_pacing, Time
  <1>2. CASE doc.last_request # None
    <2> DEFINE floor == saturating_add(doc.last_request, Floor)
    <2>1. doc.last_request \in Time
      BY <1>2 DEF Deadlines
    <2>2. floor \in Time
      BY <2>1, SaturatingType, SchedulerConfigValid
    <2> HIDE DEF floor
    <2>3. /\ MaxOf(doc.next_eligible, floor) \in Time
          /\ MaxOf(doc.next_eligible, floor) >= doc.next_eligible
          /\ MaxOf(doc.next_eligible, floor) >= floor
      BY <1>0, <2>2, MaxType
    <2>4. new = [doc EXCEPT !.next_eligible = MaxOf(doc.next_eligible, floor)]
      BY <1>2 DEF rederive_crash_pacing, floor
    <2> HIDE DEF new
    <2>5. new \in Deadlines /\ new.next_eligible = MaxOf(doc.next_eligible, floor)
      BY <2>3, <2>4 DEF Deadlines
    <2>6. /\ new.last_request = doc.last_request
          /\ new.high_water = doc.high_water
          /\ new.suppression = doc.suppression
      BY <2>4 DEF Deadlines
    <2> QED  BY <2>3, <2>5, <2>6 DEF floor, new
  <1> QED  BY <1>1, <1>2

\* The document lead_refresh anchors: well typed, its request time fresh and
\* at the high-water mark, nothing else moved.
LEMMA AnchorDocument ==
    ASSUME TypeOK, NEW now2 \in Time, now2 >= persisted.high_water
    PROVE  LET doc == [persisted EXCEPT !.last_request = now2,
                                        !.high_water = MaxOf(@, now2)]
           IN  /\ doc \in Deadlines
               /\ doc.last_request = now2 /\ doc.high_water = now2
               /\ doc.next_eligible = persisted.next_eligible
               /\ doc.suppression = persisted.suppression
  <1>1. persisted \in Deadlines
    BY DEF TypeOK
  <1>2. MaxOf(persisted.high_water, now2) = now2
    BY <1>1 DEF MaxOf, Deadlines, Time
  <1> QED  BY Zenon, <1>1, <1>2 DEF Deadlines

\* What merging one attempt's deadline into the document guarantees.
LEMMA MergeDeadline ==
    ASSUME NEW doc \in Deadlines, NEW d, d.next_eligible \in Time,
           d.suppression \in Time, NEW now \in Time
    PROVE  LET new == merge_deadline(doc, d, now)
           IN  /\ new \in Deadlines
               /\ new.last_request = doc.last_request
               /\ new.high_water >= doc.high_water
               /\ new.suppression >= doc.suppression
               /\ new.suppression >= d.suppression
               /\ new.next_eligible >= d.next_eligible
               /\ new.next_eligible >= new.suppression
  <1> DEFINE new == merge_deadline(doc, d, now)
             supp == MaxOf(doc.suppression, d.suppression)
             next == MaxOf(d.next_eligible, supp)
             high == MaxOf(doc.high_water, now)
  <1>1. doc.suppression \in Time /\ doc.high_water \in Time
    BY DEF Deadlines
  <1>2. supp \in Time /\ supp >= doc.suppression /\ supp >= d.suppression
    BY <1>1, MaxType
  <1>3. high \in Time /\ high >= doc.high_water
    BY <1>1, MaxType
  <1> HIDE DEF supp, high
  <1>4. next \in Time /\ next >= d.next_eligible /\ next >= supp
    BY <1>2, MaxType
  <1> HIDE DEF next
  <1>5. new = [doc EXCEPT !.next_eligible = next, !.suppression = supp,
                          !.high_water = high]
    BY DEF merge_deadline, next, supp, high
  <1> HIDE DEF new
  <1>6. new \in Deadlines /\ new.last_request = doc.last_request
    BY Zenon, <1>2, <1>3, <1>4, <1>5 DEF Deadlines
  <1>7. new.next_eligible = next /\ new.suppression = supp /\ new.high_water = high
    BY <1>5 DEF Deadlines
  <1> QED  BY <1>2, <1>3, <1>4, <1>6, <1>7 DEF new

\* Everything the second half of lead_refresh computes before it saves.
LEMMA CompletedDocument ==
    ASSUME TypeOK, NEW t \in Threads, NEW jitter \in 0..MaxJitter
    PROVE  LET now == MaxOf(observe_now, started[t])
               d == next_deadline(started[t], now, resp[t].kind = "rateLimited",
                                  resp[t].delay, jitter)
               doc == merge_deadline(persisted, d, now)
           IN  /\ doc \in Deadlines
               /\ doc.last_request = persisted.last_request
               /\ doc.high_water >= persisted.high_water
               /\ doc.suppression >= persisted.suppression
               /\ d.suppression \in Time /\ doc.suppression >= d.suppression
               /\ doc.next_eligible >= doc.suppression
               /\ doc.next_eligible >= saturating_add(started[t], Floor)
  <1> DEFINE now == MaxOf(observe_now, started[t])
             d == next_deadline(started[t], now, resp[t].kind = "rateLimited",
                                resp[t].delay, jitter)
             doc == merge_deadline(persisted, d, now)
  <1>1. started[t] \in Time /\ resp[t] \in Responses /\ persisted \in Deadlines
        /\ wall \in 0..MaxWall
    BY DEF TypeOK
  <1>2. observe_now \in Time
    BY <1>1, EffectiveType DEF observe_now
  <1>3. now \in Time
    BY <1>1, <1>2, MaxType
  <1>4. resp[t].delay \in RetryAfters \cup {None}
    BY <1>1 DEF Responses
  <1>5. (resp[t].kind = "rateLimited") \in BOOLEAN
    OBVIOUS
  <1> HIDE DEF now
  <1>6. /\ d.next_eligible \in Time /\ d.suppression \in Time
        /\ d.next_eligible >= saturating_add(started[t], Floor)
    BY Zenon, <1>1, <1>3, <1>4, <1>5, NextDeadline
  <1> HIDE DEF d
  <1>7. /\ doc \in Deadlines
        /\ doc.last_request = persisted.last_request
        /\ doc.high_water >= persisted.high_water
        /\ doc.suppression >= persisted.suppression
        /\ doc.suppression >= d.suppression
        /\ doc.next_eligible >= d.next_eligible
        /\ doc.next_eligible >= doc.suppression
    BY <1>1, <1>3, <1>6, MergeDeadline
  <1>8. saturating_add(started[t], Floor) \in Time
    BY <1>1, SaturatingType, SchedulerConfigValid
  <1> HIDE DEF doc
  <1>9. doc.next_eligible >= saturating_add(started[t], Floor)
    BY <1>6, <1>7, <1>8 DEF Deadlines, Time
  <1> QED  BY Zenon, <1>6, <1>7, <1>9 DEF doc, d, now

-----------------------------------------------------------------------------
\* What lead_refresh does up to the unlock, as the proofs use it: the reading
\* now2 is anchored in memory, and on disk as well if `anchored`.
Led(t, now, confirmed, anchored, now2) ==
    /\ now2 >= persisted.high_water
    /\ wall' \in 0..MaxWall
    /\ persisted' \in Deadlines
    /\ persisted'.last_request = now2 /\ persisted'.high_water = now2
    /\ persisted'.next_eligible = persisted.next_eligible
    /\ persisted'.suppression = persisted.suppression
    /\ disk' \in {persisted', persisted, disk}
    /\ anchored => disk' = persisted'
    /\ healthy' = anchored
    /\ generation' = generation + 1 /\ in_flight' = generation + 1
    /\ seen' = [seen EXCEPT ![t] = generation + 1]
    /\ started' = [started EXCEPT ![t] = now2]
    /\ sent' = [sent EXCEPT ![t] = etag]
    /\ gate' = [gate EXCEPT ![t] = now]
    /\ override' = [override EXCEPT ![t] = confirmed]
    /\ pc' = [pc EXCEPT ![t] = IF anchored THEN "anchored" ELSE "refused"]
    /\ arg' = [arg EXCEPT ![t] = 0]
    /\ UNCHANGED <<process, cache, upstream, completed, etag,
                   resp, held, minted, last_contact, promised>>

\* lead_refresh, whatever its two saves do, has the effect Led describes.
LEMMA LeadEffect ==
    ASSUME TypeOK, NEW t \in Threads, NEW now \in Time, NEW confirmed \in BOOLEAN,
           lead_refresh(t, now, confirmed)
    PROVE  \E anchored \in BOOLEAN, now2 \in Time :
             Led(t, now, confirmed, anchored, now2)
  <1>1. PICK bare \in BOOLEAN, anchor \in BOOLEAN, reading \in 0..MaxWall :
          LET now2 == effective(reading)
              doc == [persisted EXCEPT !.last_request = now2,
                                       !.high_water = MaxOf(@, now2)]
              anchored == fetch_allowed(bare, anchor)
          IN  /\ wall' = reading
              /\ generation' = generation + 1
              /\ in_flight' = generation + 1
              /\ persisted' = doc
              /\ healthy' = anchored
              /\ disk' = prefetch_disk(bare, anchor, doc)
              /\ seen' = [seen EXCEPT ![t] = generation + 1]
              /\ started' = [started EXCEPT ![t] = now2]
              /\ sent' = [sent EXCEPT ![t] = etag]
              /\ gate' = [gate EXCEPT ![t] = now]
              /\ override' = [override EXCEPT ![t] = confirmed]
              /\ pc' = [pc EXCEPT ![t] = IF anchored THEN "anchored" ELSE "refused"]
              /\ arg' = [arg EXCEPT ![t] = 0]
              /\ UNCHANGED <<process, cache, upstream, completed, etag,
                             resp, held, minted, last_contact, promised>>
    BY Zenon DEF lead_refresh
  <1> DEFINE now2 == effective(reading)
             doc == [persisted EXCEPT !.last_request = now2,
                                      !.high_water = MaxOf(@, now2)]
             anchored == fetch_allowed(bare, anchor)
  <1>2. now2 \in Time /\ now2 >= persisted.high_water
    BY EffectiveType
  <1> HIDE DEF now2
  <1>3. /\ doc \in Deadlines
        /\ doc.last_request = now2 /\ doc.high_water = now2
        /\ doc.next_eligible = persisted.next_eligible
        /\ doc.suppression = persisted.suppression
    BY Zenon, <1>2, AnchorDocument
  <1>4. anchored \in BOOLEAN
    BY DEF TypeOK, fetch_allowed
  <1> HIDE DEF doc
  <1>5. /\ prefetch_disk(bare, anchor, doc) \in {doc, persisted, disk}
        /\ anchored => prefetch_disk(bare, anchor, doc) = doc
    BY DEF prefetch_disk, fetch_allowed
  <1>6. persisted' = doc /\ disk' = prefetch_disk(bare, anchor, doc)
    BY <1>1 DEF doc, now2
  <1>7. /\ wall' \in 0..MaxWall /\ healthy' = anchored
        /\ generation' = generation + 1 /\ in_flight' = generation + 1
        /\ seen' = [seen EXCEPT ![t] = generation + 1]
        /\ started' = [started EXCEPT ![t] = now2]
        /\ sent' = [sent EXCEPT ![t] = etag]
        /\ gate' = [gate EXCEPT ![t] = now]
        /\ override' = [override EXCEPT ![t] = confirmed]
        /\ pc' = [pc EXCEPT ![t] = IF anchored THEN "anchored" ELSE "refused"]
        /\ arg' = [arg EXCEPT ![t] = 0]
        /\ UNCHANGED <<process, cache, upstream, completed, etag,
                       resp, held, minted, last_contact, promised>>
    BY <1>1 DEF now2
  <1> HIDE DEF anchored
  <1> QED  BY Zenon, <1>2, <1>3, <1>4, <1>5, <1>6, <1>7 DEF Led

\* A lead keeps every variable well typed.
LEMMA LeadType ==
    ASSUME TypeOK, NEW t \in Threads, NEW now \in Time, NEW confirmed \in BOOLEAN,
           lead_refresh(t, now, confirmed),
           token' \in [id : Nat, expires : Time], redeemed' \subseteq Nat
    PROVE  TypeOK'
  <1>1. PICK anchored \in BOOLEAN, now2 \in Time :
          Led(t, now, confirmed, anchored, now2)
    BY LeadEffect
  <1> QED  BY <1>1 DEF TypeOK, Led, process, Leading, Contacting


\* Every reachable state is well typed, whatever the clock does.
THEOREM TypeCorrect == Spec => []TypeOK
  <1>1. Init => TypeOK
    <2> SUFFICES ASSUME Init PROVE TypeOK
      OBVIOUS
    <2>1. 0 \in Time
      BY SchedulerConfigValid DEF Time
    <2>2. NoResponse \in Responses
      BY DEF NoResponse, Responses
    <2>3. NoToken \in [id : Nat, expires : Time]
      BY <2>1 DEF NoToken
    <2> QED  BY <2>1, <2>2, <2>3, NoDeadlinesType DEF Init, TypeOK
  <1>2. TypeOK /\ [Next]_vars => TypeOK'
    <2> SUFFICES ASSUME TypeOK, [Next]_vars PROVE TypeOK'
      OBVIOUS
    <2> USE DEF process, stores, inner, flight, clients
    <2>1. CASE UNCHANGED vars
      BY <2>1 DEF TypeOK, vars
    <2>2. CASE ClockMoves
      BY <2>2 DEF TypeOK, ClockMoves
    <2>3. CASE UpstreamPublishes
      BY <2>3 DEF TypeOK, UpstreamPublishes
    <2>4. CASE production
      <3>1. disk \in Deadlines /\ cache \in Nat
        BY DEF TypeOK
      <3>2. rederive_crash_pacing(disk) \in Deadlines
        BY <3>1, Rederive
      <3>3. disk.suppression \in Time
        BY <3>1 DEF Deadlines
      <3>4. FreshInner(rederive_crash_pacing(disk), cache)
        BY <2>4 DEF production
      <3> HIDE DEF flight, inner
      <3> QED  BY <2>4, <3>1, <3>2, <3>3, <3>4, FreshInnerType DEF TypeOK, production
    <2>5. CASE Crash
      <3>1. FreshInner(NoDeadlines, 0) /\ 0 \in Nat /\ 0 \in Time
        BY <2>5, SchedulerConfigValid DEF Crash, Time
      <3> QED  BY <2>5, <3>1, NoDeadlinesType, FreshInnerType DEF TypeOK, Crash
    <2>6. CASE RequestStop \/ ExitAfterServe
      BY Zenon, <2>6 DEF TypeOK, RequestStop, ExitAfterServe
    <2>7. CASE DriverFindsDue \/ DriverStops
      BY Zenon, <2>7 DEF TypeOK, DriverFindsDue, DriverStops
    <2>8. CASE refresh_automatic
      <3> DEFINE now == observe_now
      <3>1. now \in Time
        BY EffectiveType DEF TypeOK, observe_now
      <3>2. Driver \in Threads
        BY DEF Threads
      <3>3. CASE Return(Driver) /\ UNCHANGED <<token, held, minted>>
        BY <3>2, <3>3 DEF Return, TypeOK
      <3>4. CASE lead_refresh(Driver, now, FALSE) /\ UNCHANGED <<token, redeemed>>
        <4>1. token' \in [id : Nat, expires : Time] /\ redeemed' \subseteq Nat
          BY <3>4 DEF TypeOK
        <4> HIDE DEF now
        <4> QED  BY Zenon, <3>1, <3>2, <3>4, <4>1, LeadType
      <3> QED  BY Zenon, <2>8, <3>3, <3>4 DEF refresh_automatic
    <2>9. CASE \E c \in Clients : ServersRefresh(c)
      BY <2>9 DEF TypeOK, ServersRefresh, Threads
    <2>10. ASSUME NEW c \in Clients, refresh_manual(c) PROVE TypeOK'
      <3> DEFINE now == observe_now
      <3>1. now \in Time
        BY EffectiveType DEF TypeOK, observe_now
      <3>2. c \in Threads
        BY DEF Threads
      <3>3. CASE Return(c) /\ UNCHANGED <<token, held, minted>>
        BY <3>2, <3>3 DEF Return, TypeOK
      <3>4. CASE lead_refresh(c, now, FALSE) /\ UNCHANGED <<token, redeemed>>
        <4>1. token' \in [id : Nat, expires : Time] /\ redeemed' \subseteq Nat
          BY <3>4 DEF TypeOK
        <4> HIDE DEF now
        <4> QED  BY Zenon, <3>1, <3>2, <3>4, <4>1, LeadType
      <3>5. CASE /\ token' = redeem(token) /\ redeemed' = redeemed \cup {arg[c]}
                 /\ lead_refresh(c, now, TRUE)
        <4>1. token' \in [id : Nat, expires : Time]
          BY <3>5, SchedulerConfigValid DEF redeem, NoToken, Time
        <4>2. redeemed' \subseteq Nat
          BY Zenon, <3>2, <3>5 DEF TypeOK
        <4> HIDE DEF now
        <4> QED  BY Zenon, <3>1, <3>2, <3>5, <4>1, <4>2, LeadType
      <3>6. CASE ceremony(c, now)
        <4>1. saturating_add(now, TokenTTL) \in Time
          BY <3>1, SaturatingType, SchedulerConfigValid
        <4> HIDE DEF now
        <4> QED  BY <3>2, <3>6, <4>1 DEF ceremony, Return, TypeOK
      <3> QED  BY Zenon, <2>10, <3>3, <3>4, <3>5, <3>6 DEF refresh_manual
    <2>11. ASSUME NEW t \in Threads, Join(t) \/ Wake(t) PROVE TypeOK'
      <3>1. CASE Join(t)
        BY <3>1 DEF TypeOK, Join
      <3>2. CASE Wake(t)
        <4>1. CASE completed = seen[t]
          BY <3>2, <4>1 DEF TypeOK, Wake
        <4>2. CASE completed # seen[t]
          BY <3>2, <4>2 DEF TypeOK, Wake
        <4> QED  BY <4>1, <4>2
      <3> QED  BY <2>11, <3>1, <3>2
    <2>12. ASSUME NEW t \in Threads, Fetch(t) PROVE TypeOK'
      BY <2>12 DEF TypeOK, Fetch, Leading, Contacting
    <2>13. ASSUME NEW t \in Threads, Respond(t) PROVE TypeOK'
      <3>1. Answers(t) \subseteq Responses
        BY DEF TypeOK, Answers, Responses
      <3> QED  BY <2>13, <3>1 DEF TypeOK, Respond, Leading, Contacting
    <2>14. ASSUME NEW t \in Threads, complete_refresh(t) PROVE TypeOK'
      <3>1. PICK jitter \in 0..MaxJitter, stored \in BOOLEAN, saved \in BOOLEAN :
              LET now == MaxOf(observe_now, started[t])
                  d == next_deadline(started[t], now, resp[t].kind = "rateLimited",
                                     resp[t].delay, jitter)
                  doc == merge_deadline(persisted, d, now)
              IN  /\ cache' \in {resp[t].rev, cache}
                  /\ etag' \in {resp[t].rev, etag}
                  /\ persisted' = doc
                  /\ disk' \in {doc, disk}
                  /\ healthy' = (healthy /\ saved)
                  /\ promised' = MaxOf(promised, d.suppression)
        BY <2>14 DEF complete_refresh
      <3> DEFINE now == MaxOf(observe_now, started[t])
                 d == next_deadline(started[t], now, resp[t].kind = "rateLimited",
                                    resp[t].delay, jitter)
                 doc == merge_deadline(persisted, d, now)
      <3>2. doc \in Deadlines /\ d.suppression \in Time
        BY Zenon, CompletedDocument
      <3>3. promised' \in Time
        BY <3>1, <3>2, MaxType DEF TypeOK
      <3>4. resp[t].rev \in Nat
        BY DEF TypeOK, Responses
      <3>5. /\ persisted' \in Deadlines /\ disk' \in Deadlines
            /\ cache' \in Nat /\ etag' \in Nat /\ healthy' \in BOOLEAN
        BY <3>1, <3>2, <3>4 DEF TypeOK
      <3>6. 0 \in Time /\ NoResponse \in Responses
        BY SchedulerConfigValid DEF Time, NoResponse, Responses
      <3> QED
        BY <2>14, <3>3, <3>5, <3>6 DEF TypeOK, complete_refresh
    <2> QED
      BY <2>1, <2>2, <2>3, <2>4, <2>5, <2>6, <2>7, <2>8, <2>9, <2>10, <2>11,
         <2>12, <2>13, <2>14 DEF Next, ThreadStep
  <1> QED  BY <1>1, <1>2, PTL DEF Spec

-----------------------------------------------------------------------------
\* A document whose request time and suppression are covered by its
\* high-water mark and its window.
WellFormed(doc) ==
    /\ doc.last_request <= doc.high_water
    /\ doc.suppression <= doc.next_eligible

\* The fields that only grow.
Ordered(old, new) ==
    /\ old.last_request <= new.last_request
    /\ old.high_water <= new.high_water
    /\ old.suppression <= new.suppression

\* The window lies at least the floor after the request it is counted from.
Spaced(doc) ==
    doc.last_request # None =>
        doc.next_eligible >= saturating_add(doc.last_request, Floor)

\* The inductive invariant behind the pacing theorems. The safety properties
\* alone are not inductive: they rest on the disk never being ahead of memory,
\* on the floor holding whenever no refresh is in flight, and on a leader's
\* start time being the request time in memory.
PacingInv ==
    /\ SingleFlight
    /\ NothingUndurableWhileContacting
    /\ ContactIsDurable
    /\ FloorBetweenContacts
    /\ SuppressionHonoured
    /\ EligibleCoversSuppression
    /\ EtagNamesDurableCatalog
    /\ WellFormed(disk)
    /\ \A t \in Threads : pc[t] \in Leading => started[t] = persisted.last_request
    /\ Alive => /\ WellFormed(persisted)
                /\ Ordered(disk, persisted)
                /\ promised <= persisted.suppression
                /\ in_flight = 0 => Spaced(persisted)

\* Steps that move no deadline, no cache and no leader keep the invariant.
LEMMA QuietStep ==
    ASSUME TypeOK, PacingInv, Alive' => Alive,
           UNCHANGED <<disk, cache, persisted, in_flight, etag, started, sent,
                       gate, override, last_contact, promised>>,
           \A t \in Threads : pc'[t] \in Leading =>
               /\ pc[t] \in Leading /\ seen'[t] = seen[t]
               /\ pc'[t] \in Contacting => pc[t] \in Contacting
               /\ pc'[t] = "anchored" => pc[t] = "anchored"
    PROVE  PacingInv'
  <1>1. "anchored" \in Contacting /\ Contacting \subseteq Leading
    BY DEF Contacting, Leading
  <1>2. SingleFlight'
    BY DEF PacingInv, SingleFlight
  <1>3. NothingUndurableWhileContacting' /\ SuppressionHonoured'
    BY <1>1 DEF PacingInv, NothingUndurableWhileContacting, SuppressionHonoured
  <1>4. ContactIsDurable' /\ EligibleCoversSuppression'
    BY DEF PacingInv, ContactIsDurable, EligibleCoversSuppression
  <1>5. FloorBetweenContacts'
    <2>1. \A t \in Threads : pc'[t] = "anchored" => pc[t] = "anchored"
      BY <1>1
    <2> QED  BY <2>1 DEF PacingInv, FloorBetweenContacts
  <1>6. EtagNamesDurableCatalog'
    BY DEF PacingInv, EtagNamesDurableCatalog
  <1>7. \A t \in Threads : pc'[t] \in Leading => started'[t] = persisted'.last_request
    BY DEF PacingInv
  <1>8. WellFormed(disk)'
    BY DEF PacingInv, WellFormed
  <1>9. Alive' => /\ WellFormed(persisted)'
                  /\ Ordered(disk, persisted)'
                  /\ promised' <= persisted'.suppression
                  /\ in_flight' = 0 => Spaced(persisted)'
    BY DEF PacingInv, WellFormed, Ordered, Spaced
  <1> QED  BY <1>2, <1>3, <1>4, <1>5, <1>6, <1>7, <1>8, <1>9 DEF PacingInv

\* With the slot empty no thread leads.
LEMMA NobodyLeads ==
    ASSUME TypeOK, PacingInv, in_flight = 0
    PROVE  \A t \in Threads : pc[t] \notin Leading
  BY DEF PacingInv, SingleFlight

\* A lead through either door keeps the invariant: the gate was at or past
\* the suppression and, unless a token opened it, at or past the window.
LEMMA LeadStep ==
    ASSUME TypeOK, PacingInv, Alive, in_flight = 0,
           NEW t \in Threads, NEW now \in Time, NEW confirmed \in BOOLEAN,
           now >= persisted.suppression,
           confirmed \/ now >= persisted.next_eligible,
           lead_refresh(t, now, confirmed)
    PROVE  PacingInv'
  <1>1. PICK anchored \in BOOLEAN, now2 \in Time :
          Led(t, now, confirmed, anchored, now2)
    BY LeadEffect
  <1> USE <1>1 DEF Led, process
  <1>0. \A u \in Threads : pc[u] \notin Leading
    BY NobodyLeads
  <1>2. /\ disk \in Deadlines /\ persisted \in Deadlines /\ persisted' \in Deadlines
        /\ last_contact \in Time \cup {None} /\ promised \in Time
        /\ generation \in Nat
        /\ pc \in [Threads -> {"idle", "calling", "parked", "stopped"} \cup Leading]
        /\ seen \in [Threads -> Nat] /\ started \in [Threads -> Time]
        /\ sent \in [Threads -> Nat] /\ gate \in [Threads -> Time]
        /\ override \in [Threads -> BOOLEAN]
    BY DEF TypeOK
  <1>3. \A u \in Threads : pc'[u] \in Leading => u = t
    BY <1>0, <1>2
  <1>4. /\ WellFormed(persisted) /\ WellFormed(disk) /\ Ordered(disk, persisted)
        /\ promised <= persisted.suppression /\ Spaced(persisted)
    BY DEF PacingInv
  <1>5. Ordered(persisted, persisted')
    BY <1>2, <1>4 DEF Ordered, WellFormed, Deadlines, Time, None
  <1>6. WellFormed(persisted')
    BY <1>2, <1>4 DEF WellFormed, Deadlines, Time, None
  <1>7. WellFormed(disk') /\ Ordered(disk, disk') /\ Ordered(disk', persisted')
    <2>1. Ordered(disk, persisted') /\ Ordered(disk, disk) /\ Ordered(persisted', persisted')
      BY <1>2, <1>4, <1>5 DEF Ordered, Deadlines, Time, None
    <2> QED  BY <1>4, <1>5, <1>6, <2>1
  <1>8. SingleFlight'
    BY <1>2, <1>3 DEF SingleFlight
  <1>9. NothingUndurableWhileContacting'
    <2>1. pc'[t] = IF anchored THEN "anchored" ELSE "refused"
      BY <1>2
    <2>2. pc'[t] \in Contacting => anchored
      BY <2>1 DEF Contacting
    <2> QED  BY <1>3, <2>2 DEF NothingUndurableWhileContacting, Leading
  <1>10. ContactIsDurable'
    BY <1>2, <1>7 DEF PacingInv, ContactIsDurable, Ordered, Deadlines, Time, None
  <1>11. FloorBetweenContacts'
    <2> SUFFICES ASSUME ~confirmed, last_contact # None
                 PROVE  now >= saturating_add(last_contact, Floor)
      BY <1>2, <1>3 DEF FloorBetweenContacts, Leading, Contacting
    <2>1. last_contact \in Time /\ last_contact <= disk.last_request
      BY <1>2 DEF PacingInv, ContactIsDurable, Deadlines, Time, None
    <2>2. persisted.last_request \in Time /\ last_contact <= persisted.last_request
      BY <1>2, <1>4, <2>1 DEF Ordered, Deadlines, Time, None
    <2>3. saturating_add(last_contact, Floor)
            <= saturating_add(persisted.last_request, Floor)
      BY <2>1, <2>2, SaturatingMonotone, SchedulerConfigValid
    <2>4. persisted.next_eligible >= saturating_add(persisted.last_request, Floor)
      BY <1>4, <2>2 DEF Spaced, Time, None
    <2>5. /\ saturating_add(last_contact, Floor) \in Time
          /\ saturating_add(persisted.last_request, Floor) \in Time
          /\ persisted.next_eligible \in Time
      BY <1>2, <2>1, <2>2, SaturatingType, SchedulerConfigValid DEF Deadlines
    <2> QED  BY <2>3, <2>4, <2>5 DEF Time
  <1>12. SuppressionHonoured'
    <2>1. now >= promised
      BY <1>2, <1>4 DEF Deadlines, Time
    <2> QED  BY <1>2, <1>3, <2>1 DEF SuppressionHonoured, Leading
  <1>13. EligibleCoversSuppression'
    BY <1>2, <1>6 DEF EligibleCoversSuppression, WellFormed, Deadlines, Time
  <1>14. EtagNamesDurableCatalog'
    BY <1>2, <1>3 DEF PacingInv, EtagNamesDurableCatalog, Alive
  <1>15. \A u \in Threads : pc'[u] \in Leading => started'[u] = persisted'.last_request
    BY <1>2, <1>3
  <1>16. promised' <= persisted'.suppression /\ in_flight' # 0
    BY <1>2, <1>4
  <1> QED
    BY <1>6, <1>7, <1>8, <1>9, <1>10, <1>11, <1>12, <1>13, <1>14, <1>15, <1>16
    DEF PacingInv

-----------------------------------------------------------------------------
\* A start keeps the invariant: what rederive_crash_pacing hands the new
\* Inner covers everything the disk remembers, and respects the floor.
LEMMA StartStep ==
    ASSUME TypeOK, PacingInv, production
    PROVE  PacingInv'
  <1> DEFINE doc == rederive_crash_pacing(disk)
  <1>1. /\ persisted' = doc /\ in_flight' = 0 /\ etag' = cache
        /\ pc' = [t \in Threads |-> "idle"]
        /\ promised' = disk.suppression
        /\ UNCHANGED <<disk, cache, last_contact>>
    BY DEF production, FreshInner, stores
  <1>2. disk \in Deadlines
    BY DEF TypeOK
  <1>3. /\ doc \in Deadlines
        /\ doc.last_request = disk.last_request
        /\ doc.high_water = disk.high_water
        /\ doc.suppression = disk.suppression
        /\ doc.next_eligible >= disk.next_eligible
        /\ doc.last_request # None =>
             doc.next_eligible >= saturating_add(doc.last_request, Floor)
    BY <1>2, Rederive
  <1> HIDE DEF doc
  <1>4. WellFormed(disk)
    BY DEF PacingInv
  <1>5. \A t \in Threads : pc'[t] \notin Leading
    BY <1>1 DEF Leading, Contacting
  <1>6. WellFormed(persisted') /\ Ordered(disk', persisted') /\ Spaced(persisted')
    BY <1>1, <1>2, <1>3, <1>4 DEF WellFormed, Ordered, Spaced, Deadlines, Time, None
  <1>7. promised' <= persisted'.suppression
    BY <1>1, <1>2, <1>3 DEF Deadlines, Time
  <1>8. EligibleCoversSuppression'
    BY <1>6 DEF EligibleCoversSuppression, WellFormed
  <1>9. ContactIsDurable' /\ WellFormed(disk)'
    BY <1>1, <1>4 DEF PacingInv, ContactIsDurable, WellFormed
  <1>10. EtagNamesDurableCatalog'
    BY <1>1, <1>5 DEF EtagNamesDurableCatalog
  <1>11. /\ SingleFlight' /\ NothingUndurableWhileContacting'
         /\ FloorBetweenContacts' /\ SuppressionHonoured'
    BY <1>5 DEF SingleFlight, NothingUndurableWhileContacting,
                FloorBetweenContacts, SuppressionHonoured, Leading, Contacting
  <1> QED  BY <1>5, <1>6, <1>7, <1>8, <1>9, <1>10, <1>11 DEF PacingInv

\* A crash keeps the invariant: nobody leads, and the disk is untouched.
LEMMA CrashStep ==
    ASSUME TypeOK, PacingInv, Crash
    PROVE  PacingInv'
  <1>1. /\ pc' = [t \in Threads |-> "idle"] /\ daemon' = "down"
        /\ UNCHANGED <<disk, cache, last_contact>>
    BY DEF Crash, FreshInner, stores
  <1>2. ~Alive' /\ \A t \in Threads : pc'[t] \notin Leading
    BY <1>1 DEF Alive, Leading, Contacting
  <1>3. ContactIsDurable' /\ WellFormed(disk)'
    BY <1>1 DEF PacingInv, ContactIsDurable, WellFormed
  <1>4. /\ SingleFlight' /\ NothingUndurableWhileContacting'
        /\ FloorBetweenContacts' /\ SuppressionHonoured'
        /\ EligibleCoversSuppression' /\ EtagNamesDurableCatalog'
    BY <1>2 DEF SingleFlight, NothingUndurableWhileContacting,
                FloorBetweenContacts, SuppressionHonoured, Leading, Contacting,
                EligibleCoversSuppression, EtagNamesDurableCatalog
  <1> QED  BY <1>2, <1>3, <1>4 DEF PacingInv

\* Sending the request keeps the invariant: its time is already on disk.
LEMMA FetchStep ==
    ASSUME TypeOK, PacingInv, NEW t \in Threads, Fetch(t)
    PROVE  PacingInv'
  <1>1. /\ pc[t] = "anchored" /\ pc' = [pc EXCEPT ![t] = "fetching"]
        /\ last_contact' = started[t]
        /\ UNCHANGED <<daemon, disk, cache, persisted, in_flight, etag, started,
                       sent, gate, override, promised, seen>>
    BY Zenon DEF Fetch, process, stores, inner, flight
  <1>2. pc \in [Threads -> {"idle", "calling", "parked", "stopped"} \cup Leading]
        /\ disk \in Deadlines /\ started[t] \in Time
    BY DEF TypeOK
  <1>3. \A u \in Threads : /\ pc'[u] \in Leading <=> pc[u] \in Leading
                           /\ pc'[u] \in Contacting <=> pc[u] \in Contacting
    BY <1>1, <1>2 DEF Leading, Contacting
  <1>4. disk = persisted /\ started[t] = persisted.last_request
    BY Zenon, <1>1 DEF PacingInv, NothingUndurableWhileContacting, Leading, Contacting
  <1>5. ContactIsDurable'
    BY <1>1, <1>2, <1>4 DEF ContactIsDurable, Time
  <1>6. \A u \in Threads : pc'[u] # "anchored"
    <2>1. \A u \in Threads : pc[u] = "anchored" => u = t
      BY <1>1 DEF PacingInv, SingleFlight, Leading, Contacting
    <2> QED  BY <1>1, <1>2, <2>1
  <1>7. FloorBetweenContacts'
    BY <1>6 DEF FloorBetweenContacts
  <1>8. SingleFlight' /\ NothingUndurableWhileContacting' /\ SuppressionHonoured'
    BY Zenon, <1>1, <1>3 DEF PacingInv, SingleFlight, NothingUndurableWhileContacting,
                      SuppressionHonoured
  <1>9. EligibleCoversSuppression' /\ EtagNamesDurableCatalog'
    BY Zenon, <1>1, <1>3 DEF PacingInv, EligibleCoversSuppression,
                      EtagNamesDurableCatalog, Alive
  <1>10. \A u \in Threads : pc'[u] \in Leading => started'[u] = persisted'.last_request
    BY Zenon, <1>1, <1>3 DEF PacingInv
  <1>11. WellFormed(disk)' /\ (Alive' =>
            /\ WellFormed(persisted)' /\ Ordered(disk, persisted)'
            /\ promised' <= persisted'.suppression
            /\ in_flight' = 0 => Spaced(persisted)')
    BY <1>1 DEF PacingInv, Alive, WellFormed, Ordered, Spaced
  <1> QED  BY Zenon, <1>5, <1>7, <1>8, <1>9, <1>10, <1>11 DEF PacingInv

\* Finishing a refresh keeps the invariant: the merged document covers the
\* old one, respects the floor again, and carries the new suppression.
LEMMA CompleteStep ==
    ASSUME TypeOK, PacingInv, NEW t \in Threads, complete_refresh(t)
    PROVE  PacingInv' /\ Ordered(disk, disk')
  <1>1. PICK jitter \in 0..MaxJitter, stored \in BOOLEAN, saved \in BOOLEAN :
          LET now == MaxOf(observe_now, started[t])
              d == next_deadline(started[t], now, resp[t].kind = "rateLimited",
                                 resp[t].delay, jitter)
              doc == merge_deadline(persisted, d, now)
          IN  /\ cache' = IF resp[t].kind = "changed" /\ stored THEN resp[t].rev
                          ELSE cache
              /\ etag' = IF resp[t].kind = "changed" /\ stored THEN resp[t].rev
                         ELSE etag
              /\ persisted' = doc
              /\ disk' \in {doc, disk}
              /\ promised' = MaxOf(promised, d.suppression)
    BY Zenon DEF complete_refresh, adopt_fetched_revision
  <1> DEFINE now == MaxOf(observe_now, started[t])
             d == next_deadline(started[t], now, resp[t].kind = "rateLimited",
                                resp[t].delay, jitter)
             doc == merge_deadline(persisted, d, now)
  <1>2. /\ doc \in Deadlines
        /\ doc.last_request = persisted.last_request
        /\ doc.high_water >= persisted.high_water
        /\ doc.suppression >= persisted.suppression
        /\ d.suppression \in Time /\ doc.suppression >= d.suppression
        /\ doc.next_eligible >= doc.suppression
        /\ doc.next_eligible >= saturating_add(started[t], Floor)
    BY Zenon, CompletedDocument
  <1>3. persisted' = doc /\ disk' \in {doc, disk}
        /\ promised' = MaxOf(promised, d.suppression)
    BY Zenon, <1>1
  <1> HIDE DEF doc, d
  <1>4. /\ Alive /\ pc[t] \in Leading /\ in_flight' = 0
        /\ pc' = [pc EXCEPT ![t] = "idle"]
        /\ UNCHANGED <<daemon, last_contact>>
    BY DEF complete_refresh, process, Leading, Contacting
  <1>5. /\ disk \in Deadlines /\ persisted \in Deadlines /\ promised \in Time
        /\ last_contact \in Time \cup {None}
        /\ pc \in [Threads -> {"idle", "calling", "parked", "stopped"} \cup Leading]
    BY DEF TypeOK
  <1>6. /\ WellFormed(disk) /\ WellFormed(persisted) /\ Ordered(disk, persisted)
        /\ promised <= persisted.suppression
        /\ started[t] = persisted.last_request
    BY Zenon, <1>4 DEF PacingInv
  <1>7. \A u \in Threads : pc'[u] \notin Leading
    <2>1. \A u \in Threads : pc[u] \in Leading => u = t
      BY <1>4 DEF PacingInv, SingleFlight
    <2> QED  BY <1>4, <1>5, <2>1 DEF Leading, Contacting
  <1>8. WellFormed(doc) /\ Ordered(disk, doc) /\ Ordered(doc, doc)
    BY <1>2, <1>5, <1>6 DEF WellFormed, Ordered, Deadlines, Time, None
  <1>9. WellFormed(disk') /\ Ordered(disk', persisted') /\ WellFormed(persisted')
        /\ Ordered(disk, disk')
    <2>1. Ordered(disk, disk)
      BY <1>5 DEF Ordered, Deadlines, Time, None
    <2> QED  BY Zenon, <1>3, <1>6, <1>8, <2>1
  <1>10. promised' <= persisted'.suppression
    BY <1>2, <1>3, <1>5, <1>6 DEF MaxOf, Deadlines, Time
  <1>11. Spaced(persisted')
    BY Zenon, <1>2, <1>3, <1>6 DEF Spaced
  <1>12. ContactIsDurable'
    BY <1>2, <1>3, <1>4, <1>5, <1>9 DEF PacingInv, ContactIsDurable, Ordered,
                                        Deadlines, Time, None
  <1>13. EligibleCoversSuppression'
    BY Zenon, <1>2, <1>3 DEF EligibleCoversSuppression
  <1>14. EtagNamesDurableCatalog'
    BY Zenon, <1>1, <1>4, <1>7 DEF PacingInv, EtagNamesDurableCatalog
  <1>15. /\ SingleFlight' /\ NothingUndurableWhileContacting'
         /\ FloorBetweenContacts' /\ SuppressionHonoured'
    BY Zenon, <1>7 DEF SingleFlight, NothingUndurableWhileContacting,
                FloorBetweenContacts, SuppressionHonoured, Leading, Contacting
  <1> QED
    BY Zenon, <1>7, <1>9, <1>10, <1>11, <1>12, <1>13, <1>14, <1>15 DEF PacingInv

\* Leading a refresh never rewinds the durable document.
LEMMA LeadOrdersDisk ==
    ASSUME TypeOK, PacingInv, Alive, NEW t \in Threads, NEW now \in Time,
           NEW confirmed \in BOOLEAN, lead_refresh(t, now, confirmed)
    PROVE  Ordered(disk, disk')
  <1>1. PICK anchored \in BOOLEAN, now2 \in Time :
          Led(t, now, confirmed, anchored, now2)
    BY LeadEffect
  <1>2. disk \in Deadlines /\ persisted \in Deadlines
    BY DEF TypeOK
  <1>3. WellFormed(persisted) /\ Ordered(disk, persisted)
    BY DEF PacingInv
  <1>4. Ordered(disk, persisted') /\ Ordered(disk, disk)
    BY <1>1, <1>2, <1>3 DEF Led, Ordered, WellFormed, Deadlines, Time, None
  <1> QED  BY <1>1, <1>3, <1>4 DEF Led

\* Both doors: a call that leads has passed its gate, and one that does not
\* only returns.
LEMMA DoorStep ==
    ASSUME TypeOK, PacingInv,
           refresh_automatic \/ \E c \in Clients : refresh_manual(c)
    PROVE  PacingInv' /\ Ordered(disk, disk')
  <1> DEFINE now == observe_now
  <1>1. now \in Time /\ persisted.next_eligible \in Time
        /\ persisted.suppression \in Time /\ disk \in Deadlines
        /\ pc \in [Threads -> {"idle", "calling", "parked", "stopped"} \cup Leading]
    BY EffectiveType DEF TypeOK, observe_now, Deadlines
  <1>2. Ordered(disk, disk)
    BY <1>1 DEF Ordered, Deadlines, Time, None
  <1>3. ASSUME NEW t \in Threads, Return(t), Alive
        PROVE  PacingInv' /\ Ordered(disk, disk')
    <2>1. UNCHANGED <<disk, cache, persisted, in_flight, etag, started, sent,
                      gate, override, last_contact, promised, seen, daemon>>
          /\ pc' = [pc EXCEPT ![t] = "idle"]
      BY <1>3 DEF Return, process, stores, flight
    <2>2. \A u \in Threads : pc'[u] \in Leading => pc'[u] = pc[u]
      BY <1>1, <2>1 DEF Leading, Contacting
    <2>3. PacingInv'
      BY <2>1, <2>2, QuietStep DEF Alive
    <2> QED  BY <1>2, <2>1, <2>3
  <1> HIDE DEF now
  <1>4. ASSUME NEW t \in Threads, NEW confirmed \in BOOLEAN, Alive, in_flight = 0,
               now >= persisted.suppression,
               confirmed \/ now >= persisted.next_eligible,
               lead_refresh(t, now, confirmed)
        PROVE  PacingInv' /\ Ordered(disk, disk')
    BY <1>1, <1>4, LeadStep, LeadOrdersDisk
  <1>5. CASE refresh_automatic
    <2>1. Alive /\ in_flight = 0 /\ Driver \in Threads
      BY <1>5 DEF refresh_automatic, may_lead, Threads
    <2>2. \/ Return(Driver)
          \/ /\ now >= persisted.suppression /\ now >= persisted.next_eligible
             /\ lead_refresh(Driver, now, FALSE)
      BY Zenon, <1>5 DEF refresh_automatic, now
    <2> QED  BY Zenon, <1>3, <1>4, <2>1, <2>2
  <1>6. ASSUME NEW c \in Clients, refresh_manual(c)
        PROVE  PacingInv' /\ Ordered(disk, disk')
    <2>1. Alive /\ in_flight = 0 /\ c \in Threads
      BY Zenon, <1>6 DEF refresh_manual, may_lead, Threads
    <2>2. \/ Return(c)
          \/ /\ now >= persisted.suppression /\ now >= persisted.next_eligible
             /\ lead_refresh(c, now, FALSE)
          \/ now >= persisted.suppression /\ lead_refresh(c, now, TRUE)
      BY Zenon, <1>6 DEF refresh_manual, ceremony, now
    <2> QED  BY Zenon, <1>3, <1>4, <2>1, <2>2
  <1> QED  BY <1>5, <1>6

\* Every step keeps the inductive invariant and never rewinds the disk.
LEMMA PacingStep ==
    ASSUME TypeOK, PacingInv, [Next]_vars
    PROVE  PacingInv' /\ Ordered(disk, disk')
  <1>1. disk \in Deadlines
        /\ pc \in [Threads -> {"idle", "calling", "parked", "stopped"} \cup Leading]
    BY DEF TypeOK
  <1>2. Ordered(disk, disk)
    BY <1>1 DEF Ordered, Deadlines, Time, None
  <1> DEFINE Kept == UNCHANGED <<disk, cache, persisted, in_flight, etag, started,
                                 sent, gate, override, last_contact, promised>>
  <1>3. ASSUME Kept, Alive' => Alive, NEW t \in Threads, NEW p, p \notin Leading,
               pc' = [pc EXCEPT ![t] = p],
               \A u \in Threads \ {t} : seen'[u] = seen[u]
        PROVE  PacingInv' /\ Ordered(disk, disk')
    <2>1. \A u \in Threads : pc'[u] \in Leading => u # t /\ pc'[u] = pc[u]
      BY Zenon, <1>1, <1>3
    <2> QED  BY Zenon, <1>2, <1>3, <2>1, QuietStep
  <1>4. ASSUME Kept, Alive' => Alive, UNCHANGED <<pc, seen>>
        PROVE  PacingInv' /\ Ordered(disk, disk')
    BY <1>2, <1>4, QuietStep
  <1>5. CASE UNCHANGED vars
    BY <1>4, <1>5 DEF vars, Alive
  <1>6. CASE ClockMoves \/ UpstreamPublishes \/ RequestStop \/ ExitAfterServe
    BY Zenon, <1>4, <1>6 DEF ClockMoves, UpstreamPublishes, RequestStop, ExitAfterServe,
                      Alive, process, stores, inner, flight
  <1>7. CASE production \/ Crash
    <2>1. UNCHANGED disk
      BY Zenon, <1>7 DEF production, Crash, stores
    <2> QED  BY <1>2, <1>7, <2>1, StartStep, CrashStep
  <1>8. CASE DriverFindsDue \/ DriverStops
    <2>1. Driver \in Threads /\ "calling" \notin Leading /\ "stopped" \notin Leading
      BY DEF Threads, Leading, Contacting
    <2>2. Kept /\ (Alive' => Alive) /\ seen' = seen
          /\ \/ pc' = [pc EXCEPT ![Driver] = "calling"]
             \/ pc' = [pc EXCEPT ![Driver] = "stopped"]
      BY <1>8 DEF DriverFindsDue, DriverStops, Alive, process, stores, inner, flight
    <2> QED  BY Zenon, <1>3, <2>1, <2>2
  <1>9. ASSUME NEW c \in Clients, ServersRefresh(c)
        PROVE  PacingInv' /\ Ordered(disk, disk')
    <2>1. c \in Threads /\ "calling" \notin Leading
      BY DEF Threads, Leading, Contacting
    <2>2. Kept /\ (Alive' => Alive) /\ seen' = seen
          /\ pc' = [pc EXCEPT ![c] = "calling"]
      BY <1>9 DEF ServersRefresh, Alive, process, stores, inner, flight
    <2> QED  BY Zenon, <1>3, <2>1, <2>2
  <1>10. ASSUME NEW t \in Threads, Join(t) \/ Wake(t)
         PROVE  PacingInv' /\ Ordered(disk, disk')
    <2>1. "idle" \notin Leading /\ "calling" \notin Leading /\ "parked" \notin Leading
      BY DEF Leading, Contacting
    <2>2. Kept /\ (Alive' => Alive)
      BY <1>10 DEF Join, Wake, Alive, process, stores, inner, flight
    <2>3. \A u \in Threads \ {t} : seen'[u] = seen[u]
      BY Zenon, <1>10 DEF Join, Wake, TypeOK
    <2>4. \E p \in {"idle", "calling", "parked"} : pc' = [pc EXCEPT ![t] = p]
      BY <1>10 DEF Join, Wake
    <2> QED  BY Zenon, <1>3, <2>1, <2>2, <2>3, <2>4
  <1>11. ASSUME NEW t \in Threads, Fetch(t)
         PROVE  PacingInv' /\ Ordered(disk, disk')
    <2>1. UNCHANGED disk
      BY Zenon, <1>11 DEF Fetch, stores
    <2> QED  BY <1>2, <1>11, <2>1, FetchStep
  <1>12. ASSUME NEW t \in Threads, Respond(t)
         PROVE  PacingInv' /\ Ordered(disk, disk')
    <2>1. /\ Kept /\ (Alive' => Alive) /\ seen' = seen /\ pc[t] = "fetching"
          /\ pc' = [pc EXCEPT ![t] = "responded"]
      BY <1>12 DEF Respond, Alive, process, stores, inner
    <2>2. \A u \in Threads : pc'[u] \in Leading =>
             /\ pc[u] \in Leading /\ seen'[u] = seen[u]
             /\ pc'[u] \in Contacting => pc[u] \in Contacting
             /\ pc'[u] = "anchored" => pc[u] = "anchored"
      BY <1>1, <2>1 DEF Leading, Contacting
    <2> QED  BY Zenon, <1>2, <2>1, <2>2, QuietStep
  <1>13. CASE Next
    BY <1>6, <1>7, <1>8, <1>9, <1>10, <1>11, <1>12, <1>13, DoorStep, CompleteStep
    DEF Next, ThreadStep
  <1> QED  BY <1>5, <1>13

-----------------------------------------------------------------------------
\* The inductive invariant holds in every reachable state.
THEOREM PacingInvariant == Spec => []PacingInv
  <1>1. Init => PacingInv
    <2> SUFFICES ASSUME Init PROVE PacingInv
      OBVIOUS
    <2>1. ~Alive /\ \A t \in Threads : pc[t] \notin Leading
      BY DEF Init, Alive, Leading, Contacting
    <2>2. WellFormed(disk)
      BY DEF Init, WellFormed, NoDeadlines, None
    <2>3. /\ SingleFlight /\ NothingUndurableWhileContacting /\ ContactIsDurable
          /\ FloorBetweenContacts /\ SuppressionHonoured
          /\ EligibleCoversSuppression /\ EtagNamesDurableCatalog
      BY <2>1 DEF Init, SingleFlight, NothingUndurableWhileContacting,
                  ContactIsDurable, FloorBetweenContacts, SuppressionHonoured,
                  EligibleCoversSuppression, EtagNamesDurableCatalog,
                  Leading, Contacting
    <2> QED  BY <2>1, <2>2, <2>3 DEF PacingInv
  <1>2. TypeOK /\ PacingInv /\ [Next]_vars => PacingInv'
    BY PacingStep
  <1> QED  BY <1>1, <1>2, TypeCorrect, PTL DEF Spec

\* T-25: at most one thread is between claiming a generation and publishing
\* its report, for any number of session threads.
THEOREM SingleFlightHolds == Spec => []SingleFlight
  <1>1. PacingInv => SingleFlight
    BY DEF PacingInv
  <1> QED  BY <1>1, PacingInvariant, PTL

\* FR-13D/FR-13H: two unconfirmed requests are never closer than the floor,
\* across crashes, restarts, failed saves and clock jumps.
THEOREM FloorHolds == Spec => []FloorBetweenContacts
  <1>1. PacingInv => FloorBetweenContacts
    BY DEF PacingInv
  <1> QED  BY <1>1, PacingInvariant, PTL

\* ER-16: no door contacts the upstream before the suppression this process
\* was given or loaded.
THEOREM SuppressionHolds == Spec => []SuppressionHonoured
  <1>1. PacingInv => SuppressionHonoured
    BY DEF PacingInv
  <1> QED  BY <1>1, PacingInvariant, PTL

\* FR-13H: the disk remembers a request at least as recent as the last one
\* sent, and everything in memory while one is being made.
THEOREM ContactsAreDurable ==
    Spec => [](ContactIsDurable /\ NothingUndurableWhileContacting)
  <1>1. PacingInv => ContactIsDurable /\ NothingUndurableWhileContacting
    BY DEF PacingInv
  <1> QED  BY <1>1, PacingInvariant, PTL

\* The automatic window never opens inside a suppression, so the driver
\* cannot spin on a refusal.
THEOREM WindowCoversSuppression == Spec => []EligibleCoversSuppression
  <1>1. PacingInv => EligibleCoversSuppression
    BY DEF PacingInv
  <1> QED  BY <1>1, PacingInvariant, PTL

\* FR-13E: the etag in memory and in flight names the durable catalog.
THEOREM EtagIsDurable == Spec => []EtagNamesDurableCatalog
  <1>1. PacingInv => EtagNamesDurableCatalog
    BY DEF PacingInv
  <1> QED  BY <1>1, PacingInvariant, PTL

\* T-26: no step rewinds the durable request time, high-water mark or
\* suppression.
THEOREM DeadlinesNeverRewind == Spec => DurableDeadlinesNeverRewind
  <1>1. TypeOK /\ TypeOK' /\ PacingInv /\ [Next]_vars
          => [/\ disk'.last_request >= disk.last_request
              /\ disk'.high_water >= disk.high_water
              /\ disk'.suppression >= disk.suppression]_vars
    <2> SUFFICES ASSUME TypeOK, TypeOK', PacingInv, [Next]_vars
                 PROVE  /\ disk'.last_request >= disk.last_request
                        /\ disk'.high_water >= disk.high_water
                        /\ disk'.suppression >= disk.suppression
      OBVIOUS
    <2>1. disk \in Deadlines /\ disk' \in Deadlines
      BY DEF TypeOK
    <2> QED  BY <2>1, PacingStep DEF Ordered, Deadlines, Time, None
  <1> QED
    BY <1>1, TypeCorrect, PacingInvariant, PTL DEF Spec, DurableDeadlinesNeverRewind

-----------------------------------------------------------------------------
\* Inductive form of TokenSingleUse: tokens are numbered as they are minted,
\* so a fresh one has authorised nothing yet.
TokenInv ==
    /\ TokenSingleUse
    /\ token.id <= minted
    /\ \A i \in redeemed : i <= minted

\* FR-13I: one confirmation buys at most one early refresh, whatever the
\* interleaving of the sessions that hold the token.
THEOREM TokensAreSingleUse == Spec => []TokenSingleUse
  <1>1. Init => TokenInv
    BY DEF Init, TokenInv, TokenSingleUse, NoToken
  <1>2. TypeOK /\ TokenInv /\ [Next]_vars => TokenInv'
    <2> SUFFICES ASSUME TypeOK, TokenInv, [Next]_vars PROVE TokenInv'
      OBVIOUS
    <2>0. token.id \in Nat /\ minted \in Nat /\ redeemed \subseteq Nat
      BY DEF TypeOK
    <2>1. ASSUME UNCHANGED <<token, minted, redeemed>> PROVE TokenInv'
      BY <2>1 DEF TokenInv, TokenSingleUse
    <2>2. CASE production \/ Crash
      <3>1. token' = NoToken /\ UNCHANGED <<minted, redeemed>>
        BY <2>2 DEF production, Crash, FreshInner
      <3> QED  BY <2>0, <3>1 DEF NoToken, TokenInv, TokenSingleUse
    <2>3. CASE refresh_automatic
      BY Zenon, <2>1, <2>3 DEF refresh_automatic, Return, lead_refresh
    <2>4. ASSUME NEW c \in Clients, refresh_manual(c) PROVE TokenInv'
      <3>1. \/ UNCHANGED <<token, minted, redeemed>>
            \/ /\ redeemable(arg[c], observe_now) /\ token' = redeem(token)
               /\ redeemed' = redeemed \cup {arg[c]} /\ minted' = minted
            \/ /\ minted' = minted + 1 /\ redeemed' = redeemed
               /\ token' = [id |-> minted + 1,
                            expires |-> saturating_add(observe_now, TokenTTL)]
        BY Zenon, <2>4 DEF refresh_manual, Return, lead_refresh, ceremony
      <3>2. CASE /\ redeemable(arg[c], observe_now) /\ token' = redeem(token)
                 /\ redeemed' = redeemed \cup {arg[c]} /\ minted' = minted
        BY <2>0, <3>2 DEF redeemable, redeem, NoToken, TokenInv, TokenSingleUse
      <3>3. CASE /\ minted' = minted + 1 /\ redeemed' = redeemed
                 /\ token' = [id |-> minted + 1,
                              expires |-> saturating_add(observe_now, TokenTTL)]
        BY <2>0, <3>3 DEF TokenInv, TokenSingleUse
      <3> QED  BY <2>1, <3>1, <3>2, <3>3
    <2>5. ASSUME NEW t \in Threads, ThreadStep(t) PROVE TokenInv'
      BY Zenon, <2>1, <2>5 DEF ThreadStep, Join, Wake, Fetch, Respond, complete_refresh,
                        inner, clients
    <2>6. CASE \/ UNCHANGED vars \/ ClockMoves \/ UpstreamPublishes \/ RequestStop
               \/ ExitAfterServe \/ DriverFindsDue \/ DriverStops
               \/ \E c \in Clients : ServersRefresh(c)
      BY Zenon, <2>1, <2>6 DEF vars, ClockMoves, UpstreamPublishes, RequestStop,
                        ExitAfterServe, DriverFindsDue, DriverStops,
                        ServersRefresh, inner, clients
    <2> QED  BY <2>2, <2>3, <2>4, <2>5, <2>6 DEF Next
  <1>3. TokenInv => TokenSingleUse
    BY DEF TokenInv
  <1> QED  BY <1>1, <1>2, <1>3, TypeCorrect, PTL DEF Spec

-----------------------------------------------------------------------------
\* FR-13: the pacing of the upstream, for any number of sessions, any clock
\* and any durations: the floor, the suppression and the automatic window.
THEOREM PacingIsKept == Spec => []PacingHolds
  <1>1. TypeOK /\ FloorBetweenContacts /\ SuppressionHonoured /\ EligibleCoversSuppression
          => PacingHolds
    BY DEF PacingHolds
  <1> QED
    BY <1>1, TypeCorrect, FloorHolds, SuppressionHolds, WindowCoversSuppression, PTL

\* FR-13E/FR-13H: the disk knows of every contact made, and the etag offered
\* upstream names the catalog it holds, across any sequence of crashes.
THEOREM RecordIsHonest == Spec => []DurableRecordIsHonest
  <1>1. ContactIsDurable /\ EtagNamesDurableCatalog => DurableRecordIsHonest
    BY DEF DurableRecordIsHonest
  <1> QED  BY <1>1, ContactsAreDurable, EtagIsDurable, PTL

\* T-25/FR-13I: one thread leads a generation, and one confirmation buys one
\* lead, whatever the interleaving of the sessions.
THEOREM LeadHasOneOwner == Spec => []LeadIsUnique
  <1>1. SingleFlight /\ TokenSingleUse => LeadIsUnique
    BY DEF LeadIsUnique
  <1> QED  BY <1>1, SingleFlightHolds, TokensAreSingleUse, PTL

=============================================================================

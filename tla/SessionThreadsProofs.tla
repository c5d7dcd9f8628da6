------------------------ MODULE SessionThreadsProofs ------------------------
(***************************************************************************)
(* A session's memory and its last words, for every length of its queues    *)
(* and every window: the responses it holds are bounded, its counter is     *)
(* exact, and what it queued is written before its slot is free.            *)
(***************************************************************************)
EXTENDS SessionThreads, FiniteSetTheorems, TLAPS

\* Where the responses are in the channel, and how many a writer holds.
Responses(s) == {i \in DOMAIN s : s[i] = "response"}

Held == Cardinality(Responses(channel)) + One(writing = "response")

\* What is queued, being written or about to be queued by the forwarder.
Outstanding ==
    Len(channel) + One(writing # "none") + One(forwarder \in {"send", "marker"})

\* Before handle_session has started its threads nothing has happened.
Fresh ==
    dispatcher \in {"none", "start"} =>
        /\ ~receiver /\ unwritten = 0 /\ unflushed = 0
        /\ writing = "none" /\ forwarder = "none" /\ writer = "none"

\* The receiver lives as long as the writer's loop, and goes with the channel.
Threads ==
    /\ receiver <=> writer \in {"recv", "write"}
    /\ writing = "none" <=> writer # "write"
    /\ ~receiver => channel = <<>>
    /\ dispatcher \in {"join_forwarder", "gone"} /\ ~broken => writer = "gone"

\* The dispatcher has a reply in hand exactly between making and queueing it.
Replies ==
    /\ dispatcher \notin {"reserve", "send"} => reply = "none"
    /\ dispatcher = "reserve" => reply \in {"ack", "response"}
    /\ dispatcher = "send" => reply # "none"
    /\ dispatcher = "handle" => hello_done

\* The counter, the reservation of the dispatcher's own reply included.
Counted ==
    receiver =>
        /\ dispatcher \in {"poll", "read", "handle", "reserve"} =>
              unwritten = Outstanding
        /\ dispatcher = "send" /\ reply # "refusal" =>
              unwritten = Outstanding + 1

\* The look at the window, at the top of the loop, still holds when the reply
\* is queued: only the dispatcher adds responses.
Windowed ==
    receiver =>
        /\ Held <= MAX_UNWRITTEN_MESSAGES
        /\ (dispatcher = "read" /\ hello_done) \/ dispatcher = "handle"
              \/ reply = "response" => Held + 1 <= MAX_UNWRITTEN_MESSAGES

\* The history of responses: none is forgotten unless a write has failed.
Flushed ==
    /\ receiver => unflushed = Held
    /\ ~receiver /\ ~broken => unflushed = 0

\* What the bounds rest on: none of them is inductive by itself.
SessionInv ==
    TypeOK /\ Fresh /\ Threads /\ Replies /\ Counted /\ Windowed /\ Flushed

\* A response queued is one response more, any other message none.
LEMMA AppendCounts ==
    ASSUME NEW s \in Seq(Messages), NEW m \in Messages
    PROVE  /\ Cardinality(Responses(s)) \in Nat
           /\ Cardinality(Responses(s)) <= Len(s)
           /\ Cardinality(Responses(Append(s, m)))
                = Cardinality(Responses(s)) + One(m = "response")
  <1>1. IsFiniteSet(Responses(s)) /\ Cardinality(Responses(s)) <= Len(s)
    <2>1. Responses(s) \subseteq 1..Len(s) /\ Len(s) \in Nat  BY DEF Responses
    <2>2. IsFiniteSet(1..Len(s)) /\ Cardinality(1..Len(s)) = Len(s)
      <3>1. IsFiniteSet(1..Len(s))  BY <2>1, FS_Interval
      <3>2. Cardinality(1..Len(s)) = IF 1 > Len(s) THEN 0 ELSE Len(s) - 1 + 1
        BY <2>1, FS_Interval
      <3>3. QED  BY <2>1, <3>1, <3>2
    <2>3. QED  BY <2>1, <2>2, FS_Subset
  <1>2. Cardinality(Responses(s)) \in Nat  BY <1>1, FS_CardinalityType
  <1>3. CASE m = "response"
    <2>1. Responses(Append(s, m)) = Responses(s) \cup {Len(s) + 1}
      BY <1>3 DEF Responses
    <2>2. Len(s) + 1 \notin Responses(s)  BY DEF Responses
    <2>3. QED  BY Zenon, <1>1, <1>2, <1>3, <2>1, <2>2, FS_AddElement DEF One
  <1>4. CASE m # "response"
    <2>1. Responses(Append(s, m)) = Responses(s)  BY <1>4 DEF Responses
    <2>2. QED  BY <1>1, <1>2, <1>4, <2>1 DEF One
  <1>5. QED  BY <1>1, <1>2, <1>3, <1>4

\* What the writer takes is counted with what is left.
LEMMA TailCounts ==
    ASSUME NEW s \in Seq(Messages), s # <<>>
    PROVE  /\ Cardinality(Responses(Tail(s))) \in Nat
           /\ Cardinality(Responses(s))
                = Cardinality(Responses(Tail(s))) + One(Head(s) = "response")
  <1> DEFINE R == Responses(Tail(s))
             L == Responses(s) \ {1}
             up == [i \in R |-> i + 1]
  <1>1. Tail(s) \in Seq(Messages) /\ Len(Tail(s)) = Len(s) - 1 /\ Len(s) \in Nat \ {0}
    OBVIOUS
  <1>2. IsFiniteSet(R) /\ Cardinality(R) \in Nat
    <2>1. R \subseteq 1..Len(Tail(s)) /\ Len(Tail(s)) \in Nat  BY <1>1 DEF Responses
    <2>2. IsFiniteSet(1..Len(Tail(s)))  BY <2>1, FS_Interval
    <2>3. IsFiniteSet(R)  BY <2>1, <2>2, FS_Subset
    <2>4. QED  BY <2>3, FS_CardinalityType
  <1>3. \A i \in 1..Len(Tail(s)) : Tail(s)[i] = s[i + 1]  BY <1>1
  <1>4. up \in Bijection(R, L)
    <2>1. \A i \in R : i \in 1..Len(Tail(s)) /\ i + 1 \in L
      BY <1>1, <1>3 DEF Responses
    <2>2. \A j \in L : j - 1 \in R /\ j = (j - 1) + 1
      BY <1>1, <1>3 DEF Responses
    <2>3. up \in [R -> L]  BY <2>1
    <2>4. \A a, b \in R : up[a] = up[b] => a = b  BY <2>1
    <2>5. \A j \in L : \E i \in R : up[i] = j  BY <2>2
    <2>6. up \in Injection(R, L)  BY <2>3, <2>4 DEF Injection, IsInjective
    <2>7. up \in Surjection(R, L)  BY <2>3, <2>5 DEF Surjection
    <2>8. QED  BY <2>6, <2>7 DEF Bijection
  <1>5. IsFiniteSet(L) /\ Cardinality(L) = Cardinality(R)
    BY <1>2, <1>4, FS_Bijection DEF ExistsBijection
  <1>6. CASE Head(s) = "response"
    <2>1. Responses(s) = L \cup {1} /\ 1 \notin L  BY <1>1, <1>6 DEF Responses
    <2>2. QED  BY Zenon, <1>2, <1>5, <1>6, <2>1, FS_AddElement DEF One
  <1>7. CASE Head(s) # "response"
    <2>1. Responses(s) = L  BY <1>1, <1>7 DEF Responses
    <2>2. Cardinality(Responses(s)) = Cardinality(R)  BY Zenon, <1>5, <2>1
    <2>3. QED  BY <1>2, <1>7, <2>2 DEF One
  <1>8. QED  BY <1>6, <1>7

\* What a writer holds is counted in what is outstanding.
LEMMA HeldIsOutstanding ==
    ASSUME TypeOK
    PROVE  /\ Held \in Nat /\ Outstanding \in Nat
           /\ Held <= Outstanding /\ Outstanding <= CHANNEL_LEN + 2
  <1>1. channel \in Seq(Messages) /\ "event" \in Messages  BY DEF TypeOK, Messages
  <1>2. Cardinality(Responses(channel)) \in Nat
        /\ Cardinality(Responses(channel)) <= Len(channel)  BY <1>1, AppendCounts
  <1>3. Len(channel) \in Nat /\ Len(channel) <= CHANNEL_LEN  BY DEF TypeOK
  <1>4. /\ One(writing = "response") \in 0..1 /\ One(writing # "none") \in 0..1
        /\ One(forwarder \in {"send", "marker"}) \in 0..1
        /\ One(writing = "response") <= One(writing # "none")  BY DEF One
  <1>5. QED  BY <1>2, <1>3, <1>4, SessionAssumption DEF Held, Outstanding

\* The peer fills its own side of the socket.
LEMMA PeerSendsKeeps == ASSUME SessionInv, PeerSends PROVE SessionInv'
  <1> USE SessionAssumption DEF SessionInv, PeerSends, listening, peer, bus, window,
          w, d, history
  <1>1. TypeOK'  BY DEF TypeOK
  <1>2. Held' = Held /\ Outstanding' = Outstanding  BY DEF Held, Outstanding
  <1>3. Held \in Nat /\ Outstanding \in Nat /\ Held <= Outstanding  BY HeldIsOutstanding
  <1>4. Fresh' /\ Threads' /\ Replies'  BY DEF TypeOK, Fresh, Threads, Replies
  <1>5. Counted' /\ Windowed'
    BY <1>2, <1>3 DEF TypeOK, Fresh, Threads, Replies, Counted, Windowed
  <1>6. Flushed'  BY <1>2, <1>3 DEF TypeOK, Threads, Flushed
  <1>7. QED  BY <1>1, <1>4, <1>5, <1>6

\* A closed socket is met by the writer, later.
LEMMA PeerClosesKeeps == ASSUME SessionInv, PeerCloses PROVE SessionInv'
  <1> USE SessionAssumption DEF SessionInv, PeerCloses, peer, bus, window, w, d, history
  <1>1. TypeOK'  BY DEF TypeOK
  <1>2. Held' = Held /\ Outstanding' = Outstanding  BY DEF Held, Outstanding
  <1>3. Held \in Nat /\ Outstanding \in Nat /\ Held <= Outstanding  BY HeldIsOutstanding
  <1>4. Fresh' /\ Threads' /\ Replies'  BY DEF TypeOK, Fresh, Threads, Replies
  <1>5. Counted' /\ Windowed'
    BY <1>2, <1>3 DEF TypeOK, Fresh, Threads, Replies, Counted, Windowed
  <1>6. Flushed'  BY <1>2, <1>3 DEF TypeOK, Threads, Flushed
  <1>7. QED  BY <1>1, <1>4, <1>5, <1>6

\* The deadline is the dispatcher's to notice.
LEMMA TimePassesKeeps == ASSUME SessionInv, TimePasses PROVE SessionInv'
  <1> USE SessionAssumption DEF SessionInv, TimePasses, listening, peer, bus, window,
          w, d, history
  <1>1. TypeOK'  BY DEF TypeOK
  <1>2. Held' = Held /\ Outstanding' = Outstanding  BY DEF Held, Outstanding
  <1>3. Held \in Nat /\ Outstanding \in Nat /\ Held <= Outstanding  BY HeldIsOutstanding
  <1>4. Fresh' /\ Threads' /\ Replies'  BY DEF TypeOK, Fresh, Threads, Replies
  <1>5. Counted' /\ Windowed'
    BY <1>2, <1>3 DEF TypeOK, Fresh, Threads, Replies, Counted, Windowed
  <1>6. Flushed'  BY <1>2, <1>3 DEF TypeOK, Threads, Flushed
  <1>7. QED  BY <1>1, <1>4, <1>5, <1>6

\* The bus fills the event queue up to its length.
LEMMA PublishKeeps == ASSUME SessionInv, Publish PROVE SessionInv'
  <1> USE SessionAssumption DEF SessionInv, Publish, queue_room, peer, bus, window, w,
          d, history
  <1>1. TypeOK'
    <2>1. events' \in 0..MaxEvents /\ queue' \in 0..EVENT_QUEUE_LEN  BY DEF TypeOK
    <2>2. overflowed' \in BOOLEAN  BY Zenon DEF TypeOK
    <2>3. QED  BY <2>1, <2>2 DEF TypeOK
  <1>2. Held' = Held /\ Outstanding' = Outstanding  BY DEF Held, Outstanding
  <1>3. Held \in Nat /\ Outstanding \in Nat /\ Held <= Outstanding  BY HeldIsOutstanding
  <1>4. Fresh' /\ Threads' /\ Replies'  BY DEF TypeOK, Fresh, Threads, Replies
  <1>5. Counted' /\ Windowed'
    BY <1>2, <1>3 DEF TypeOK, Fresh, Threads, Replies, Counted, Windowed
  <1>6. Flushed'  BY <1>2, <1>3 DEF TypeOK, Threads, Flushed
  <1>7. QED  BY <1>1, <1>4, <1>5, <1>6

\* The slot is reserved before the session starts.
LEMMA AcceptKeeps == ASSUME SessionInv, Accept PROVE SessionInv'
  <1> USE SessionAssumption DEF SessionInv, Accept, peer, bus, window, w, d, history
  <1>1. TypeOK'  BY DEF TypeOK
  <1>2. Held' = Held /\ Outstanding' = Outstanding  BY DEF Held, Outstanding
  <1>3. Held \in Nat /\ Outstanding \in Nat /\ Held <= Outstanding  BY HeldIsOutstanding
  <1>4. Fresh' /\ Threads' /\ Replies'  BY DEF TypeOK, Fresh, Threads, Replies
  <1>5. Counted' /\ Windowed'
    BY <1>2, <1>3 DEF TypeOK, Fresh, Threads, Replies, Counted, Windowed
  <1>6. Flushed'  BY <1>2, <1>3 DEF TypeOK, Threads, Flushed
  <1>7. QED  BY <1>1, <1>4, <1>5, <1>6

\* A stop is the dispatcher's to notice.
LEMMA RequestStopKeeps == ASSUME SessionInv, RequestStop PROVE SessionInv'
  <1> USE SessionAssumption DEF SessionInv, RequestStop, peer, bus, window, w, d, history
  <1>1. TypeOK'  BY DEF TypeOK
  <1>2. Held' = Held /\ Outstanding' = Outstanding  BY DEF Held, Outstanding
  <1>3. Held \in Nat /\ Outstanding \in Nat /\ Held <= Outstanding  BY HeldIsOutstanding
  <1>4. Fresh' /\ Threads' /\ Replies'  BY DEF TypeOK, Fresh, Threads, Replies
  <1>5. Counted' /\ Windowed'
    BY <1>2, <1>3 DEF TypeOK, Fresh, Threads, Replies, Counted, Windowed
  <1>6. Flushed'  BY <1>2, <1>3 DEF TypeOK, Threads, Flushed
  <1>7. QED  BY <1>1, <1>4, <1>5, <1>6

\* The drain forces the socket down and touches nothing else.
LEMMA ServeStepKeeps == ASSUME SessionInv, ServeStep PROVE SessionInv'
  <1> USE SessionAssumption DEF SessionInv, ServeStep, Drain, finished, drain_over,
          peer, bus, window, w, d, history
  <1>1. TypeOK'  BY DEF TypeOK
  <1>2. Held' = Held /\ Outstanding' = Outstanding  BY DEF Held, Outstanding
  <1>3. Held \in Nat /\ Outstanding \in Nat /\ Held <= Outstanding  BY HeldIsOutstanding
  <1>4. Fresh' /\ Threads' /\ Replies'  BY DEF TypeOK, Fresh, Threads, Replies
  <1>5. Counted' /\ Windowed'
    BY <1>2, <1>3 DEF TypeOK, Fresh, Threads, Replies, Counted, Windowed
  <1>6. Flushed'  BY <1>2, <1>3 DEF TypeOK, Threads, Flushed
  <1>7. QED  BY <1>1, <1>4, <1>5, <1>6

\* A look at the window that finds room finds room for a response.
LEMMA PollKeeps == ASSUME SessionInv, Poll PROVE SessionInv'
  <1> USE SessionAssumption DEF SessionInv, Poll, is_exhausted, peer, bus, window, w,
          d, history
  <1>1. TypeOK'  BY DEF TypeOK
  <1>2. Held' = Held /\ Outstanding' = Outstanding  BY DEF Held, Outstanding
  <1>3. Held \in Nat /\ Outstanding \in Nat /\ Held <= Outstanding  BY HeldIsOutstanding
  <1>4. Fresh' /\ Threads' /\ Replies'  BY DEF TypeOK, Fresh, Threads, Replies
  <1>5. Counted' /\ Windowed'
    BY <1>2, <1>3 DEF TypeOK, Fresh, Threads, Replies, Counted, Windowed
  <1>6. Flushed'  BY <1>2, <1>3 DEF TypeOK, Threads, Flushed
  <1>7. QED  BY <1>1, <1>4, <1>5, <1>6

\* Only a request after the hello reaches the handler.
LEMMA ReadKeeps == ASSUME SessionInv, Read PROVE SessionInv'
  <1> USE SessionAssumption DEF SessionInv, Read, peer, bus, window, w, d, history
  <1>1. TypeOK'
    <2>1. overdue' \in BOOLEAN  BY Zenon DEF TypeOK
    <2>2. inbox' \in Seq({"hello", "request"})  BY DEF TypeOK
    <2>3. QED  BY <2>1, <2>2 DEF TypeOK
  <1>2. Held' = Held /\ Outstanding' = Outstanding  BY DEF Held, Outstanding
  <1>3. Held \in Nat /\ Outstanding \in Nat /\ Held <= Outstanding  BY HeldIsOutstanding
  <1>4. Fresh' /\ Threads' /\ Replies'  BY DEF TypeOK, Fresh, Threads, Replies
  <1>5. Counted' /\ Windowed'
    BY <1>2, <1>3 DEF TypeOK, Fresh, Threads, Replies, Counted, Windowed
  <1>6. Flushed'  BY <1>2, <1>3 DEF TypeOK, Threads, Flushed
  <1>7. QED  BY <1>1, <1>4, <1>5, <1>6

\* The response takes the room the look at the window has found.
LEMMA HandleKeeps == ASSUME SessionInv, Handle PROVE SessionInv'
  <1> USE SessionAssumption DEF SessionInv, Handle, peer, bus, window, w, d, history
  <1>1. TypeOK'
    <2>1. stop' \in BOOLEAN  BY Zenon DEF TypeOK
    <2>2. QED  BY <2>1 DEF TypeOK
  <1>2. Held' = Held /\ Outstanding' = Outstanding  BY DEF Held, Outstanding
  <1>3. Held \in Nat /\ Outstanding \in Nat /\ Held <= Outstanding  BY HeldIsOutstanding
  <1>4. Fresh' /\ Threads' /\ Replies'  BY DEF TypeOK, Fresh, Threads, Replies
  <1>5. Counted' /\ Windowed'
    BY <1>2, <1>3 DEF TypeOK, Fresh, Threads, Replies, Counted, Windowed
  <1>6. Flushed'  BY <1>2, <1>3 DEF TypeOK, Threads, Flushed
  <1>7. QED  BY <1>1, <1>4, <1>5, <1>6

\* A handler that never returns holds what it holds.
LEMMA HandlerBlocksKeeps == ASSUME SessionInv, HandlerBlocks PROVE SessionInv'
  <1> USE SessionAssumption DEF SessionInv, HandlerBlocks, peer, bus, window, w, d,
          history
  <1>1. TypeOK'  BY DEF TypeOK
  <1>2. Held' = Held /\ Outstanding' = Outstanding  BY DEF Held, Outstanding
  <1>3. Held \in Nat /\ Outstanding \in Nat /\ Held <= Outstanding  BY HeldIsOutstanding
  <1>4. Fresh' /\ Threads' /\ Replies'  BY DEF TypeOK, Fresh, Threads, Replies
  <1>5. Counted' /\ Windowed'
    BY <1>2, <1>3 DEF TypeOK, Fresh, Threads, Replies, Counted, Windowed
  <1>6. Flushed'  BY <1>2, <1>3 DEF TypeOK, Threads, Flushed
  <1>7. QED  BY <1>1, <1>4, <1>5, <1>6

\* The teardown begins with no reply in hand.
LEMMA ReturnKeeps == ASSUME SessionInv, Return PROVE SessionInv'
  <1> USE SessionAssumption DEF SessionInv, Return, gate_after_return, teardown_order,
          peer, bus, window, w, d, history
  <1>1. TypeOK'  BY DEF TypeOK
  <1>2. Held' = Held /\ Outstanding' = Outstanding  BY DEF Held, Outstanding
  <1>3. Held \in Nat /\ Outstanding \in Nat /\ Held <= Outstanding  BY HeldIsOutstanding
  <1>4. Fresh' /\ Threads' /\ Replies'  BY DEF TypeOK, Fresh, Threads, Replies
  <1>5. Counted' /\ Windowed'
    BY <1>2, <1>3 DEF TypeOK, Fresh, Threads, Replies, Counted, Windowed
  <1>6. Flushed'  BY <1>2, <1>3 DEF TypeOK, Threads, Flushed
  <1>7. QED  BY <1>1, <1>4, <1>5, <1>6

\* The order of the teardown, step by step.
LEMMA TeardownOrder ==
    /\ after("unsubscribe") = "join_writer"
    /\ after("join_writer") = "join_forwarder"
    /\ after("join_forwarder") = "gone"
  <1>1. /\ teardown_order[1] = "unsubscribe" /\ teardown_order[2] = "join_writer"
        /\ teardown_order[3] = "join_forwarder"  BY DEF teardown_order
  <1>2. \A j \in 1..3 : j = 1 \/ j = 2 \/ j = 3  OBVIOUS
  <1>3. (CHOOSE j \in 1..3 : teardown_order[j] = "unsubscribe") = 1
    BY <1>1, <1>2
  <1>4. (CHOOSE j \in 1..3 : teardown_order[j] = "join_writer") = 2
    BY <1>1, <1>2
  <1>5. (CHOOSE j \in 1..3 : teardown_order[j] = "join_forwarder") = 3
    BY <1>1, <1>2
  <1>6. QED  BY <1>1, <1>3, <1>4, <1>5 DEF after

\* The session ends only after its writer has.
LEMMA TeardownKeeps == ASSUME SessionInv, Teardown PROVE SessionInv'
  <1> USE SessionAssumption DEF SessionInv, Teardown, unsubscribe, writer_joined,
          peer, bus, window, w, d, history
  <1>0. \/ dispatcher = "unsubscribe" /\ dispatcher' = "join_writer"
        \/ dispatcher = "join_writer" /\ dispatcher' = "join_forwarder"
        \/ dispatcher = "join_forwarder" /\ dispatcher' = "gone"
    BY TeardownOrder
  <1>1. TypeOK'
    <2>1. slot' \in BOOLEAN  OBVIOUS
    <2>2. subscribed' \in BOOLEAN  BY Zenon DEF TypeOK
    <2>3. dispatcher' \in {"join_writer", "join_forwarder", "gone"}  BY <1>0
    <2>4. UNCHANGED <<stop, serve, sock, peer, hello_done, reply, gate, forwarder,
                      queue, overflowed, events, w, channel, window, history>>
      OBVIOUS
    <2> HIDE DEF Teardown
    <2>5. QED  BY <2>1, <2>2, <2>3, <2>4 DEF TypeOK
  <1>2. Held' = Held /\ Outstanding' = Outstanding  BY DEF Held, Outstanding
  <1>3. Held \in Nat /\ Outstanding \in Nat /\ Held <= Outstanding  BY HeldIsOutstanding
  <1>4. Fresh' /\ Threads' /\ Replies'  BY <1>0 DEF TypeOK, Fresh, Threads, Replies
  <1>5. Counted' /\ Windowed'
    BY <1>0, <1>2, <1>3 DEF TypeOK, Fresh, Threads, Replies, Counted, Windowed
  <1>6. Flushed'  BY <1>0, <1>2, <1>3 DEF TypeOK, Threads, Flushed
  <1>7. QED  BY <1>1, <1>4, <1>5, <1>6

\* A panic leaves the writer with what is queued.
LEMMA HandlerPanicsKeeps == ASSUME SessionInv, HandlerPanics PROVE SessionInv'
  <1> USE SessionAssumption DEF SessionInv, HandlerPanics, gate_after_return,
          unsubscribe, peer, bus, window, w, d, history
  <1>1. TypeOK'
    <2>1. gate' \in {"closed", "open", "dropped"}  BY DEF TypeOK
    <2>2. subscribed' \in BOOLEAN /\ slot' \in BOOLEAN /\ broken' \in BOOLEAN  BY Zenon
    <2>3. UNCHANGED <<stop, serve, sock, peer, hello_done, reply, forwarder, queue,
                      overflowed, events, w, channel, window, unflushed>>
          /\ dispatcher' = "gone"
      OBVIOUS
    <2> HIDE DEF HandlerPanics
    <2>4. QED  BY <2>1, <2>2, <2>3 DEF TypeOK
  <1>2. Held' = Held /\ Outstanding' = Outstanding  BY DEF Held, Outstanding
  <1>3. Held \in Nat /\ Outstanding \in Nat /\ Held <= Outstanding  BY HeldIsOutstanding
  <1>4. Fresh' /\ Threads' /\ Replies'  BY DEF TypeOK, Fresh, Threads, Replies
  <1>5. Counted' /\ Windowed'
    BY <1>2, <1>3 DEF TypeOK, Fresh, Threads, Replies, Counted, Windowed
  <1>6. Flushed'  BY <1>2, <1>3 DEF TypeOK, Threads, Flushed
  <1>7. QED  BY <1>1, <1>4, <1>5, <1>6

\* The gate only lets the forwarder go.
LEMMA ForwarderStartsKeeps == ASSUME SessionInv, ForwarderStarts PROVE SessionInv'
  <1> USE SessionAssumption DEF SessionInv, ForwarderStarts, peer, bus, window, w, d,
          history
  <1>1. TypeOK'  BY DEF TypeOK
  <1>2. Held' = Held /\ Outstanding' = Outstanding  BY DEF Held, Outstanding, TypeOK
  <1>3. Held \in Nat /\ Outstanding \in Nat /\ Held <= Outstanding  BY HeldIsOutstanding
  <1>4. Fresh' /\ Threads' /\ Replies'  BY DEF TypeOK, Fresh, Threads, Replies
  <1>5. Counted' /\ Windowed'
    BY <1>2, <1>3 DEF TypeOK, Fresh, Threads, Replies, Counted, Windowed
  <1>6. Flushed'  BY <1>2, <1>3 DEF TypeOK, Threads, Flushed
  <1>7. QED  BY <1>1, <1>4, <1>5, <1>6

\* The writer leaves with nothing queued.
LEMMA WriterExitsKeeps == ASSUME SessionInv, WriterExits PROVE SessionInv'
  <1> USE SessionAssumption DEF SessionInv, WriterExits, note_writer_exit, peer, bus,
          window, w, d, history
  <1>1. TypeOK'
    <2>1. writer_gone' \in BOOLEAN  BY Zenon DEF TypeOK
    <2>2. writer' \in {"shutdown", "gone"} /\ sock' \in {"open", "closed"}  BY DEF TypeOK
    <2>3. QED  BY <2>1, <2>2 DEF TypeOK
  <1>2. Held' = Held /\ Outstanding' = Outstanding  BY DEF Held, Outstanding
  <1>3. Held \in Nat /\ Outstanding \in Nat /\ Held <= Outstanding  BY HeldIsOutstanding
  <1>4. Fresh' /\ Threads' /\ Replies'  BY DEF TypeOK, Fresh, Threads, Replies
  <1>5. Counted' /\ Windowed'
    BY <1>2, <1>3 DEF TypeOK, Fresh, Threads, Replies, Counted, Windowed
  <1>6. Flushed'  BY <1>2, <1>3 DEF TypeOK, Threads, Flushed
  <1>7. QED  BY <1>1, <1>4, <1>5, <1>6

\* The threads start with nothing counted and nothing held.
LEMMA StartSessionKeeps == ASSUME SessionInv, StartSession PROVE SessionInv'
  <1> USE SessionAssumption DEF SessionInv, StartSession, peer, bus, window, w, d, history
  <1>1. TypeOK'
    <2>1. receiver' \in BOOLEAN /\ subscribed' \in BOOLEAN /\ slot' \in BOOLEAN
      BY Zenon DEF TypeOK
    <2>2. dispatcher' \in {"poll", "gone"} /\ writer' \in {"recv", "gone"}
          /\ forwarder' \in {"gate", "gone"}  OBVIOUS
    <2>3. QED  BY <2>1, <2>2 DEF TypeOK
  <1>2. channel = <<>> /\ channel' = <<>> /\ writing' = "none"
        /\ forwarder' \in {"gate", "gone"}  BY DEF Fresh, Threads
  <1>3. Held' = 0 /\ Outstanding' = 0
    <2>1. Responses(<<>>) = {}  BY DEF Responses
    <2>2. Cardinality({}) = 0  BY FS_EmptySet
    <2>3. QED  BY <1>2, <2>1, <2>2 DEF Held, Outstanding, One
  <1>4. Fresh' /\ Threads' /\ Replies'  BY <1>2 DEF TypeOK, Fresh, Threads, Replies
  <1>5. Counted' /\ Windowed'  BY <1>3 DEF Fresh, Replies, Counted, Windowed
  <1>6. Flushed'  BY <1>3 DEF Fresh, Flushed
  <1>7. QED  BY <1>1, <1>4, <1>5, <1>6

\* The reply is counted before it is queued.
LEMMA ReserveKeeps == ASSUME SessionInv, Reserve PROVE SessionInv'
  <1> USE SessionAssumption DEF SessionInv, Reserve, reserve, peer, bus, window, w, d,
          history
  <1>1. TypeOK'  BY DEF TypeOK
  <1>2. Held' = Held /\ Outstanding' = Outstanding  BY DEF Held, Outstanding
  <1>3. Held \in Nat /\ Outstanding \in Nat /\ Held <= Outstanding
        /\ Outstanding <= CHANNEL_LEN + 2  BY HeldIsOutstanding
  <1>4. Fresh' /\ Threads' /\ Replies'  BY DEF TypeOK, Fresh, Threads, Replies
  <1>5. Counted' /\ Windowed'
    <2>1. receiver => unwritten' = unwritten + 1
      BY <1>3 DEF TypeOK, Counted
    <2>2. QED  BY <1>2, <1>3, <2>1 DEF Replies, Counted, Windowed
  <1>6. Flushed'  BY <1>2 DEF Flushed
  <1>7. QED  BY <1>1, <1>4, <1>5, <1>6

\* What is queued was counted, and a response found room.
LEMMA SendKeeps == ASSUME SessionInv, Send PROVE SessionInv'
  <1> USE SessionAssumption DEF SessionInv, Send, room, peer, bus, window, w, d, history
  <1>1. TypeOK'
    <2>1. hello_done' \in BOOLEAN /\ overdue' \in BOOLEAN  BY Zenon DEF TypeOK
    <2>2. channel' \in Seq(Messages) /\ Len(channel') <= CHANNEL_LEN
      BY DEF TypeOK, Messages, Replies
    <2>3. unflushed' \in Nat  BY DEF TypeOK
    <2>4. QED  BY <2>1, <2>2, <2>3 DEF TypeOK
  <1>3. Held \in Nat /\ Outstanding \in Nat /\ Held <= Outstanding
        /\ Outstanding <= CHANNEL_LEN + 2  BY HeldIsOutstanding
  <1>4. Fresh' /\ Threads' /\ Replies'  BY DEF TypeOK, Fresh, Threads, Replies
  <1>a. CASE ~receiver
    <2>1. ~receiver'  BY <1>a
    <2>2. QED  BY <1>1, <1>4, <1>a, <2>1 DEF Counted, Windowed, Flushed
  <1>b. CASE receiver
    <2>1. Outstanding' = Outstanding + 1
      <3>1. Len(channel') = Len(channel) + 1 /\ Len(channel) \in Nat
        BY <1>b DEF TypeOK
      <3>2. writing' = writing /\ forwarder' = forwarder  OBVIOUS
      <3>3. One(writing # "none") \in 0..1 /\ One(forwarder \in {"send", "marker"}) \in 0..1
        BY DEF One
      <3>4. QED  BY <3>1, <3>2, <3>3 DEF Outstanding
    <2>2. Held' = Held + One(reply = "response")
      <3>1. reply \in Messages /\ channel \in Seq(Messages)
        BY DEF Replies, TypeOK, Messages
      <3>2. channel' = Append(channel, reply) /\ writing' = writing  BY <1>b
      <3>3. Cardinality(Responses(channel'))
              = Cardinality(Responses(channel)) + One(reply = "response")
            /\ Cardinality(Responses(channel)) \in Nat
        BY <3>1, <3>2, AppendCounts
      <3>4. QED  BY <3>2, <3>3 DEF Held, One
    <2>3. receiver' /\ reply' = "none" /\ unwritten' = unwritten
          /\ dispatcher' \in {"poll", "ending"}
          /\ (dispatcher' = "poll" <=> reply # "refusal")
          /\ unflushed' = unflushed + One(reply = "response")
      BY <1>b DEF One
    <2>4. Counted'  BY <1>3, <1>b, <2>1, <2>3 DEF Counted
    <2>5. Windowed'  BY <1>3, <1>b, <2>2, <2>3 DEF Windowed, One
    <2>6. Flushed'  BY <1>3, <1>b, <2>2, <2>3 DEF Flushed
    <2>7. QED  BY <1>1, <1>4, <2>4, <2>5, <2>6
  <1>7. QED  BY <1>a, <1>b

\* The event is counted as the forwarder takes it.
LEMMA ForwarderTakesKeeps == ASSUME SessionInv, ForwarderTakes PROVE SessionInv'
  <1> USE SessionAssumption DEF SessionInv, ForwarderTakes, reserve, peer, bus,
          window, w, d, history
  <1>1. TypeOK'  BY DEF TypeOK
  <1>2. Held' = Held  BY DEF Held
  <1>3. Held \in Nat /\ Outstanding \in Nat /\ Held <= Outstanding
        /\ Outstanding <= CHANNEL_LEN + 2  BY HeldIsOutstanding
  <1>4. Fresh' /\ Threads' /\ Replies'  BY DEF TypeOK, Fresh, Threads, Replies
  <1>5. Counted' /\ Windowed'
    <2>1. CASE unwritten' = reserve /\ forwarder' = "send"
      <3>1. Outstanding' = Outstanding + 1  BY <2>1 DEF Outstanding, One, TypeOK
      <3>2. receiver /\ dispatcher \in {"poll", "read", "handle", "reserve", "send"}
              /\ reply # "refusal" => unwritten' = unwritten + 1
        <4>1. receiver /\ dispatcher \in {"poll", "read", "handle", "reserve", "send"}
                /\ reply # "refusal" => unwritten \in {Outstanding, Outstanding + 1}
          BY DEF Counted
        <4>2. unwritten + 1 < UsizeRange => unwritten' = unwritten + 1
          BY <2>1 DEF TypeOK
        <4>3. Outstanding <= CHANNEL_LEN + 1
          <5>1. One(writing # "none") \in 0..1 /\ One(forwarder \in {"send", "marker"}) = 0
            BY DEF One
          <5>2. Len(channel) \in Nat /\ Len(channel) <= CHANNEL_LEN  BY DEF TypeOK
          <5>3. QED  BY <5>1, <5>2 DEF Outstanding
        <4>4. QED  BY <1>3, <4>1, <4>2, <4>3
      <3>3. QED  BY <1>2, <1>3, <3>1, <3>2 DEF Replies, Counted, Windowed
    <2>2. CASE unwritten' = unwritten /\ forwarder' = "gone"
      <3>1. Outstanding' = Outstanding  BY <2>2 DEF Outstanding, One
      <3>2. QED  BY <1>2, <1>3, <2>2, <3>1 DEF Counted, Windowed
    <2>3. QED  BY <2>1, <2>2
  <1>6. Flushed'  BY <1>2 DEF Flushed
  <1>7. QED  BY <1>1, <1>4, <1>5, <1>6

\* An event, or a marker counted on the way, is queued.
LEMMA ForwarderSendsKeeps == ASSUME SessionInv, ForwarderSends PROVE SessionInv'
  <1> USE SessionAssumption DEF SessionInv, ForwarderSends, room, reserve,
          marker_reserve, peer, bus, window, w, d, history
  <1>1. TypeOK'
    <2>1. channel' \in Seq(Messages) /\ Len(channel') <= CHANNEL_LEN
      BY DEF TypeOK, Messages
    <2>2. overflowed' \in BOOLEAN  BY Zenon DEF TypeOK
    <2>3. unwritten' = unwritten \/ unwritten' = (unwritten + 1) % UsizeRange  OBVIOUS
    <2>4. unwritten' \in 0..UsizeRange - 1
      <3> HIDE DEF ForwarderSends
      <3>1. QED  BY <2>3 DEF TypeOK
    <2>5. forwarder' \in {"gone", "marker", "recv"}  OBVIOUS
    <2>6. QED  BY <2>1, <2>2, <2>4, <2>5 DEF TypeOK
  <1>3. Held \in Nat /\ Outstanding \in Nat /\ Held <= Outstanding
        /\ Outstanding <= CHANNEL_LEN + 2  BY HeldIsOutstanding
  <1>4. Fresh' /\ Threads' /\ Replies'  BY DEF TypeOK, Fresh, Threads, Replies
  <1>a. CASE ~receiver
    <2>1. ~receiver'  BY <1>a
    <2>2. QED  BY <1>1, <1>4, <1>a, <2>1 DEF Counted, Windowed, Flushed
  <1>b. CASE receiver
    <2>1. channel' = Append(channel, "event") /\ writing' = writing  BY <1>b
    <2>2. Held' = Held
      <3>1. "event" \in Messages /\ channel \in Seq(Messages)  BY DEF TypeOK, Messages
      <3>2. Cardinality(Responses(channel'))
              = Cardinality(Responses(channel)) + One("event" = "response")
            /\ Cardinality(Responses(channel)) \in Nat
        BY <2>1, <3>1, AppendCounts
      <3>3. QED  BY <2>1, <3>2 DEF Held, One
    <2>3. \/ forwarder' = "marker" /\ unwritten' = reserve
             /\ Outstanding' = Outstanding + 1
          \/ forwarder' = "recv" /\ unwritten' = unwritten
             /\ Outstanding' = Outstanding
      BY <1>b, <2>1 DEF Outstanding, One, TypeOK
    <2>4. Counted'
      <3>1. CASE unwritten' = reserve /\ Outstanding' = Outstanding + 1
        <4>1. dispatcher \in {"poll", "read", "handle", "reserve", "send"}
                /\ reply # "refusal" => unwritten' = unwritten + 1
          <5>1. dispatcher \in {"poll", "read", "handle", "reserve", "send"}
                  /\ reply # "refusal" => unwritten \in {Outstanding, Outstanding + 1}
            BY <1>b DEF Counted
          <5>2. unwritten + 1 < UsizeRange => unwritten' = unwritten + 1
            <6>1. unwritten \in Nat /\ unwritten' = (unwritten + 1) % UsizeRange
              BY <3>1 DEF TypeOK
            <6> HIDE DEF ForwarderSends
            <6>2. QED  BY <6>1
          <5>3. Outstanding <= CHANNEL_LEN + 1
            <6>1. One(writing # "none") \in 0..1
                  /\ One(forwarder \in {"send", "marker"}) \in 0..1  BY DEF One
            <6>2. Len(channel) \in Nat /\ Len(channel) < CHANNEL_LEN
              BY <1>b DEF TypeOK
            <6>3. QED  BY <6>1, <6>2 DEF Outstanding
          <5>4. QED  BY <1>3, <5>1, <5>2, <5>3
        <4>2. QED  BY <1>3, <1>b, <3>1, <4>1 DEF Replies, Counted
      <3>2. CASE unwritten' = unwritten /\ Outstanding' = Outstanding
        BY <3>2 DEF Counted
      <3>3. QED  BY <2>3, <3>1, <3>2
    <2>5. Windowed' /\ Flushed'  BY <2>2 DEF Windowed, Flushed
    <2>6. QED  BY <1>1, <1>4, <2>4, <2>5
  <1>7. QED  BY <1>a, <1>b

\* The writer takes what the channel gives.
LEMMA WriterTakesKeeps == ASSUME SessionInv, WriterTakes PROVE SessionInv'
  <1> USE SessionAssumption DEF SessionInv, WriterTakes, senders, peer, bus, window,
          w, d, history
  <1>1. TypeOK'
    <2>1. channel' \in Seq(Messages) /\ Len(channel') <= CHANNEL_LEN
          /\ writing' \in Messages \cup {"none"}
      BY DEF TypeOK
    <2>2. receiver' \in BOOLEAN /\ writer' \in {"write", "note"}  BY Zenon DEF TypeOK
    <2>3. QED  BY <2>1, <2>2 DEF TypeOK
  <1>3. Held \in Nat /\ Outstanding \in Nat /\ Held <= Outstanding
        /\ Outstanding <= CHANNEL_LEN + 2  BY HeldIsOutstanding
  <1>a. CASE channel # <<>>
    <2>0. writing = "none" /\ writing' = Head(channel) /\ channel' = Tail(channel)
      BY Zenon, <1>a DEF Threads
    <2>1. channel \in Seq(Messages) /\ writing = "none" /\ writing' = Head(channel)
          /\ channel' = Tail(channel) /\ writing' \in Messages
      BY <1>a, <2>0 DEF TypeOK
    <2>2. Held' = Held
      <3>1. Cardinality(Responses(channel))
              = Cardinality(Responses(channel')) + One(writing' = "response")
            /\ Cardinality(Responses(channel')) \in Nat
        BY <1>a, <2>1, TailCounts
      <3>2. QED  BY <2>1, <3>1 DEF Held, One
    <2>3. Outstanding' = Outstanding
      <3>1. Len(channel') = Len(channel) - 1 /\ Len(channel) \in Nat  BY <1>a, <2>1
      <3>2. writing' # "none"  BY <2>1 DEF Messages
      <3>3. One(writing # "none") = 0 /\ One(writing' # "none") = 1
        BY <2>1, <3>2 DEF One
      <3>4. One(forwarder \in {"send", "marker"}) \in 0..1 /\ forwarder' = forwarder
        BY DEF One
      <3>5. QED  BY <3>1, <3>3, <3>4 DEF Outstanding
    <2>4. Fresh' /\ Threads' /\ Replies'
      BY Zenon, <1>a, <2>1 DEF TypeOK, Messages, Fresh, Threads, Replies
    <2>5. Counted' /\ Windowed' /\ Flushed'
      BY <1>a, <2>2, <2>3 DEF Counted, Windowed, Flushed
    <2>6. QED  BY <1>1, <2>4, <2>5
  <1>b. CASE channel = <<>>
    <2>1. ~receiver' /\ receiver /\ writing = "none"  BY <1>b DEF Threads
    <2>2. Held = 0
      <3>1. Responses(<<>>) = {}  BY DEF Responses
      <3>2. Cardinality({}) = 0  BY FS_EmptySet
      <3>3. QED  BY <1>b, <2>1, <3>1, <3>2 DEF Held, One
    <2>3. Fresh' /\ Threads' /\ Replies'
      BY <1>b, <2>1 DEF TypeOK, Fresh, Threads, Replies
    <2>4. Counted' /\ Windowed' /\ Flushed'
      BY <2>1, <2>2, <1>b DEF Counted, Windowed, Flushed
    <2>5. QED  BY <1>1, <2>3, <2>4
  <1>7. QED  BY <1>a, <1>b

\* A message written is one fewer, of its kind.
LEMMA WriteKeeps == ASSUME SessionInv, Write PROVE SessionInv'
  <1> USE SessionAssumption DEF SessionInv, Write, release, peer, bus, window, w, d,
          history
  <1>2. receiver /\ writing # "none"  BY DEF Threads
  <1>3. Held \in Nat /\ Outstanding \in Nat /\ Held <= Outstanding
        /\ Outstanding <= CHANNEL_LEN + 2  BY HeldIsOutstanding
  <1>a. CASE receiver' /\ unwritten' = release /\ channel' = channel /\ writer' = "recv"
            /\ unflushed' = unflushed - One(writing = "response") /\ broken' = broken
    <2>1. Outstanding' = Outstanding - 1  BY <1>2, <1>a DEF Outstanding, One, TypeOK
    <2>2. Held' = Held - One(writing = "response") /\ Held' \in Nat
      <3>1. Cardinality(Responses(channel)) \in Nat
        BY AppendCounts DEF TypeOK, Messages
      <3>2. QED  BY <1>a, <3>1 DEF Held, One
    <2>3. TypeOK'
      <3>1. unwritten' \in 0..UsizeRange - 1  BY <1>a DEF TypeOK
      <3>2. unflushed' \in Nat  BY <1>2, <1>a, <2>2 DEF Flushed
      <3>3. QED  BY SMTT(30), <1>a, <3>1, <3>2 DEF TypeOK
    <2>4. Fresh' /\ Threads' /\ Replies'
      BY Zenon, <1>2, <1>a DEF TypeOK, Fresh, Threads, Replies
    <2>5. Counted'
      <3>1. unwritten >= 1 => unwritten' = unwritten - 1  BY SMTT(30), <1>a DEF TypeOK
      <3>2. Outstanding' \in Nat  BY SMTT(30), <1>2, <1>a, <2>3 DEF Outstanding, One, TypeOK
      <3>3. QED  BY <1>2, <1>3, <1>a, <2>1, <3>1, <3>2 DEF Counted
    <2>6. Windowed'  BY <1>2, <1>3, <1>a, <2>2 DEF Windowed, One
    <2>7. Flushed'  BY <1>2, <1>a, <2>2 DEF Flushed
    <2>8. QED  BY <2>3, <2>4, <2>5, <2>6, <2>7
  <1>b. CASE ~receiver' /\ channel' = <<>> /\ broken' /\ writer' = "note"
            /\ UNCHANGED <<unwritten, unflushed>>
    <2>1. TypeOK'
      <3>1. channel' \in Seq(Messages) /\ Len(channel') <= CHANNEL_LEN  BY <1>b
      <3>2. broken' \in BOOLEAN /\ receiver' \in BOOLEAN  BY Zenon, <1>b
      <3>3. QED  BY <1>b, <3>1, <3>2 DEF TypeOK
    <2>2. Fresh' /\ Threads' /\ Replies'
      BY Zenon, <1>2, <1>b DEF TypeOK, Fresh, Threads, Replies
    <2>3. Counted' /\ Windowed' /\ Flushed'  BY <1>b DEF Counted, Windowed, Flushed
    <2>4. QED  BY <2>1, <2>2, <2>3
  <1>7. QED  BY Zenon, <1>2, <1>a, <1>b DEF One

\* Nothing has been queued, counted or promised yet.
LEMMA SessionStarts == Init => SessionInv
  <1> SUFFICES ASSUME Init PROVE SessionInv  OBVIOUS
  <1> USE SessionAssumption DEF Init
  <1>1. TypeOK
    <2>1. <<>> \in Seq(Messages) /\ <<>> \in Seq({"hello", "request"}) /\ Len(<<>>) = 0
      OBVIOUS
    <2>2. sent \in 0..MaxSent /\ queue \in 0..EVENT_QUEUE_LEN /\ events \in 0..MaxEvents
          /\ unwritten \in 0..UsizeRange - 1 /\ unflushed \in Nat  OBVIOUS
    <2>3. Len(channel) <= CHANNEL_LEN  BY <2>1
    <2>4. QED  BY Zenon, <2>1, <2>2, <2>3 DEF TypeOK
  <1>2. Fresh /\ Threads /\ Replies  BY DEF Fresh, Threads, Replies
  <1>3. Counted /\ Windowed /\ Flushed  BY DEF Counted, Windowed, Flushed
  <1>4. QED  BY <1>1, <1>2, <1>3 DEF SessionInv

\* Every step of every thread, of serve and of the peer keeps the invariant.
LEMMA SessionStep == ASSUME SessionInv, [Next]_vars PROVE SessionInv'
  <1>1. CASE Dispatcher
    BY <1>1, StartSessionKeeps, PollKeeps, ReadKeeps, HandleKeeps, ReserveKeeps,
       SendKeeps, ReturnKeeps, TeardownKeeps DEF Dispatcher
  <1>2. CASE Forwarder
    BY <1>2, ForwarderStartsKeeps, ForwarderTakesKeeps, ForwarderSendsKeeps DEF Forwarder
  <1>3. CASE Writer
    BY <1>3, WriterTakesKeeps, WriteKeeps, WriterExitsKeeps DEF Writer
  <1>4. CASE ServeStep  BY <1>4, ServeStepKeeps
  <1>5. CASE Environment
    BY <1>5, PeerSendsKeeps, PeerClosesKeeps, TimePassesKeeps, PublishKeeps,
       AcceptKeeps, RequestStopKeeps, HandlerBlocksKeeps, HandlerPanicsKeeps DEF
       Environment
  <1>6. CASE UNCHANGED vars
    <2> USE <1>6 DEF vars, peer, bus, window, w, d, history, SessionInv
    <2>1. Held' = Held /\ Outstanding' = Outstanding  BY DEF Held, Outstanding
    <2>2. TypeOK'  BY SMTT(30) DEF TypeOK
    <2>3. Fresh' /\ Threads' /\ Replies'  BY DEF Fresh, Threads, Replies
    <2>4. Counted' /\ Windowed' /\ Flushed'  BY <2>1 DEF Counted, Windowed, Flushed
    <2>5. QED  BY <2>2, <2>3, <2>4
  <1>7. QED  BY <1>1, <1>2, <1>3, <1>4, <1>5, <1>6 DEF Next

\* The invariant of a session's threads.
THEOREM SessionInvariant == Spec => []SessionInv
  <1>1. Init => SessionInv  BY SessionStarts
  <1>2. SessionInv /\ [Next]_vars => SessionInv'  BY SessionStep
  <1>3. QED  BY <1>1, <1>2, PTL DEF Spec

\* MAX_UNWRITTEN_MESSAGES and WriteWindow, for every channel length, window and
\* number of messages and events: a session holds no more responses than its
\* window allows, its counter is exact while requests are read, and it frees
\* its slot only after it has written what it queued.
THEOREM SessionsAreBounded == Spec => []SessionIsBounded
  <1>1. SessionInv => SessionIsBounded
    <2> SUFFICES ASSUME SessionInv PROVE SessionIsBounded  OBVIOUS
    <2> USE DEF SessionInv
    <2>1. Held \in Nat /\ Cardinality(Responses(channel)) \in Nat
      BY HeldIsOutstanding, AppendCounts DEF TypeOK, Messages
    <2>2. ResponsesBounded
      <3>1. Responses(channel) = {i \in DOMAIN channel : channel[i] = "response"}
        BY DEF Responses
      <3>2. receiver => One(dispatcher = "handle") + One(reply = "response") + Held
                         <= MAX_UNWRITTEN_MESSAGES
        BY <2>1, SessionAssumption DEF Windowed, Replies, One
      <3>3. QED  BY <2>1, <3>1, <3>2, SessionAssumption DEF ResponsesBounded, Held, One
    <2>3. CounterIsExact  BY DEF CounterIsExact, Counted, Outstanding
    <2>4. FlushedBeforeRelease  BY DEF FlushedBeforeRelease, Flushed, Threads
    <2>5. QED  BY <2>2, <2>3, <2>4 DEF SessionIsBounded
  <1>2. QED  BY <1>1, SessionInvariant, PTL

=============================================================================

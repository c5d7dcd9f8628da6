--------------------------- MODULE SessionThreads ---------------------------
(***************************************************************************)
(* The threads of one IPC session (crates/ipc/src/server/session.rs) and    *)
(* the serve loop that waits for it (crates/ipc/src/server/mod.rs): the     *)
(* dispatcher, which reads requests and owns the teardown, the forwarder,   *)
(* the writer, the write window they share, and the drain after a stop.     *)
(*                                                                         *)
(* What the messages say is left out; EventStream follows the events.       *)
(***************************************************************************)
EXTENDS Integers, Sequences, FiniteSets

CONSTANTS
    CHANNEL_LEN,             \* the writer channel (SESSION_QUEUE_LEN)
    EVENT_QUEUE_LEN,         \* the session's bus queue (SESSION_QUEUE_LEN)
    MAX_UNWRITTEN_MESSAGES,  \* the write window
    UsizeRange,              \* the window's counter is modulo this
    MaxSent,                 \* bound: messages the peer sends
    MaxEvents                \* bound: events the daemon publishes

ASSUME SessionAssumption ==
    /\ CHANNEL_LEN \in Nat \ {0} /\ EVENT_QUEUE_LEN \in Nat \ {0}
    /\ MAX_UNWRITTEN_MESSAGES \in Nat \ {0} /\ UsizeRange \in Nat
    /\ MAX_UNWRITTEN_MESSAGES < UsizeRange
    /\ CHANNEL_LEN + 3 < UsizeRange  \* a full channel and one message per thread
    /\ MaxSent \in Nat /\ MaxEvents \in Nat

VARIABLES
    stop,        \* the stop flag
    serve,       \* the accept loop: "accepting", "draining", "returned"
    slot,        \* a session slot is reserved for the connection
    sock,        \* the socket, shared by every handle: "open", "closed"
    inbox,       \* what the peer has sent and the session not read
    sent,        \* how many messages the peer has sent
    overdue,     \* the deadline in force has passed: the hello's, and after it
                 \* the idle ceiling since the last byte read
    dispatcher,  \* where the session thread is
    hello_done,
    reply,       \* what the dispatcher is about to send
    gate,        \* the hello gate: "closed", "open", or its sender "dropped"
    forwarder,   \* where the forwarder is
    subscribed,  \* the bus holds the sender of the event queue
    queue,       \* how many events the queue holds
    overflowed,  \* an event was dropped
    events,      \* how many events were published
    writer,      \* where the writer is
    writing,     \* the message it writes
    receiver,    \* the writer channel's receiver exists
    channel,     \* the writer channel
    unwritten,   \* WriteWindow::unwritten
    writer_gone, \* WriteWindow::writer_gone
    unflushed,   \* history: responses queued and not written
    broken       \* history: a write failed, or the dispatcher panicked

peer == <<inbox, sent, overdue>>
bus == <<subscribed, queue, overflowed, events>>
window == <<unwritten, writer_gone>>
w == <<writer, writing, receiver>>
d == <<dispatcher, hello_done, reply>>
history == <<unflushed, broken>>

vars == <<stop, serve, slot, sock, peer, d, gate, forwarder, bus, w, channel,
          window, history>>

Init ==
    /\ stop = FALSE /\ serve = "accepting" /\ slot = FALSE
    /\ sock = "open" /\ inbox = <<>> /\ sent = 0 /\ overdue = FALSE
    /\ dispatcher = "none" /\ hello_done = FALSE /\ reply = "none"
    /\ gate = "closed" /\ forwarder = "none"
    /\ subscribed = FALSE /\ queue = 0 /\ overflowed = FALSE /\ events = 0
    /\ writer = "none" /\ writing = "none" /\ receiver = FALSE /\ channel = <<>>
    /\ unwritten = 0 /\ writer_gone = FALSE
    /\ unflushed = 0 /\ broken = FALSE

-----------------------------------------------------------------------------
\* What arrives or expires later is looked at no more.
listening == dispatcher \in {"start", "poll", "read", "handle", "reserve", "send"}

\* The peer says something, in or out of turn, or hangs up; time passes.
PeerSends ==
    /\ sock = "open" /\ sent < MaxSent /\ listening
    /\ \E m \in {"hello", "request"} : inbox' = Append(inbox, m)
    /\ sent' = sent + 1
    /\ UNCHANGED <<stop, serve, slot, sock, overdue, d, gate, forwarder, bus, w,
                   channel, window, history>>

PeerCloses ==
    /\ sock = "open" /\ dispatcher # "none"
    /\ sock' = "closed"
    /\ UNCHANGED <<stop, serve, slot, peer, d, gate, forwarder, bus, w, channel,
                   window, history>>

TimePasses ==
    /\ listening
    /\ overdue' = TRUE
    /\ UNCHANGED <<stop, serve, slot, sock, inbox, sent, d, gate, forwarder, bus, w,
                   channel, window, history>>

\* EventBus::publish, as one session meets it.
queue_room == queue < EVENT_QUEUE_LEN

Publish ==
    /\ subscribed /\ events < MaxEvents
    /\ events' = events + 1
    /\ IF queue_room THEN queue' = queue + 1 /\ UNCHANGED overflowed
                     ELSE overflowed' = TRUE /\ UNCHANGED queue
    /\ UNCHANGED <<stop, serve, slot, sock, peer, d, gate, forwarder, subscribed, w,
                   channel, window, history>>

-----------------------------------------------------------------------------
\* serve_observed accepts the connection and reserves its slot ...
Accept ==
    /\ serve = "accepting" /\ ~stop /\ dispatcher = "none"
    /\ slot' = TRUE
    /\ dispatcher' = "start"
    /\ UNCHANGED <<stop, serve, sock, peer, hello_done, reply, gate, forwarder, bus,
                   w, channel, window, history>>

RequestStop ==
    /\ ~stop
    /\ stop' = TRUE
    /\ UNCHANGED <<serve, slot, sock, peer, d, gate, forwarder, bus, w, channel,
                   window, history>>

\* ... and after a stop waits for the session up to the drain ceiling, past
\* which it forces the socket down, if the session still holds it, and leaves.
drain_over == TRUE

finished == dispatcher \in {"none", "gone"}

Drain ==
    \/ /\ serve = "accepting" /\ stop
       /\ serve' = "draining"
       /\ UNCHANGED sock
    \/ /\ serve = "draining" /\ finished
       /\ serve' = "returned"
       /\ UNCHANGED sock
    \/ /\ serve = "draining" /\ ~finished /\ drain_over
       /\ serve' = "returned"
       /\ sock' = "closed"

ServeStep ==
    /\ Drain
    /\ UNCHANGED <<stop, slot, peer, d, gate, forwarder, bus, w, channel, window,
                   history>>

-----------------------------------------------------------------------------
\* handle_session: the threads start and the session subscribes, or the
\* socket's set-up fails and only the slot is given back.
StartSession ==
    /\ dispatcher = "start"
    /\ \/ /\ dispatcher' = "poll"
          /\ writer' = "recv" /\ receiver' = TRUE
          /\ subscribed' = TRUE /\ forwarder' = "gate"
          /\ UNCHANGED slot
       \/ /\ dispatcher' = "gone" /\ slot' = FALSE
          /\ writer' = "gone" /\ forwarder' = "gone"
          /\ UNCHANGED <<receiver, subscribed>>
    /\ UNCHANGED <<stop, serve, sock, peer, hello_done, reply, gate, queue,
                   overflowed, events, writing, channel, window, history>>

is_exhausted_OffByOne == unwritten > MAX_UNWRITTEN_MESSAGES

is_exhausted == unwritten >= MAX_UNWRITTEN_MESSAGES

\* The top of serve_messages' loop. A full window is polled, not waited on.
Poll ==
    /\ dispatcher = "poll"
    /\ \/ /\ stop \/ (hello_done /\ overdue)
          /\ dispatcher' = "ending" /\ UNCHANGED reply
       \/ /\ ~stop /\ ~hello_done /\ overdue
          /\ dispatcher' = "send" /\ reply' = "refusal"
       \/ /\ ~stop /\ hello_done /\ ~overdue /\ is_exhausted
          /\ writer_gone
          /\ dispatcher' = "ending" /\ UNCHANGED reply
       \/ /\ ~stop /\ ~overdue /\ (hello_done => ~is_exhausted)
          /\ dispatcher' = "read" /\ UNCHANGED reply
    /\ UNCHANGED <<stop, serve, slot, sock, peer, hello_done, gate, forwarder, bus,
                   w, channel, window, history>>

\* One message, a timeout, or the end of the stream. A second hello and a
\* request before the first are refused, and so, in the same way as the latter,
\* is a hello of an unsupported version.
Read ==
    /\ dispatcher = "read"
    /\ \/ /\ inbox # <<>>
          /\ inbox' = Tail(inbox) /\ overdue' = (overdue /\ ~hello_done)
          /\ LET m == Head(inbox)
             IN  \/ /\ m = "hello" /\ ~hello_done
                    /\ dispatcher' = "reserve" /\ reply' = "ack"
                 \/ /\ m = "request" /\ hello_done
                    /\ dispatcher' = "handle" /\ UNCHANGED reply
                 \/ /\ hello_done = (m = "hello")
                    /\ dispatcher' = "send" /\ reply' = "refusal"
       \/ /\ inbox = <<>>
          /\ dispatcher' = IF sock = "open" THEN "poll" ELSE "ending"
          /\ UNCHANGED <<inbox, overdue, reply>>
    /\ UNCHANGED <<stop, serve, slot, sock, sent, hello_done, gate, forwarder,
                   bus, w, channel, window, history>>

\* The request's handler answers; a Shutdown raises the stop flag first.
Handle ==
    /\ dispatcher = "handle"
    /\ dispatcher' = "reserve" /\ reply' = "response"
    /\ stop' \in {stop, TRUE}
    /\ UNCHANGED <<serve, slot, sock, peer, hello_done, gate, forwarder, bus, w,
                   channel, window, history>>

HandlerBlocks ==
    /\ dispatcher = "handle"
    /\ dispatcher' = "blocked"
    /\ UNCHANGED <<stop, serve, slot, sock, peer, hello_done, reply, gate, forwarder,
                   bus, w, channel, window, history>>

\* serve_messages returns and drops its gate sender; what is left unread stays
\* so.
gate_after_return == IF gate = "open" THEN "open" ELSE "dropped"

\* UnsubscribeOnDrop: the bus drops the sender of the event queue.
unsubscribe_Never == subscribed

unsubscribe == FALSE

\* A panic unwinds through every guard and joins nobody.
HandlerPanics ==
    /\ dispatcher = "handle"
    /\ dispatcher' = "gone"
    /\ gate' = gate_after_return /\ subscribed' = unsubscribe /\ slot' = FALSE
    /\ broken' = TRUE
    /\ UNCHANGED <<stop, serve, sock, peer, hello_done, reply, forwarder, queue,
                   overflowed, events, w, channel, window, unflushed>>

\* WriteWindow::send_through counts a message before it is queued; a refusal
\* is queued uncounted.
reserve == (unwritten + 1) % UsizeRange

Reserve ==
    /\ dispatcher = "reserve"
    /\ dispatcher' = "send"
    /\ unwritten' = reserve
    /\ UNCHANGED <<stop, serve, slot, sock, peer, hello_done, reply, gate, forwarder,
                   bus, w, channel, writer_gone, history>>

room == Len(channel) < CHANNEL_LEN

Send ==
    /\ dispatcher = "send"
    /\ \/ /\ ~receiver
          /\ dispatcher' = "ending"
          /\ UNCHANGED <<channel, hello_done, gate, overdue, unflushed>>
       \/ /\ receiver /\ room
          /\ channel' = Append(channel, reply)
          /\ hello_done' = (hello_done \/ reply = "ack")
          /\ gate' = IF reply = "ack" THEN "open" ELSE gate
          /\ overdue' = (overdue /\ reply # "ack")
          /\ unflushed' = unflushed + (IF reply = "response" THEN 1 ELSE 0)
          /\ dispatcher' = IF reply = "refusal" THEN "ending" ELSE "poll"
    /\ reply' = "none"
    /\ UNCHANGED <<stop, serve, slot, sock, inbox, sent, forwarder, bus, w, window,
                   broken>>

\* The teardown: the senders go, then the subscription, then the joins.
teardown_order == <<"unsubscribe", "join_writer", "join_forwarder">>

after(step) ==
    LET i == CHOOSE j \in 1..3 : teardown_order[j] = step
    IN  IF i = 3 THEN "gone" ELSE teardown_order[i + 1]

Return ==
    /\ dispatcher = "ending"
    /\ gate' = gate_after_return
    /\ dispatcher' = teardown_order[1]
    /\ inbox' = <<>>
    /\ UNCHANGED <<stop, serve, slot, sock, sent, overdue, hello_done, reply,
                   forwarder, bus, w, channel, window, history>>

writer_joined == writer = "gone"

\* The slot's guard is dropped last.
Teardown ==
    /\ dispatcher \in {"unsubscribe", "join_writer", "join_forwarder"}
    /\ dispatcher = "join_writer" => writer_joined
    /\ dispatcher = "join_forwarder" => forwarder = "gone"
    /\ subscribed' = IF dispatcher = "unsubscribe" THEN unsubscribe ELSE subscribed
    /\ dispatcher' = after(dispatcher)
    /\ slot' = (dispatcher' # "gone")
    /\ UNCHANGED <<stop, serve, sock, peer, hello_done, reply, gate, forwarder, queue,
                   overflowed, events, w, channel, window, history>>

-----------------------------------------------------------------------------
\* forward_events waits for the gate ...
ForwarderStarts ==
    /\ forwarder = "gate" /\ gate # "closed"
    /\ forwarder' = IF gate = "open" THEN "recv" ELSE "gone"
    /\ UNCHANGED <<stop, serve, slot, sock, peer, d, gate, bus, w, channel, window,
                   history>>

\* ... takes events until the queue is empty and its sender gone ...
ForwarderTakes ==
    /\ forwarder = "recv"
    /\ \/ /\ queue > 0
          /\ queue' = queue - 1
          /\ forwarder' = "send"
          /\ unwritten' = reserve
       \/ /\ queue = 0 /\ ~subscribed
          /\ forwarder' = "gone"
          /\ UNCHANGED <<queue, unwritten>>
    /\ UNCHANGED <<stop, serve, slot, sock, peer, d, gate, subscribed, overflowed,
                   events, w, channel, writer_gone, history>>

marker_reserve == reserve

\* ... queues each, without a look at the window, and answers an overflow.
ForwarderSends ==
    /\ forwarder \in {"send", "marker"}
    /\ \/ /\ ~receiver
          /\ forwarder' = "gone"
          /\ UNCHANGED <<channel, overflowed, unwritten>>
       \/ /\ receiver /\ room
          /\ channel' = Append(channel, "event")
          /\ IF forwarder = "send" /\ overflowed
             THEN /\ forwarder' = "marker" /\ overflowed' = FALSE
                  /\ unwritten' = marker_reserve
             ELSE forwarder' = "recv" /\ UNCHANGED <<overflowed, unwritten>>
    /\ UNCHANGED <<stop, serve, slot, sock, peer, d, gate, subscribed, queue, events,
                   w, writer_gone, history>>

-----------------------------------------------------------------------------
senders ==
    \/ dispatcher \notin {"unsubscribe", "join_writer", "join_forwarder", "gone"}
    \/ forwarder # "gone"

\* The writer takes messages until there is none and no sender.
WriterTakes ==
    /\ writer = "recv"
    /\ \/ /\ channel # <<>>
          /\ writing' = Head(channel) /\ channel' = Tail(channel)
          /\ writer' = "write" /\ UNCHANGED receiver
       \/ /\ channel = <<>> /\ ~senders
          /\ writer' = "note" /\ receiver' = FALSE
          /\ UNCHANGED <<writing, channel>>
    /\ UNCHANGED <<stop, serve, slot, sock, peer, d, gate, forwarder, bus, window,
                   history>>

release == (unwritten + UsizeRange - 1) % UsizeRange

\* A message is written whole and released, or its deadline passes or the
\* socket is down: the loop ends, and the receiver goes with what is queued.
Write ==
    /\ writer = "write"
    /\ \/ /\ sock = "open"
          /\ unwritten' = release
          /\ unflushed' = unflushed - (IF writing = "response" THEN 1 ELSE 0)
          /\ writer' = "recv"
          /\ UNCHANGED <<receiver, channel, broken>>
       \/ /\ writer' = "note" /\ receiver' = FALSE /\ channel' = <<>>
          /\ broken' = TRUE
          /\ UNCHANGED <<unwritten, unflushed>>
    /\ writing' = "none"
    /\ UNCHANGED <<stop, serve, slot, sock, peer, d, gate, forwarder, bus,
                   writer_gone>>

note_writer_exit == TRUE

\* The dead writer says so and takes the socket down with it.
WriterExits ==
    /\ \/ /\ writer = "note"
          /\ writer' = "shutdown" /\ writer_gone' = note_writer_exit
          /\ UNCHANGED sock
       \/ /\ writer = "shutdown"
          /\ writer' = "gone" /\ sock' = "closed"
          /\ UNCHANGED writer_gone
    /\ UNCHANGED <<stop, serve, slot, peer, d, gate, forwarder, bus, writing,
                   receiver, channel, unwritten, history>>

-----------------------------------------------------------------------------
Dispatcher == \/ StartSession \/ Poll \/ Read \/ Handle \/ Reserve \/ Send
              \/ Return \/ Teardown
Forwarder == ForwarderStarts \/ ForwarderTakes \/ ForwarderSends
Writer == WriterTakes \/ Write \/ WriterExits
Environment == \/ PeerSends \/ PeerCloses \/ TimePasses \/ Publish \/ Accept
               \/ RequestStop \/ HandlerBlocks \/ HandlerPanics

Next == Dispatcher \/ Forwarder \/ Writer \/ ServeStep \/ Environment

Spec == Init /\ [][Next]_vars

\* Threads run; a write ends by its deadline, the drain by its ceiling.
FairSpec ==
    /\ Spec
    /\ WF_vars(Dispatcher) /\ WF_vars(Forwarder) /\ WF_vars(Writer)
    /\ WF_vars(ServeStep)

-----------------------------------------------------------------------------
Messages == {"ack", "response", "refusal", "event"}

\* Every variable has its type and every queue keeps its bound.
TypeOK ==
    /\ stop \in BOOLEAN /\ serve \in {"accepting", "draining", "returned"}
    /\ slot \in BOOLEAN /\ sock \in {"open", "closed"}
    /\ inbox \in Seq({"hello", "request"}) /\ sent \in 0..MaxSent
    /\ overdue \in BOOLEAN /\ hello_done \in BOOLEAN
    /\ dispatcher \in {"none", "start", "poll", "read", "handle", "blocked",
                       "reserve", "send", "ending", "unsubscribe", "join_writer",
                       "join_forwarder", "gone"}
    /\ reply \in {"none", "ack", "response", "refusal"}
    /\ gate \in {"closed", "open", "dropped"}
    /\ forwarder \in {"none", "gate", "recv", "send", "marker", "gone"}
    /\ subscribed \in BOOLEAN /\ queue \in 0..EVENT_QUEUE_LEN
    /\ overflowed \in BOOLEAN /\ events \in 0..MaxEvents
    /\ writer \in {"none", "recv", "write", "note", "shutdown", "gone"}
    /\ writing \in Messages \cup {"none"} /\ receiver \in BOOLEAN
    /\ channel \in Seq(Messages) /\ Len(channel) <= CHANNEL_LEN
    /\ unwritten \in 0..UsizeRange - 1 /\ writer_gone \in BOOLEAN
    /\ unflushed \in Nat /\ broken \in BOOLEAN

One(b) == IF b THEN 1 ELSE 0

\* MAX_UNWRITTEN_MESSAGES: however the forwarder races the dispatcher's look at
\* the window, a session never holds more responses than the window allows, the
\* one being written and the one being made included.
ResponsesBounded ==
    receiver =>
        One(dispatcher = "handle") + One(reply = "response")
        + Cardinality({i \in DOMAIN channel : channel[i] = "response"})
        + One(writing = "response") <= MAX_UNWRITTEN_MESSAGES

\* WriteWindow: while requests may still be read, the counter is the number of
\* messages counted and not yet written; in particular it has not wrapped.
CounterIsExact ==
    receiver /\ dispatcher \in {"poll", "read", "handle", "reserve"} =>
        unwritten = Len(channel) + One(writing # "none")
                    + One(forwarder \in {"send", "marker"})

\* serve_observed: a session that has ended without a failed write or a panic
\* has written every response it queued.
FlushedBeforeRelease ==
    dispatcher = "gone" /\ ~broken => unflushed = 0

\* A session's memory is bounded by what it counts, and what it counted out is
\* written before its slot is free.
SessionIsBounded ==
    TypeOK /\ ResponsesBounded /\ CounterIsExact /\ FlushedBeforeRelease

\* R9-2, Codex round 5 and the deadlines: a session whose daemon stops, whose
\* socket or writer is gone, or whose peer is silent too long gives its slot
\* back, a handler that never returns excepted.
SlotIsReleased ==
    /\ slot /\ (stop \/ sock = "closed" \/ writer_gone)
         ~> ~slot \/ dispatcher = "blocked"
    /\ overdue ~> ~overdue \/ ~slot \/ dispatcher = "blocked"

\* rust-review finding 1: the session thread leaves no other thread behind,
\* a panic included.
ThreadsEnd ==
    dispatcher = "gone" ~> writer = "gone" /\ forwarder = "gone"

\* DRAIN_CEILING: a stop ends serve, whatever its session does.
ServeReturns == stop ~> serve = "returned"

\* A session ends: its slot comes back, its threads end and serve returns.
SessionEnds == SlotIsReleased /\ ThreadsEnd /\ ServeReturns

=============================================================================

---------------------------- MODULE EventStream ----------------------------
(***************************************************************************)
(* One session's event stream, end to end: the core that numbers events     *)
(* (crates/core/src/state.rs), the bounded fan-out queue                    *)
(* (crates/ipc/src/bus.rs), the session's forwarder and dispatcher          *)
(* (crates/ipc/src/server/session.rs) and the client SDK's cursor and       *)
(* buffer (crates/client/src/lib.rs, crates/ipc/src/client.rs).             *)
(*                                                                         *)
(* The daemon's state is named by the number of the last event that changed *)
(* it. The writer's channel and the socket are one bounded FIFO, the wire;  *)
(* the threads that fill and drain it are those of SessionThreads.          *)
(***************************************************************************)
EXTENDS Integers, SequencesExt

CONSTANTS
    SESSION_QUEUE_LEN,    \* the bus queue of the session
    PENDING_EVENTS_CAP,   \* the client's buffer of events read mid-request
    WireLen,              \* what the writer channel and the socket hold
    MaxSeq,               \* bound: events the daemon emits
    MaxRequests           \* bound: requests the application makes

ASSUME StreamAssumption ==
    /\ SESSION_QUEUE_LEN \in Nat \ {0} /\ PENDING_EVENTS_CAP \in Nat \ {0}
    /\ WireLen \in Nat \ {0} /\ MaxSeq \in Nat /\ MaxRequests \in Nat

None == -1

\* EVENT_SEQ_RESYNC_NOW, above every real sequence number.
ResyncNow == MaxSeq + 1

Event(s) == [kind |-> "event", seq |-> s]
Ack(s) == [kind |-> "ack", seq |-> s]
Response(s) == [kind |-> "response", seq |-> s]

VARIABLES
    seq,         \* DaemonCore::seq
    emitter,     \* where the emitter, which holds the core lock, is
    subscribed,  \* the session is registered on the bus
    queue,       \* the session's bus queue
    overflowed,  \* SessionEntry::overflowed
    gate,        \* the hello gate is open
    forwarder,   \* where the forwarder is
    carried,     \* the event it forwards
    request,     \* the client's request: "none", "sent" or "served"
    snapshot,    \* the sequence stamped on its response
    wire,        \* messages on their way to the client
    client,      \* where the client is
    hello_seq,   \* ProtonwireClient::hello_seq
    last_seq,    \* ProtonwireClient::last_seq
    pending,     \* IpcClient::pending_events
    gap_seq,     \* the argument of resynchronize
    requests,    \* requests the application has made
    view,        \* history: the state the application was last shown
    delivered,   \* history: events delivered as such
    resynced,    \* history: the newest snapshot delivered
    evicted,     \* history: what the client's full buffer dropped
    joined       \* history: the last event published before subscribe

core == <<seq, emitter>>
bus == <<subscribed, queue, overflowed, joined>>
session == <<gate, forwarder, carried>>
rpc == <<request, snapshot>>
shown == <<view, delivered, resynced>>
sdk == <<client, hello_seq, last_seq, pending, gap_seq, requests, evicted, shown>>

vars == <<core, bus, session, rpc, wire, sdk>>

Init ==
    /\ seq = 0 /\ emitter = "idle"
    /\ subscribed = FALSE /\ queue = <<>> /\ overflowed = FALSE /\ joined = 0
    /\ gate = FALSE /\ forwarder = "recv" /\ carried = None
    /\ request = "none" /\ snapshot = None
    /\ wire = <<>>
    /\ client = "connecting" /\ hello_seq = None /\ last_seq = None
    /\ pending = <<>> /\ gap_seq = None /\ requests = 0
    /\ view = None /\ delivered = {} /\ resynced = None /\ evicted = {}

-----------------------------------------------------------------------------
\* set_vpn_state and notice: the state changes and takes its number ...
Emit ==
    /\ emitter = "idle" /\ seq < MaxSeq
    /\ seq' = seq + 1
    /\ emitter' = "publish"
    /\ UNCHANGED <<bus, session, rpc, wire, sdk>>

\* ... is offered to the session's queue ...
Publish ==
    /\ emitter = "publish"
    /\ IF subscribed /\ Len(queue) < SESSION_QUEUE_LEN
       THEN queue' = Append(queue, seq) ELSE UNCHANGED queue
    /\ emitter' = IF subscribed /\ Len(queue) = SESSION_QUEUE_LEN
                  THEN "mark" ELSE "idle"
    /\ UNCHANGED <<seq, subscribed, overflowed, joined, session, rpc, wire, sdk>>

\* ... and a queue found full is marked, a step the forwarder may overtake.
mark_on_drop_Never == overflowed

mark_on_drop == TRUE

Mark ==
    /\ emitter = "mark"
    /\ overflowed' = mark_on_drop
    /\ emitter' = "idle"
    /\ UNCHANGED <<seq, subscribed, queue, joined, session, rpc, wire, sdk>>

\* The session registers before it has read the hello.
Subscribe ==
    /\ ~subscribed
    /\ subscribed' = TRUE
    /\ joined' = IF emitter = "publish" THEN seq - 1 ELSE seq
    /\ UNCHANGED <<core, queue, overflowed, session, rpc, wire, sdk>>

\* The hello: the ack, stamped without the core lock, is queued and the gate
\* opened behind it.
Hello ==
    /\ subscribed /\ ~gate /\ Len(wire) < WireLen
    /\ wire' = Append(wire, Ack(seq))
    /\ gate' = TRUE
    /\ UNCHANGED <<core, bus, forwarder, carried, rpc, sdk>>

-----------------------------------------------------------------------------
\* forward_events takes the next event once the gate is open ...
gate_open == gate

ForwarderTakes ==
    /\ forwarder = "recv" /\ gate_open /\ queue # <<>>
    /\ carried' = Head(queue) /\ queue' = Tail(queue)
    /\ forwarder' = "send"
    /\ UNCHANGED <<core, subscribed, overflowed, joined, gate, rpc, wire, sdk>>

\* ... waits for room in the writer's channel ...
ForwarderSends ==
    /\ forwarder = "send" /\ Len(wire) < WireLen
    /\ wire' = Append(wire, Event(carried))
    /\ carried' = None
    /\ forwarder' = "check"
    /\ UNCHANGED <<core, bus, gate, rpc, sdk>>

\* ... swaps the overflow mark out ...
ForwarderChecks ==
    /\ forwarder = "check"
    /\ overflowed' = FALSE
    /\ forwarder' = IF overflowed THEN "marker" ELSE "recv"
    /\ UNCHANGED <<core, subscribed, queue, joined, gate, carried, rpc, wire, sdk>>

\* ... and answers it with the resync marker.
ForwarderMarks ==
    /\ forwarder = "marker" /\ Len(wire) < WireLen
    /\ wire' = Append(wire, Event(ResyncNow))
    /\ forwarder' = "recv"
    /\ UNCHANGED <<core, bus, gate, carried, rpc, sdk>>

\* The dispatcher serves the request. A snapshot is taken under the core lock,
\* which the emitter holds until its event is published.
Serve ==
    /\ request = "sent"
    /\ client = "resync" => emitter = "idle"
    /\ request' = "served" /\ snapshot' = seq
    /\ UNCHANGED <<core, bus, session, wire, sdk>>

Respond ==
    /\ request = "served" /\ Len(wire) < WireLen
    /\ wire' = Append(wire, Response(snapshot))
    /\ request' = "none" /\ snapshot' = None
    /\ UNCHANGED <<core, bus, session, sdk>>

-----------------------------------------------------------------------------
\* The handshake takes the first message; anything but the ack refuses it.
Handshake ==
    /\ client = "connecting" /\ wire # <<>>
    /\ wire' = Tail(wire)
    /\ IF Head(wire).kind = "ack"
       THEN client' = "idle" /\ hello_seq' = Head(wire).seq
       ELSE client' = "refused" /\ UNCHANGED hello_seq
    /\ UNCHANGED <<core, bus, session, rpc, last_seq, pending, gap_seq, requests,
                   evicted, shown>>

\* The application calls next_event ...
CallNext ==
    /\ client = "idle"
    /\ client' = "next"
    /\ UNCHANGED <<core, bus, session, rpc, wire, hello_seq, last_seq, pending,
                   gap_seq, requests, evicted, shown>>

\* ... or any other method, whose result the stream does not depend on.
CallRequest ==
    /\ client = "idle" /\ requests < MaxRequests
    /\ client' = "request" /\ request' = "sent"
    /\ requests' = requests + 1
    /\ UNCHANGED <<core, bus, session, snapshot, wire, hello_seq, last_seq,
                   pending, gap_seq, evicted, shown>>

\* Nothing arrives within the timeout; the call fails and consumes nothing.
NextTimesOut ==
    /\ client = "next" /\ pending = <<>> /\ wire = <<>>
    /\ client' = "idle"
    /\ UNCHANGED <<core, bus, session, rpc, wire, hello_seq, last_seq, pending,
                   gap_seq, requests, evicted, shown>>

\* The next number in order. Before the first delivery any number up to the
\* one after the hello's stamp is.
in_order_Seeded(s) ==
    IF last_seq = None THEN s = hello_seq + 1 ELSE s = last_seq + 1

in_order(s) ==
    IF last_seq = None THEN s <= hello_seq + 1 ELSE s = last_seq + 1

\* A marker, or a number beyond the next one, reveals a miss.
reveals_miss(s) ==
    \/ s = ResyncNow
    \/ s > (IF last_seq = None THEN hello_seq ELSE last_seq) + 1

\* next_event on one envelope: resynchronize, deliver, or skip and go on.
Classify(s) ==
    \/ /\ reveals_miss(s)
       /\ client' = "resync" /\ request' = "sent"
       /\ gap_seq' = IF s = ResyncNow THEN None ELSE s
       /\ UNCHANGED <<last_seq, view, delivered>>
    \/ /\ ~reveals_miss(s) /\ in_order(s)
       /\ client' = "idle" /\ last_seq' = s
       /\ view' = s /\ delivered' = delivered \cup {s}
       /\ UNCHANGED <<request, gap_seq>>
    \/ /\ ~reveals_miss(s) /\ ~in_order(s)
       /\ UNCHANGED <<client, request, gap_seq, last_seq, view, delivered>>

\* Buffered events go first.
NextEvent ==
    /\ client = "next"
    /\ \/ /\ pending # <<>>
          /\ Classify(Head(pending))
          /\ pending' = Tail(pending)
          /\ UNCHANGED wire
       \/ /\ pending = <<>> /\ wire # <<>>
          /\ Classify(Head(wire).seq)
          /\ wire' = Tail(wire)
          /\ UNCHANGED pending
    /\ UNCHANGED <<core, bus, session, snapshot, hello_seq, requests, evicted,
                   resynced>>

InRequest == client \in {"request", "resync"}

\* An event read mid-request is buffered; a full buffer drops its oldest.
buffer_full == Len(pending) >= PENDING_EVENTS_CAP

BufferEvent ==
    /\ InRequest /\ wire # <<>> /\ Head(wire).kind = "event"
    /\ wire' = Tail(wire)
    /\ IF buffer_full
       THEN /\ pending' = Append(Tail(pending), Head(wire).seq)
            /\ evicted' = evicted \cup {Head(pending)}
       ELSE /\ pending' = Append(pending, Head(wire).seq)
            /\ UNCHANGED evicted
    /\ UNCHANGED <<core, bus, session, rpc, client, hello_seq, last_seq, gap_seq,
                   requests, shown>>

RequestReturns ==
    /\ client = "request" /\ wire # <<>> /\ Head(wire).kind = "response"
    /\ wire' = Tail(wire)
    /\ client' = "idle"
    /\ UNCHANGED <<core, bus, session, rpc, hello_seq, last_seq, pending, gap_seq,
                   requests, evicted, shown>>

\* The cursor lands on the snapshot's stamp, floored at what was seen.
resync_cursor(stamp, fallback) == IF stamp > fallback THEN stamp ELSE fallback

discard_events_through(s) == SelectSeq(pending, LAMBDA e : e > s)

resynchronize ==
    /\ client = "resync" /\ wire # <<>> /\ Head(wire).kind = "response"
    /\ LET stamp == Head(wire).seq
           fallback == IF gap_seq # None THEN gap_seq
                       ELSE IF last_seq # None THEN last_seq ELSE 0
           cursor == resync_cursor(stamp, fallback)
       IN  /\ pending' = discard_events_through(cursor)
           /\ last_seq' = cursor
           /\ view' = stamp
           /\ resynced' = IF stamp > resynced THEN stamp ELSE resynced
    /\ wire' = Tail(wire)
    /\ client' = "idle" /\ gap_seq' = None
    /\ UNCHANGED <<core, bus, session, rpc, hello_seq, requests, evicted,
                   delivered>>

\* The request's deadline passes: the connection is poisoned for good.
RequestTimesOut ==
    /\ InRequest
    /\ client' = "poisoned"
    /\ UNCHANGED <<core, bus, session, rpc, wire, hello_seq, last_seq, pending,
                   gap_seq, requests, evicted, shown>>

-----------------------------------------------------------------------------
Emitter == Publish \/ Mark
Forwarder == ForwarderTakes \/ ForwarderSends \/ ForwarderChecks \/ ForwarderMarks
Dispatcher == Subscribe \/ Hello \/ Serve \/ Respond
Client == \/ Handshake \/ CallNext \/ NextEvent \/ BufferEvent
          \/ RequestReturns \/ resynchronize

Next == \/ Emit \/ Emitter \/ Forwarder \/ Dispatcher \/ Client
        \/ CallRequest \/ NextTimesOut \/ RequestTimesOut

Spec == Init /\ [][Next]_vars

\* The threads are scheduled, and the application keeps asking for events.
FairSpec ==
    /\ Spec
    /\ WF_vars(Emitter) /\ WF_vars(Forwarder) /\ WF_vars(Dispatcher)
    /\ WF_vars(Client)

-----------------------------------------------------------------------------
Seqs == 0..MaxSeq

\* Every variable has its type, every queue keeps its bound, and the reserved
\* number never enters the cursor.
TypeOK ==
    /\ seq \in Seqs /\ emitter \in {"idle", "publish", "mark"}
    /\ subscribed \in BOOLEAN /\ overflowed \in BOOLEAN /\ gate \in BOOLEAN
    /\ queue \in Seq(Seqs) /\ Len(queue) <= SESSION_QUEUE_LEN
    /\ forwarder \in {"recv", "send", "check", "marker"}
    /\ carried \in Seqs \cup {None} /\ snapshot \in Seqs \cup {None}
    /\ request \in {"none", "sent", "served"}
    /\ Len(wire) <= WireLen
    /\ client \in {"connecting", "refused", "idle", "next", "request", "resync",
                   "poisoned"}
    /\ hello_seq \in Seqs \cup {None} /\ last_seq \in Seqs \cup {None}
    /\ pending \in Seq(Seqs \cup {ResyncNow}) /\ Len(pending) <= PENDING_EVENTS_CAP
    /\ gap_seq \in Seqs \cup {None} /\ requests \in 0..MaxRequests
    /\ view \in Seqs \cup {None} /\ resynced \in Seqs \cup {None}
    /\ delivered \subseteq Seqs /\ evicted \subseteq Seqs \cup {ResyncNow}
    /\ joined \in Seqs

\* WO-5: the ack is the first message the client reads, although the session
\* is subscribed before it and events are queued meanwhile.
AckComesFirst == client # "refused"

\* FR-127D: whatever the application's view has gone past since the session
\* subscribed was delivered to it or is covered by a snapshot it was given.
\* The one exception: once the client's buffer has dropped an event, the first
\* delivery may pass over what lay before it.
NothingLostSilently ==
    \A e \in joined + 1..view :
        \/ e \in delivered \/ e <= resynced
        \/ evicted # {} /\ \A d \in delivered : e < d

\* Codex round 2, finding 1: the application's view never goes back, whatever
\* is buffered or on the wire when a snapshot arrives.
ViewNeverRegresses == view' >= view

\* ClientEvent::Event, "in order and gap-free since the last delivery": two
\* events delivered one after the other are neighbours, a snapshot between
\* them counting as its stamp.
DeliveriesAreGapFree ==
    delivered' # delivered /\ view # None => view' = view + 1

\* The application sees the daemon's events in order, from the ack on, and
\* what it does not see is covered by a snapshot it was given.
StreamIsFaithful ==
    [][/\ TypeOK' /\ AckComesFirst' /\ NothingLostSilently'
       /\ ViewNeverRegresses /\ DeliveriesAreGapFree]_vars

\* X4: the application that keeps asking either catches up with the daemon again
\* and again or its session is marked, its marker was dropped, or its
\* connection is poisoned.
CatchesUp ==
    []<>(\/ view = seq \/ seq = joined \/ overflowed
         \/ ResyncNow \in evicted \/ client = "poisoned")

=============================================================================

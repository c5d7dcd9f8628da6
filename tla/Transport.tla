----------------------------- MODULE Transport ------------------------------
(***************************************************************************)
(* The frame codec (crates/ipc/src/frame.rs) between a daemon's writer and  *)
(* a client's reader, and the client calls on top of it (client.rs):        *)
(* handshake, request and next_event, each bounded by one deadline.         *)
(*                                                                         *)
(* A frame is PREFIX bytes of length and then its payload. The socket holds *)
(* at most CAP bytes, so both sides move a frame in pieces; the reader      *)
(* keeps its partial frame over a poll that found nothing and over a call   *)
(* that timed out. A byte is named by its frame and its place, so a reader  *)
(* that lost its place would be seen to take one byte for another.          *)
(***************************************************************************)
EXTENDS Integers, Sequences

CONSTANTS
    PREFIX,              \* bytes in the length prefix
    CAP,                 \* bytes the socket holds
    MAX_FRAME_LEN,       \* longest payload
    Lengths,             \* payload lengths of the messages
    PENDING_EVENTS_CAP,  \* events buffered while a request waits
    MaxFrames,           \* bound: frames the daemon sends
    MaxCalls             \* bound: calls the client makes after its handshake

VARIABLES
    sent,       \* the messages the daemon has started to write
    written,    \* bytes of the last of them on the wire so far
    late,       \* that message's write deadline has passed
    wire,       \* bytes in the socket
    down,       \* the daemon's end is shut down
    asked,      \* the request the daemon has not answered yet, or 0
    got,        \* the reader's partial frame
    delivered,  \* the frames the reader has completed
    call,       \* the client's call in progress
    expired,    \* the call's deadline has passed
    next_id, pending_events, dropped_events, poisoned,
    result,     \* how the last call ended
    calls       \* calls made

writer == <<sent, written, late, down, asked>>
client == <<next_id, pending_events, dropped_events, poisoned>>
vars == <<writer, wire, got, delivered, call, expired, client, result, calls>>

Size(f) == PREFIX + sent[f].len

Bytes(f, from, to) == [i \in 1 .. to - from + 1 |-> <<f, from + i - 1>>]

Writing == sent # <<>> /\ written < Size(Len(sent))

Idle == call = "none"

TypeOK ==
    /\ written \in Nat /\ Len(wire) <= CAP
    /\ Len(pending_events) <= PENDING_EVENTS_CAP
    /\ call \in {"none", "handshake", "request", "next_event"}
    /\ late \in BOOLEAN /\ down \in BOOLEAN /\ expired \in BOOLEAN /\ poisoned \in BOOLEAN

Init ==
    /\ sent = <<>> /\ written = 0 /\ late = FALSE /\ wire = <<>> /\ down = FALSE
    /\ asked = 0 /\ got = <<>> /\ delivered = <<>>
    /\ call = "handshake" /\ expired = FALSE
    /\ next_id = 1 /\ pending_events = <<>> /\ dropped_events = 0 /\ poisoned = FALSE
    /\ result = "none" /\ calls = 0

-----------------------------------------------------------------------------
(* The daemon's writer: write_msg_within, one message at a time.            *)

Message(kind, id, len) == [kind |-> kind, id |-> id, len |-> len]

\* A payload past the limit is refused before its first byte.
Offer(msg) ==
    /\ ~Writing /\ ~down /\ Len(sent) < MaxFrames
    /\ msg.len <= MAX_FRAME_LEN
    /\ sent' = Append(sent, msg) /\ written' = 0 /\ late' = FALSE
    /\ UNCHANGED <<wire, down, got, delivered, call, expired, client, result, calls>>

SendHello ==
    /\ sent = <<>> /\ UNCHANGED asked
    /\ \E kind \in {"HelloAck", "HelloError", "NewerAck"} : Offer(Message(kind, 0, 1))

SendEvent ==
    /\ sent # <<>> /\ sent[1].kind = "HelloAck" /\ UNCHANGED asked
    /\ \E len \in Lengths : Offer(Message("Event", Len(sent), len))

SendResponse ==
    /\ asked # 0 /\ asked' = 0
    /\ \E len \in Lengths : Offer(Message("Response", asked, len))

\* Each send takes what the socket has room for, and never waits past the
\* message's deadline.
write_all_within ==
    /\ Writing /\ ~down /\ ~late
    /\ \E n \in 1 .. CAP - Len(wire) :
          /\ written + n <= Size(Len(sent))
          /\ wire' = wire \o Bytes(Len(sent), written + 1, written + n)
          /\ written' = written + n
    /\ UNCHANGED <<sent, late, down, asked, got, delivered, call, expired, client,
                   result, calls>>

WriteDeadline ==
    /\ Writing /\ ~late /\ ~down /\ late' = TRUE
    /\ UNCHANGED <<sent, written, wire, down, asked, got, delivered, call, expired,
                   client, result, calls>>

\* write_deadline_exceeded: the writer's loop ends and shuts the socket down.
write_deadline_exceeded ==
    /\ Writing /\ late /\ ~down
    /\ down' = TRUE
    /\ UNCHANGED <<sent, written, late, wire, asked, got, delivered, call, expired,
                   client, result, calls>>

Hangup ==
    /\ ~Writing /\ ~down /\ down' = TRUE
    /\ UNCHANGED <<sent, written, late, wire, asked, got, delivered, call, expired,
                   client, result, calls>>

-----------------------------------------------------------------------------
(* FrameReader.                                                             *)

\* The length the prefix announces; a prefix put together from other bytes
\* announces anything.
Announced(bytes) ==
    IF \E f \in DOMAIN sent : SubSeq(bytes, 1, PREFIX) = Bytes(f, 1, PREFIX)
    THEN {sent[bytes[1][1]].len} ELSE Lengths

Needs(bytes) ==
    IF Len(bytes) < PREFIX THEN {PREFIX - Len(bytes)}
    ELSE {n \in {PREFIX + len - Len(bytes) : len \in Announced(bytes)} : n >= 0}

fill_DropsPartial(bytes) == IF Len(bytes) < PREFIX THEN <<>> ELSE bytes

\* What a read that would block leaves behind: the partial frame.
fill_kept(bytes) == bytes

Reading == ~Idle /\ ~poisoned

\* One read of the socket; the deadline is checked before each.
fill ==
    /\ Reading /\ ~expired /\ wire # <<>>
    /\ \E need \in Needs(got) : \E n \in 1 .. need :
          /\ n <= Len(wire)
          /\ got' = got \o SubSeq(wire, 1, n)
          /\ wire' = SubSeq(wire, n + 1, Len(wire))
    /\ UNCHANGED <<writer, delivered, call, expired, client, result, calls>>

\* A poll interval with nothing to read: handshake and next_event retry.
Poll ==
    /\ Reading /\ wire = <<>> /\ ~down /\ ~expired
    /\ call \in {"handshake", "next_event"}
    /\ got' = fill_kept(got)
    /\ UNCHANGED <<writer, wire, delivered, call, expired, client, result, calls>>

Complete == Reading /\ got # <<>> /\ 0 \in Needs(got)

Return(how) ==
    /\ call' = "none" /\ result' = how /\ expired' = FALSE

\* The deadline passes: request poisons the connection, next_event means only
\* that there is no event yet, a handshake gives the connection up.
Expire ==
    /\ Reading /\ expired /\ ~Complete
    /\ Return("TimedOut")
    /\ poisoned' = (call # "next_event")
    /\ UNCHANGED <<writer, wire, got, delivered, next_id, pending_events,
                   dropped_events, calls>>

\* End of the stream: at a boundary it is a hang-up, inside a frame it is not.
Eof ==
    /\ Reading /\ ~Complete /\ ~expired /\ wire = <<>> /\ down
    /\ Return(IF got = <<>> THEN "Closed" ELSE "Truncated")
    /\ poisoned' = (call # "next_event")
    /\ UNCHANGED <<writer, wire, got, delivered, next_id, pending_events,
                   dropped_events, calls>>

-----------------------------------------------------------------------------
(* The client's calls, from a completed frame on.                           *)

\* The frame decodes when its bytes are those of one message.
Decoded == IF \E f \in DOMAIN sent : got = Bytes(f, 1, Size(f))
           THEN sent[got[1][1]] ELSE Message("Garbage", 0, 0)

handshake ==
    /\ Complete /\ call = "handshake"
    /\ Return(CASE Decoded.kind = "HelloAck" -> "Ok"
                [] Decoded.kind = "HelloError" -> "HandshakeRefused"
                [] OTHER -> "Protocol")
    /\ poisoned' = (Decoded.kind # "HelloAck")
    /\ UNCHANGED <<next_id, pending_events, dropped_events>>

\* The oldest buffered event makes room for the newest.
Buffered(event) ==
    LET full == Len(pending_events) >= PENDING_EVENTS_CAP IN
    /\ pending_events' = Append(IF full THEN Tail(pending_events) ELSE pending_events, event)
    /\ dropped_events' = dropped_events + (IF full THEN 1 ELSE 0)

Answers(msg) == msg.kind = "Response" /\ msg.id = next_id - 1

request_reply ==
    /\ Complete /\ call = "request"
    /\ \/ /\ Answers(Decoded)
          /\ Return("Ok") /\ UNCHANGED client
       \/ /\ Decoded.kind = "Event" /\ Buffered(Decoded.id)
          /\ UNCHANGED <<call, result, expired, next_id, poisoned>>
       \/ /\ ~Answers(Decoded) /\ Decoded.kind # "Event"
          /\ Return("Transport") /\ poisoned' = TRUE
          /\ UNCHANGED <<next_id, pending_events, dropped_events>>

next_event_read ==
    /\ Complete /\ call = "next_event"
    /\ Return(IF Decoded.kind = "Event" THEN "Event" ELSE "InvalidData")
    /\ UNCHANGED client

Deliver ==
    /\ handshake \/ request_reply \/ next_event_read
    /\ delivered' = Append(delivered, Decoded)
    /\ got' = <<>>
    /\ UNCHANGED <<writer, wire, calls>>

\* A request goes out whole, or its write fails and poisons the connection.
request ==
    /\ Idle /\ calls < MaxCalls /\ result # "none"
    /\ calls' = calls + 1
    /\ \/ /\ poisoned /\ Return("Transport")
          /\ UNCHANGED <<asked, client>>
       \/ /\ ~poisoned /\ ~down
          /\ next_id' = next_id + 1 /\ asked' = next_id
          /\ call' = "request" /\ UNCHANGED <<expired, result>>
          /\ UNCHANGED <<pending_events, dropped_events, poisoned>>
       \/ /\ ~poisoned /\ Return("Transport")
          /\ next_id' = next_id + 1 /\ poisoned' = TRUE
          /\ UNCHANGED <<asked, pending_events, dropped_events>>
    /\ UNCHANGED <<sent, written, late, down, wire, got, delivered>>

next_event ==
    /\ Idle /\ calls < MaxCalls /\ result # "none"
    /\ calls' = calls + 1
    /\ \/ poisoned /\ Return("ConnectionAborted") /\ UNCHANGED client
       \/ /\ ~poisoned /\ pending_events # <<>>
          /\ pending_events' = Tail(pending_events) /\ Return("Event")
          /\ UNCHANGED <<next_id, dropped_events, poisoned>>
       \/ /\ ~poisoned /\ pending_events = <<>>
          /\ call' = "next_event" /\ UNCHANGED <<expired, result, client>>
    /\ UNCHANGED <<writer, wire, got, delivered>>

Tick ==
    /\ Reading /\ ~expired /\ expired' = TRUE
    /\ UNCHANGED <<writer, wire, got, delivered, call, client, result, calls>>

Next ==
    \/ SendHello \/ SendEvent \/ SendResponse \/ write_all_within \/ WriteDeadline
    \/ write_deadline_exceeded \/ Hangup
    \/ fill \/ Poll \/ Expire \/ Eof \/ Deliver \/ request \/ next_event \/ Tick

\* Deadlines pass, and the client's thread runs.
Fairness == WF_vars(Tick) /\ WF_vars(Expire) /\ WF_vars(Deliver)

Spec == Init /\ [][Next]_vars /\ Fairness

-----------------------------------------------------------------------------
(* The properties.                                                          *)

\* Whatever the pieces a frame came in, the polls that found nothing between
\* them and the calls that timed out inside it, the reader delivers exactly
\* the messages the daemon wrote, in order and with none misread; and it
\* reports a hang-up exactly when no frame was cut.
ReadsStayAligned ==
    /\ \A i \in DOMAIN delivered : delivered[i] = sent[i]
    /\ result = "Closed" => ~(Writing /\ written > 0)
    /\ result = "Truncated" => Writing /\ written > 0

\* Every call returns, however slowly the daemon answers and even when it
\* never does.
CallsReturn == ~Idle ~> Idle
=============================================================================

------------------------------ MODULE Transport ------------------------------
(***************************************************************************)
(* One direction of a TcpConnection: threads that call send_frame on the   *)
(* same connection (the schedule thread writes dispatches while a handler  *)
(* thread writes grants), the byte stream between the two ends, and the    *)
(* loop of recv_frame over FrameDecoder at the other end.  The stream cuts *)
(* and joins frames anywhere: send() takes any part of what it is given    *)
(* and recv() returns any part of what has arrived.  A payload is what the *)
(* encoder of its message wrote, and the receiver runs the decoder that    *)
(* belongs to the frame's type.                                            *)
(***************************************************************************)
EXTENDS WireMessages, FiniteSets

CONSTANTS Threads,     \* the threads that send on the connection
          Messages,    \* the messages in play: a type and a body for each
          Conversations, \* what the threads may have to send: a peer and a sequence of
                       \* elements of DOMAIN Messages per thread
          MaxFrame,    \* max_frame_ of the decoder
          RecvBytes,   \* the buffer recv_frame passes to recv()
          PartSizes,   \* the sizes of partial sends and receives that are explored
          MaxParts     \* bound: the partial sends and receives of a behaviour

ASSUME TransportAssumption ==
  /\ MaxFrame \in Nat /\ RecvBytes \in Nat \ {0} /\ MaxParts \in Nat
  /\ PartSizes \subseteq Nat \ {0}

VARIABLES peer,      \* the sender's build: its protocol version and type codes
          todo,      \* the calls of send_frame each thread has yet to make
          send_mu,   \* the thread inside send_frame, or NoThread
          unsent,    \* what each thread's send loop has left of its frame
          order,     \* history: the frames in the order they took send_mu
          wire,      \* bytes sent and not yet received
          link,      \* "up", or "down" once the connection is gone
          parts,     \* partial sends and receives so far
          buf,       \* the decoder's buffer buf_
          receiver,  \* "feed": at the top of recv_frame's loop; "recv"; "stopped"
          refused,   \* the decoder error that stopped the receiver, or NoError
          received   \* the frames recv_frame has returned

wireVars == <<peer, todo, send_mu, unsent, order, wire, link, parts, buf, receiver, refused,
              received>>

NoThread == "none"
kHeaderBytes == 12
kProtocolVersion == 1

Payload(m) == Encode(Encoder[Messages[m].type], Messages[m].body)

\* The arguments of the calls of send_frame for a sequence of messages.
Calls(build, ms) ==
  [i \in DOMAIN ms |-> [type |-> build.types[Messages[ms[i]].type], payload |-> Payload(ms[i])]]

WireInit ==
  /\ \E c \in Conversations :
       peer = c.peer /\ todo = [t \in Threads |-> Calls(c.peer, c.todo[t])]
  /\ send_mu = NoThread
  /\ unsent = [t \in Threads |-> <<>>]
  /\ order = <<>> /\ wire = <<>> /\ link = "up" /\ parts = 0
  /\ buf = <<>> /\ receiver = "feed" /\ refused = NoError /\ received = <<>>

(* ------------------------------- the sender ---------------------------- *)
encode_frame(f) ==
  Unsigned(4, kHeaderBytes + Len(f.payload)) \o Unsigned(4, peer.version) \o
  Unsigned(4, f.type) \o f.payload

Enter(t) ==
  LET f == Head(todo[t])
  IN  /\ send_mu' = t
      /\ unsent' = [unsent EXCEPT ![t] = encode_frame(f)]
      /\ order' = Append(order, f)
      /\ todo' = [todo EXCEPT ![t] = Tail(@)]
      /\ UNCHANGED <<peer, wire, link, parts, buf, receiver, refused, received>>

\* send_frame without its lock_guard.
EnterSend_Unlocked(t) == todo[t] # <<>> /\ unsent[t] = <<>> /\ Enter(t)
\* send_frame: take send_mu_ and build the frame.
EnterSend(t) == todo[t] # <<>> /\ unsent[t] = <<>> /\ send_mu = NoThread /\ Enter(t)

\* The amounts one send() or recv() of at most n bytes may move.
Amounts(n) == {n} \cup (IF parts < MaxParts THEN {k \in PartSizes : k < n} ELSE {})
CountPart(k, n) == parts' = IF k < n THEN parts + 1 ELSE parts
Left(s, n) == SubSeq(s, 1, n)
Rest(s, n) == SubSeq(s, n + 1, Len(s))

\* One turn of the send loop; the frame's last byte releases send_mu_.
Send(t) ==
  /\ unsent[t] # <<>> /\ link = "up"
  /\ \E k \in Amounts(Len(unsent[t])) :
       /\ CountPart(k, Len(unsent[t]))
       /\ wire' = wire \o Left(unsent[t], k)
       /\ unsent' = [unsent EXCEPT ![t] = Rest(@, k)]
       /\ send_mu' = IF k = Len(unsent[t]) THEN NoThread ELSE send_mu
  /\ UNCHANGED <<peer, todo, order, link, buf, receiver, refused, received>>

\* send() fails: send_frame returns the error, which every caller ignores.
SendFails(t) ==
  /\ unsent[t] # <<>> /\ link = "down"
  /\ unsent' = [unsent EXCEPT ![t] = <<>>] /\ send_mu' = NoThread
  /\ UNCHANGED <<peer, todo, order, wire, link, parts, buf, receiver, refused, received>>

(* ------------------------------- the receiver -------------------------- *)
U32At(b, i) == Value(SubSeq(b, i + 1, i + 4))
NeedMore(b) == [kind |-> "more", buf |-> b]
Malformed(code) == [kind |-> code, buf |-> <<>>]
Emitted(b, length) ==
  [kind |-> "frame", buf |-> Rest(b, length),
   frame |-> [type |-> U32At(b, 8), payload |-> SubSeq(b, kHeaderBytes + 1, length)]]

\* A decoder without the bound on the length a header may announce.
try_emit_Unbounded(b) ==
  IF Len(b) < 4 THEN NeedMore(b)
  ELSE IF U32At(b, 0) < kHeaderBytes THEN Malformed("malformed")
  ELSE IF Len(b) < U32At(b, 0) THEN NeedMore(b)
  ELSE IF U32At(b, 4) # kProtocolVersion THEN Malformed("unknown version")
  ELSE IF U32At(b, 8) \notin 1..45 THEN Malformed("unknown type")
  ELSE Emitted(b, U32At(b, 0))
\* FrameDecoder::try_emit; every error also empties the buffer.
try_emit(b) ==
  IF Len(b) < 4 THEN NeedMore(b)
  ELSE IF U32At(b, 0) < kHeaderBytes THEN Malformed("malformed")
  ELSE IF U32At(b, 0) > MaxFrame THEN Malformed("oversized")
  ELSE IF Len(b) < U32At(b, 0) THEN NeedMore(b)
  ELSE IF U32At(b, 4) # kProtocolVersion THEN Malformed("unknown version")
  ELSE IF U32At(b, 8) \notin 1..45 THEN Malformed("unknown type")
  ELSE Emitted(b, U32At(b, 0))

\* feed(bytes) and what recv_frame does with its result.  A frame goes to the
\* caller, which handles it and calls recv_frame again; after an error the
\* caller leaves its loop and the connection is closed.
Feed(bytes, more) ==
  LET e == try_emit(buf \o bytes)
  IN  /\ buf' = e.buf
      /\ \/ /\ e.kind = "frame"
            /\ received' = Append(received, e.frame)
            /\ receiver' = "feed"
            /\ UNCHANGED <<link, refused>>
         \/ /\ e.kind = "more"
            /\ receiver' = more
            /\ UNCHANGED <<link, refused, received>>
         \/ /\ e.kind \notin {"frame", "more"}
            /\ receiver' = "stopped" /\ refused' = e.kind /\ link' = "down"
            /\ UNCHANGED received

\* recv_frame going straight to recv().
FeedNothing_Skipped ==
  /\ receiver = "feed"
  /\ receiver' = "recv"
  /\ UNCHANGED <<peer, todo, send_mu, unsent, order, wire, link, parts, buf, refused, received>>
\* The top of the loop: a frame that is already buffered is returned first.
FeedNothing ==
  /\ receiver = "feed"
  /\ Feed(<<>>, "recv")
  /\ UNCHANGED <<peer, todo, send_mu, unsent, order, wire, parts>>

\* recv() returns some of the bytes that have arrived.
Recv ==
  LET n == IF Len(wire) < RecvBytes THEN Len(wire) ELSE RecvBytes
  IN  /\ receiver = "recv" /\ wire # <<>>
      /\ \E k \in Amounts(n) :
           /\ CountPart(k, n)
           /\ wire' = Rest(wire, k)
           /\ Feed(Left(wire, k), "feed")
      /\ UNCHANGED <<peer, todo, send_mu, unsent, order>>

\* recv() returns 0 or an error.
RecvEnds ==
  /\ receiver = "recv" /\ link = "down"
  /\ receiver' = "stopped"
  /\ UNCHANGED <<peer, todo, send_mu, unsent, order, wire, link, parts, buf, refused, received>>

\* The connection breaks, or the sending process ends (external).
Break ==
  /\ link = "up"
  /\ link' = "down"
  /\ UNCHANGED <<peer, todo, send_mu, unsent, order, wire, parts, buf, receiver, refused, received>>

SendThread(t) == EnterSend(t) \/ Send(t) \/ SendFails(t)
RecvThread == FeedNothing \/ Recv \/ RecvEnds
WireNext == (\E t \in Threads : SendThread(t)) \/ RecvThread \/ Break

WireSpec == WireInit /\ [][WireNext]_wireVars
FairWireSpec == WireSpec /\ (\A t \in Threads : WF_wireVars(SendThread(t))) /\ WF_wireVars(RecvThread)

(* ------------------------------- properties ---------------------------- *)
(* The types of the connection's state, and the bound on its memory: the   *)
(* decoder never buffers a whole frame of the largest size plus one recv() *)
(* (an announced length above max_frame_ is refused before its bytes are   *)
(* collected).                                                             *)
WireTypeOK ==
  /\ send_mu \in Threads \cup {NoThread}
  /\ \A t \in Threads : unsent[t] # <<>> => send_mu = t
  /\ link \in {"up", "down"} /\ parts \in 0..MaxParts
  /\ receiver \in {"feed", "recv", "stopped"}
  /\ Len(buf) < MaxFrame + RecvBytes

(* Whatever the stream cuts or joins and whichever threads share the       *)
(* connection, recv_frame returns the frames that were sent, whole and in  *)
(* the order their senders took send_mu_ (transport.hpp: without the mutex *)
(* "the two writes interleave and corrupt the frame stream").              *)
FramesInOrder == IsPrefix(received, order)

(* The decoder refuses only the frame it has to: the next one in order, if *)
(* it is over max_frame_ or comes from a build with another version or     *)
(* another set of types.  A frame that arrives in pieces is never taken    *)
(* for a malformed one.                                                    *)
OnlyBadFramesRefused ==
  refused # NoError =>
    /\ Len(received) < Len(order)
    /\ LET f == order[Len(received) + 1]
       IN \/ refused = "oversized" /\ kHeaderBytes + Len(f.payload) > MaxFrame
          \/ refused = "unknown version" /\ peer.version # kProtocolVersion
          \/ refused = "unknown type" /\ f.type \notin 1..45

(* The decoder of each type gives every field of a delivered payload the   *)
(* value its encoder wrote (messages.hpp: identities are "preserved        *)
(* losslessly across processes"), although the two field orders and widths *)
(* are written down twice in the code.                                     *)
RoundTrip ==
  \A m \in DOMAIN Messages :
    Decode(Decoder[Messages[m].type], Payload(m)) = [error |-> NoError, msg |-> Messages[m].body]
PayloadsSurvive == received # <<>> => RoundTrip

(* protocol.md: "A malformed or truncated message yields a structured      *)
(* error and is never interpreted as a valid field".  Every proper prefix  *)
(* of a payload is refused by the decoder that its delivery calls.         *)
PrefixesRefused ==
  \A m \in DOMAIN Messages :
    \A n \in 0..(Len(Payload(m)) - 1) :
      Decode(Decoder[Messages[m].type], Left(Payload(m), n)).error = "truncated"
TruncatedIsRefused == received # <<>> => PrefixesRefused

(* Every message is delivered, if the connection lasts: recv_frame never   *)
(* waits for bytes while a complete frame lies in its buffer.              *)
ConversationOver == Len(received) = Len(order) /\ \A t \in Threads : todo[t] = <<>>
EveryFrameArrives == <>(link = "down" \/ ConversationOver)

=============================================================================

------------------------------ MODULE Framing -------------------------------
(***************************************************************************)
(* One direction of a connection at the level of bytes: the peer's stream  *)
(* arrives in pieces cut anywhere, FramedRead drives WireDecoder over its  *)
(* buffer, and every message is logged and written out again by            *)
(* WireEncoder, after the hello rewrite when the exchange calls for it.    *)
(* The messages are the replies to one request.  The owner polls the       *)
(* reader again after an error, as the explain path does; owners that give *)
(* up are behaviours that stop.                                            *)
(***************************************************************************)
EXTENDS Messages

CONSTANTS
  LogLine(_), \* LogEvent: what LogLayer shows of a message
  Requests,  \* the requests the exchange may be about
  Streams,   \* the sequences of frames a peer may send
  Verbatim   \* the frames in them with nothing the proxy drops

Cells == UNION {UNION {ToSet(f) : f \in ToSet(s)} : s \in Streams}

\* A stream is cut into frames by the length fields its peer writes: a header
\* that parses announces its own frame.
ASSUME FramesAssumption ==
  \A s \in Streams :
    /\ s \in Seq(Seq(Cells))
    /\ \A f \in ToSet(s) :
         /\ Len(f) >= HeaderSize
         /\ LET parsed == MessageHeaderFromBytes(f)
            IN  IsErr(parsed) \/ parsed.ok.message_length = Len(f)

VARIABLES
  sent,       \* the frames of the peer
  request,    \* the request of the exchange
  rewrite,    \* RewriteHelloStream.rewrite of the exchange
  arrived,    \* how many bytes of the stream have been read into the buffer
  taken,      \* how many bytes the decoder has split off
  header,     \* WireDecoder.next_header
  readable,   \* FramedRead: the buffer may hold a frame
  eof,        \* FramedRead: the last read returned no byte
  errored,    \* FramedRead: the last poll returned an error
  delivered,  \* the messages the reader yielded
  told,       \* what the reader yielded last: a message, its end, or an error and which
  out,        \* the frames written to the other side
  failed,     \* the write of a message was refused
  logged      \* the events of LogLayer

vars == <<sent, request, rewrite, arrived, taken, header, readable, eof, errored, delivered,
          told, out, failed, logged>>

\* The number of bytes of the first k frames.
PrefixLen(k) == Len(FlattenSeq(SubSeq(sent, 1, k)))
Buffer == SubSeq(FlattenSeq(sent), taken + 1, arrived)

WireDecoderError ==
  {"IoError"} \cup (MessageHeaderParseError \ {"TooFewBytes"}) \cup MessageAndHeaderParseError

Telling(what) == [is |-> what, errors |-> {}]
Failing(error) == [is |-> "failed", errors |-> {error}]

\* A message has been yielded and not been written yet.
Pending == Len(delivered) > Len(out) /\ ~failed

RewriteHelloLayer == [enabled |-> TRUE, disabled |-> FALSE]
\* RewriteHelloService::call
Rewrites(enabled) == enabled /\ IsHelloRequest(request)

Init ==
  /\ sent \in Streams
  /\ request \in Requests
  /\ \E layer \in DOMAIN RewriteHelloLayer : rewrite = Rewrites(RewriteHelloLayer[layer])
  /\ arrived = 0 /\ taken = 0
  /\ header = {}
  /\ readable = FALSE /\ eof = FALSE /\ errored = FALSE
  /\ delivered = <<>> /\ told = Telling("open")
  /\ out = <<>> /\ failed = FALSE
  /\ logged = <<LogLine(request)>>

\* poll_read_buf: any number of the bytes under way.
Reading == ~readable /\ ~errored /\ ~Pending /\ ~eof
Read ==
  /\ Reading
  /\ \E n \in (arrived + 1) .. PrefixLen(Len(sent)) : arrived' = n
  /\ readable' = TRUE
  /\ UNCHANGED <<sent, request, rewrite, taken, header, eof, errored, delivered, told, out, failed,
                 logged>>

\* The peer has closed: a read of no bytes.
ReadEof ==
  /\ Reading
  /\ eof' = TRUE
  /\ readable' = TRUE
  /\ UNCHANGED <<sent, request, rewrite, arrived, taken, header, errored, delivered, told, out, failed,
                 logged>>

\* The read itself fails: the error is yielded, and nothing else changes.
ReadFails ==
  /\ Reading
  /\ errored' = TRUE
  /\ told' = [is |-> "broken", errors |-> {"IoError"}]
  /\ UNCHANGED <<sent, request, rewrite, arrived, taken, header, readable, eof, delivered, out, failed,
                 logged>>

Answer(hdr, used, err, item) == [header |-> hdr, used |-> used, err |-> err, item |-> item]
Split(hdr, h, buf) ==
  Sole({Answer(hdr, h.message_length, m.err, IF IsErr(m) THEN {} ELSE {m.ok}) :
          m \in {MessageFromHeadersAndBytes(h, SubSeq(buf, 1, h.message_length))}})

\* Mutation: the header stays cached after its frame.
DecodeFrameKeepsHeader(h, buf) ==
  IF Len(buf) < h.message_length THEN Answer({h}, 0, "", {}) ELSE Split({h}, h, buf)
\* Mutation: a frame is complete only when a byte follows it.
DecodeFrameLate(h, buf) ==
  IF Len(buf) <= h.message_length THEN Answer({h}, 0, "", {}) ELSE Split({}, h, buf)

\* With a header in hand: wait for the whole frame, then take the header and
\* the frame, whether or not the body parses.
DecodeFrame(h, buf) ==
  IF Len(buf) < h.message_length THEN Answer({h}, 0, "", {}) ELSE Split({}, h, buf)

\* WireDecoder::decode: the header cached afterwards, the bytes split off, the
\* error and the message, if any.  A bad header leaves the buffer alone.
WireDecode(cached, buf) ==
  LET fresh == MessageHeaderFromBytes(buf)
  IN  IF cached # {} THEN DecodeFrame(Sole(cached), buf)
      ELSE IF fresh.err = "TooFewBytes" THEN Answer({}, 0, "", {})
      ELSE IF IsErr(fresh) THEN Answer({}, 0, fresh.err, {})
      ELSE DecodeFrame(fresh.ok, buf)

\* A message or an error leaves the buffer readable; without a frame the reader
\* goes back to the socket.
StaysReadable(d, fails) == fails \/ d.item # {}

\* What FramedRead makes of the decoder's answer; at the end of file it fails on
\* left-over bytes, and otherwise ends.
PollOutcome(d) ==
  LET fails == d.err # "" \/ (d.item = {} /\ eof /\ Buffer # <<>>)
  IN  /\ errored' = fails
      /\ readable' = StaysReadable(d, fails)
      /\ delivered' = IF d.item = {} THEN delivered ELSE Append(delivered, Sole(d.item))
      /\ told' = IF d.err # "" THEN Failing(d.err)
                 ELSE IF fails THEN Failing("IoError")
                 ELSE IF d.item # {} THEN Telling("open")
                 ELSE IF eof THEN Telling("ended") ELSE told

\* FramedRead::poll_next on a readable buffer.
Polling == readable /\ ~errored /\ ~Pending
Decode ==
  /\ Polling
  /\ \E d \in {WireDecode(header, Buffer)} :
       /\ header' = d.header
       /\ taken' = taken + d.used
       /\ PollOutcome(d)
  /\ UNCHANGED <<sent, request, rewrite, arrived, eof, out, failed, logged>>

\* The poll after an error ends the stream once; the next one reads again.
PollAfterError ==
  /\ errored
  /\ errored' = FALSE
  /\ readable' = FALSE
  /\ told' = Telling("ended")
  /\ UNCHANGED <<sent, request, rewrite, arrived, taken, header, eof, delivered, out, failed, logged>>

\* What RewriteHelloStream yields for a message of the upstream.
Rewritten(m) == IF rewrite THEN StripTopologyFromMessage(m) ELSE m

\* RewriteHelloStream, LoggedStream around it, and WireEncoder::encode: the frame
\* is written whole, or refused with nothing written.
Forward ==
  /\ Pending
  /\ \E m \in {Rewritten(delivered[Len(out) + 1])} : \E w \in {MessageWriteBytes(m)} :
       /\ logged' = Append(logged, LogLine(m))
       /\ failed' = IsErr(w)
       /\ out' = IF IsErr(w) THEN out ELSE Append(out, w.ok)
  /\ UNCHANGED <<sent, request, rewrite, arrived, taken, header, readable, eof, errored, delivered, told>>

Next == Read \/ ReadEof \/ ReadFails \/ Decode \/ PollAfterError \/ Forward

\* The task runs whenever it has something to do; the peer owes it nothing.
\* Weak fairness of Decode and Forward, which are enabled exactly when their
\* guards hold; the guards stand for ENABLED.
Spec ==
  /\ Init
  /\ [][Next]_vars
  /\ <>[]Polling => []<><<Decode>>_vars
  /\ <>[]Pending => []<><<Forward>>_vars

-----------------------------------------------------------------------------
(* Properties *)

\* The first frame of which bytes are left is the head of the queue.
Taken == LET whole == {k \in 0 .. Len(sent) : PrefixLen(k) <= taken}
         IN  CHOOSE k \in whole : \A j \in whole : j <= k

\* The frames of the streams by what Message::from_bytes makes of each whole.
AllFrames == UNION {ToSet(s) : s \in Streams}
GoodFrames == {f \in AllFrames : ~IsErr(MessageFromBytes(f))}
BadBodies == {f \in AllFrames \ GoodFrames : ~IsErr(MessageHeaderFromBytes(f))}
MessageOf == [f \in GoodFrames |-> MessageFromBytes(f).ok]

Queue == INSTANCE FrameQueue
           WITH Good <- GoodFrames, Parsed <- MessageOf, Dropped <- BadBodies,
                next <- Taken + 1, held <- arrived > taken, closed <- eof, told <- told.is

\* Whatever way the stream is cut into reads, the reader takes whole frames in
\* the order sent: each becomes the message it is or is reported, a body error
\* costs its own frame and no other, a read that fails costs none, and an end of
\* file inside a frame is an error and never a quiet end (WireDecoder's cached header over FramedRead).
ImplementsQueue == Queue!QueueSpec

\* A frame the decoder let in is never too large to be written again, the
\* largest frame of the envelope included (MessageLength is checked in both
\* directions, and rewriting only removes bytes).
NeverTooLarge == ~failed

\* Every field of a document but the topology fields.
OtherFields(docs) ==
  [i \in DOMAIN docs |->
     {f \in ToSet(docs[i].fields) : f[1] \notin TOPOLOGY_DISCOVERY_FIELDS}]
AllFields(docs) == [i \in DOMAIN docs |-> ToSet(docs[i].fields)]

\* Every document a driver reads topology from leaves a rewritten exchange with
\* the fields it came with except the topology fields, in any section or reply
\* document, and the sections and the flags are as they were
\* (strip_topology_from_message).
OnlyTopologyLost(was, is) ==
  /\ is.op = was.op /\ is.flags = was.flags
  /\ is.op = "Msg" =>
       /\ Len(is.sections) = Len(was.sections)
       /\ is.checksum = was.checksum
       /\ AllFields(BodiesOf(is.sections)) = OtherFields(BodiesOf(was.sections))
  /\ is.op = "Reply" => AllFields(is.documents) = OtherFields(was.documents)

\* What the next hop reads is what this hop read, and in a rewritten exchange
\* exactly the topology fields are gone; the length field is the length of the
\* frame; and a frame that has no unknown optional flag and no byte behind its
\* last field goes out byte for byte; what is not relayed is reported with one
\* of the decoder's errors (write_bytes against from_bytes, for all three opcodes,
\* and RewriteHelloStream).
RelayFaithful ==
  /\ \A i \in 1 .. Len(out) :
       LET read == MessageFromBytes(out[i]) IN
       /\ read = Ok(Rewritten(delivered[i]))
       /\ rewrite => OnlyTopologyLost(delivered[i].operation, read.ok.operation)
       /\ IntAt(out[i], 1) = Len(out[i])
       /\ \A f \in ToSet(sent) \cap Verbatim :
            ~rewrite /\ MessageOf[f] = delivered[i] => out[i] = f
  /\ told.errors \subseteq WireDecoderError

\* The first k frames are well formed and all their bytes have been read.
Complete(k) ==
  /\ k <= Len(sent)
  /\ arrived >= PrefixLen(k)
  /\ \A j \in 1 .. k : sent[j] \in GoodFrames

\* A frame whose last byte has been read is delivered and forwarded without
\* another byte from the peer, even when it arrived in one piece with the frame
\* before it (FramedRead stays readable until the decoder asks for more).
PipelinedDelivered == \A k \in 1 .. 2 : Complete(k) ~> Len(out) >= k
=============================================================================

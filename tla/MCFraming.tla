----------------------------- MODULE MCFraming ------------------------------
(* Frames for the run over Framing: every opcode, every kind of section and *)
(* every error of the parsers, in front of a second frame.                  *)
EXTENDS RelayLog

Doc(fields, size) == [fields |-> fields, size |-> size, valid |-> TRUE]
Leaf(x) == [leaf |-> x]
Sasl(blob) == [doc |-> <<<<"conversationId", Leaf("1")>>, <<"payload", Leaf(blob)>>>>]
Plain == Doc(<<<<"ok", Leaf("1")>>>>, 5)
\* A hello reply: two topology fields, a blob below a credential key and one in
\* an array.
Hello ==
  Doc(<<<<"hosts", [arr |-> <<Leaf("a:1"), Leaf("b:1")>>]>>, <<"ok", Leaf("1")>>,
        <<"setName", Leaf("rs")>>, <<"speculativeAuthenticate", Sasl("blob")>>,
        <<"steps", [arr |-> <<Leaf("first"), Sasl("blob")>>]>>>>, 7)
Broken == [Plain EXCEPT !.valid = FALSE]
A == <<Letter("a")>>

Frame(op, body) ==
  MessageHeaderWriteBytes(MessageHeader(HeaderSize + Len(body), 7, {3}, op)) \o body
\* A header alone with the given length and opcode fields.
Header(length, code) == I32(length) \o I32(7) \o I32(0) \o I32(code)

Seq2 == KindByte(1) \o I32(4 + 2 + 12) \o CString(A) \o ToWriter(Plain) \o ToWriter(Hello)
Sequence(size, name, docs) == KindByte(1) \o I32(size) \o name \o docs
B(d) == KindByte(0) \o ToWriter(d)

MsgVerbatim ==
  {Bits({}) \o B(Hello),
   Bits({MORE_TO_COME}) \o B(Plain) \o Seq2,
   Bits({}) \o Seq2 \o B(Hello),
   Bits({CHECKSUM_PRESENT, EXHAUST_ALLOWED}) \o B(Hello) \o I32(99),
   Bits({CHECKSUM_PRESENT}) \o I32(99)}
MsgOther ==
  {Bits({20, MORE_TO_COME}) \o B(Plain),
   Bits({5}) \o B(Plain),
   Bits({}),
   Bits({CHECKSUM_PRESENT}) \o Filler(3),
   Bits({}) \o KindByte(2) \o ToWriter(Plain),
   Bits({}) \o B(Plain) \o B(Broken),
   Bits({}) \o Sequence(4 + 2 + 3, CString(A), ToWriter(Plain)),
   Bits({}) \o Sequence(4, <<>>, <<>>),
   Bits({}) \o Sequence(4 + 2 + 9, CString(A), ToWriter(Plain)),
   Bits({}) \o Sequence(4 + 1, A, <<>>),
   Bits({}) \o Sequence(4 + 2, CString(<<NotUtf8>>), <<>>)}

Query(flags, rest) == Bits(flags) \o CString(A) \o I32(0) \o I32(-1) \o rest
QueryVerbatim ==
  {Query({2}, ToWriter(Hello)), Query({}, ToWriter(Hello) \o ToWriter(Plain))}
QueryOther ==
  {Query({}, ToWriter(Hello) \o ToWriter(Plain) \o Filler(2)),
   Query({0}, ToWriter(Hello)),
   Query({}, ToWriter(Broken)),
   Query({}, ToWriter(Plain) \o Filler(2)),
   Bits({}) \o [i \in 1 .. 14 |-> Letter("a")],
   Bits({}) \o CString(A \o A) \o Filler(12)}

Reply(flags, n, docs) == Bits(flags) \o I64(0) \o I32(0) \o I32(n) \o docs
ReplyVerbatim ==
  {Reply({3}, 2, ToWriter(Hello) \o ToWriter(Hello)), Reply({}, 0, <<>>)}
ReplyOther ==
  {Reply({}, 1, ToWriter(Hello) \o ToWriter(Plain)),
   Reply({}, -1, <<>>),
   Reply({}, 2, ToWriter(Plain)),
   Reply({4}, 0, <<>>),
   Filler(19)}

\* A legacy handshake with a speculative authentication, and a command that is
\* no handshake.
MCRequests ==
  {Message(3, {}, OperationQuery({}, A, 0, -1,
                    Doc(<<<<"ismaster", Leaf("1")>>,
                          <<"speculativeAuthenticate", Sasl("blob")>>>>, 7), {Plain})),
   Message(3, {}, OperationMessage({}, <<Body(Doc(<<<<"saslStart", Leaf("1")>>,
                                                    <<"payload", Leaf("blob")>>>>, 6))>>, {}))}
MCLower == [saslStart |-> "saslstart", speculativeAuthenticate |-> "speculativeauthenticate"]

MCVerbatim ==
  {Frame("Msg", b) : b \in MsgVerbatim} \cup {Frame("Query", b) : b \in QueryVerbatim}
    \cup {Frame("Reply", b) : b \in ReplyVerbatim}
MCFrames ==
  MCVerbatim
    \cup {Frame("Msg", b) : b \in MsgOther} \cup {Frame("Query", b) : b \in QueryOther}
    \cup {Frame("Reply", b) : b \in ReplyOther}
    \cup {Header(15, 2013), Header(MaxMessageLength + 1, 2013), Header(16, 7), Header(16, 2013)}
Good == Frame("Msg", Bits({}) \o B(Plain))
Bad == Frame("Reply", Reply({}, -1, <<>>))
\* The peer may close before the second frame.
MCStreams == {<<f, Good>> : f \in MCFrames} \cup {<<f, Bad>> : f \in MCVerbatim \cup {Bad}}
=============================================================================

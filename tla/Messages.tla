------------------------------ MODULE Messages ------------------------------
(***************************************************************************)
(* The MongoDB wire format as the crate reads and writes it: the 16-byte   *)
(* header, the bodies of OP_MSG, OP_QUERY and OP_REPLY, and the rewrite of *)
(* hello replies.                                                          *)
(*                                                                         *)
(* A byte string is a sequence of cells, one cell for each byte.  The      *)
(* first cell of a field holds its value and the others are Filler, so     *)
(* every offset and every length is the one of the code.                   *)
(***************************************************************************)
EXTENDS Integers, Sequences, SequencesExt, Results

CONSTANTS
  MaxMessageLength,  \* the upper end of the envelope, 48 MiB in the code
  TopologySize       \* the bytes a topology field takes in a document

\* The envelope admits at least a bare header.
ASSUME EnvelopeAssumption == MaxMessageLength \in Nat /\ MaxMessageLength >= 16

-----------------------------------------------------------------------------
(* Cells *)

Filler(n) == [i \in 1 .. n |-> [filler |-> 0]]
I32(v) == <<[int |-> v]>> \o Filler(3)
I64(v) == <<[int |-> v]>> \o Filler(7)
Bits(s) == <<[bits |-> s]>> \o Filler(3)
KindByte(k) == <<[kind |-> k]>>
Nul == [nul |-> 0]
Letter(c) == [chr |-> c]
NotUtf8 == Letter("invalid")
CString(name) == name \o <<Nul>>

\* A document is the sequence of its <<key, value>> fields, with its size and
\* whether its bytes are BSON at all.  A value is a leaf, a doc or an arr.
ToWriter(d) == <<[doc |-> d]>> \o Filler(d.size - 1)
ToWriterAll(docs) == FlattenSeq([i \in 1 .. Len(docs) |-> ToWriter(docs[i])])

From(b, p) == SubSeq(b, p, Len(b))
Junk == -1
IntAt(b, p) == IF "int" \in DOMAIN b[p] THEN b[p].int ELSE Junk
BitsAt(b, p) == IF "bits" \in DOMAIN b[p] THEN b[p].bits ELSE {}

\* Document::from_reader at position p: the document must fit in the slice.
FromReader(b, p) ==
  IF /\ p <= Len(b)
     /\ "doc" \in DOMAIN b[p]
     /\ b[p].doc.valid
     /\ p + b[p].doc.size - 1 <= Len(b)
  THEN Ok(b[p].doc)
  ELSE Err("InvalidBson")

\* The documents of a slice that must be used up by them.
ReadAllDocs(b) ==
  LET Rest[p \in 1 .. Len(b) + 1] ==
        IF p > Len(b) THEN Ok(<<>>)
        ELSE Then(FromReader(b, p),
                  LAMBDA d : Then(Rest[p + d.size], LAMBDA more : Ok(<<d>> \o more)))
  IN  Rest[1]

\* CStr::from_bytes_until_nul: the cells before the first NUL.
UntilNul(b) ==
  LET nuls == {i \in 1 .. Len(b) : b[i] = Nul}
  IN  IF nuls = {} THEN Err("MissingNul")
      ELSE LET name == SubSeq(b, 1, (CHOOSE i \in nuls : \A j \in nuls : i <= j) - 1)
           IN  IF NotUtf8 \in ToSet(name) THEN Err("NotUtf8") ELSE Ok(name)

-----------------------------------------------------------------------------
(* Header *)

HeaderSize == 16
OPCode == [Reply |-> 1, Query |-> 2004, Msg |-> 2013]

MessageLengthOk(n) == n \in HeaderSize .. MaxMessageLength
\* Option<ResponseTo>: 0 on the wire is None.
ResponseTo(n) == {n} \ {0}
MessageHeader(length, id, to, op) ==
  [message_length |-> length, request_id |-> id, response_to |-> to, op_code |-> op]
MessageHeaderParseError == {"TooFewBytes", "InvalidOPCode", "InvalidMessageLength"}

MessageHeaderFromBytes(b) ==
  IF Len(b) < HeaderSize THEN Err("TooFewBytes")
  ELSE IF ~MessageLengthOk(IntAt(b, 1)) THEN Err("InvalidMessageLength")
  ELSE IF \A o \in DOMAIN OPCode : OPCode[o] # IntAt(b, 13) THEN Err("InvalidOPCode")
  ELSE Ok(MessageHeader(IntAt(b, 1), IntAt(b, 5), ResponseTo(IntAt(b, 9)),
                        CHOOSE o \in DOMAIN OPCode : OPCode[o] = IntAt(b, 13)))

MessageHeaderWriteBytes(h) ==
  I32(h.message_length) \o I32(h.request_id)
    \o I32(IF h.response_to = {} THEN 0 ELSE Sole(h.response_to))
    \o I32(OPCode[h.op_code])

\* Mutation: the writers refuse the largest frame the reader admits.
FitsBelow(length) == MessageLengthOk(length + 1)
Fits(length) == MessageLengthOk(length)

\* The tail the three writers share: the length is checked before any byte of
\* the frame is put into the destination.
WriteFrame(m, length, body) ==
  IF ~Fits(length) THEN Err("MessageTooLarge")
  ELSE Ok(MessageHeaderWriteBytes(
            MessageHeader(length, m.request_id, m.response_to, m.operation.op)) \o body)

\* The variant of an error enum that wraps another error.
MapErr(r, wraps) == IF IsErr(r) /\ r.err \in DOMAIN wraps THEN Err(wraps[r.err]) ELSE r

-----------------------------------------------------------------------------
(* OP_MSG *)

CHECKSUM_PRESENT == 0
MORE_TO_COME == 1
EXHAUST_ALLOWED == 16
OperationMessageFlags == {CHECKSUM_PRESENT, MORE_TO_COME, EXHAUST_ALLOWED}
RequiredBits == 0 .. 15

\* OpMsgSection: a body has one document, a document sequence any number.
Body(d) == [kind |-> 0, identifier |-> <<>>, documents |-> <<d>>]
DocumentSequence(i, ds) == [kind |-> 1, identifier |-> i, documents |-> ds]

OperationMessage(flags, sections, checksum) ==
  [op |-> "Msg", flags |-> flags, sections |-> sections, checksum |-> checksum]
OperationMessageParseError ==
  {"NotEnoughBytes", "UnknownRequiredBits", "InvalidKind", "MissingChecksum",
   "InvalidDocumentSequenceSize", "DocumentSequenceIdentifierMissingNul",
   "DocumentSequenceIdentifierNotUtf8", "InvalidBson"}

\* The documents of the Body sections, in order: as_body over the sections.
BodiesOf(sections) ==
  LET bodies == SelectSeq(sections, LAMBDA s : s.kind = 0)
  IN  [i \in 1 .. Len(bodies) |-> bodies[i].documents[1]]

\* A kind-1 section whose size field is at p: the identifier and the documents
\* are read from the declared section only.
ParseDocumentSequence(b, p) ==
  LET size == IntAt(b, p)
      payload == SubSeq(b, p + 4, p + size - 1)
  IN  IF Len(b) < p + 3 \/ size < 5 \/ p + size - 1 > Len(b)
        THEN Err("InvalidDocumentSequenceSize")
      ELSE Then(MapErr(UntilNul(payload),
                       [MissingNul |-> "DocumentSequenceIdentifierMissingNul",
                        NotUtf8    |-> "DocumentSequenceIdentifierNotUtf8"]), LAMBDA name :
             Then(ReadAllDocs(From(payload, Len(name) + 2)), LAMBDA docs :
               Ok([section |-> DocumentSequence(name, docs), next |-> p + size])))

\* One section whose kind byte is at p.
ParseSection(b, p) ==
  CASE b[p] = KindByte(0)[1] ->
         Then(FromReader(b, p + 1),
              LAMBDA d : Ok([section |-> Body(d), next |-> p + 1 + d.size]))
    [] b[p] = KindByte(1)[1] -> ParseDocumentSequence(b, p + 1)
    [] OTHER -> Err("InvalidKind")

ParseSections(b) ==
  LET Rest[p \in 1 .. Len(b) + 1] ==
        IF p > Len(b) THEN Ok(<<>>)
        ELSE Then(ParseSection(b, p),
                  LAMBDA s : Then(Rest[s.next], LAMBDA more : Ok(<<s.section>> \o more)))
  IN  Rest[1]

MsgMinLen == 4 + 1
OperationMessageFromBytes(b) ==
  LET raw == BitsAt(b, 1)
      flags == raw \cap OperationMessageFlags
      summed == CHECKSUM_PRESENT \in flags
  IN  IF Len(b) < MsgMinLen THEN Err("NotEnoughBytes")
      ELSE IF (raw \cap RequiredBits) \ OperationMessageFlags # {} THEN Err("UnknownRequiredBits")
      ELSE IF summed /\ Len(b) - 4 < 4 THEN Err("MissingChecksum")
      ELSE Then(ParseSections(SubSeq(b, 5, Len(b) - (IF summed THEN 4 ELSE 0))),
                LAMBDA sections :
                  Ok(OperationMessage(flags, sections,
                                      IF summed THEN {IntAt(b, Len(b) - 3)} ELSE {})))

\* Mutation: the size of a document sequence counts its kind byte.
SectionSizeWithKind(payload) == 1 + 4 + Len(payload)
\* The size field counts itself and not the kind byte.
SectionSize(payload) == 4 + Len(payload)

WriteSection(s) ==
  LET payload == CString(s.identifier) \o ToWriterAll(s.documents)
  IN  IF s.kind = 0 THEN KindByte(0) \o ToWriter(s.documents[1])
      ELSE KindByte(1) \o I32(SectionSize(payload)) \o payload

\* CHECKSUM_PRESENT is derived again from whether there is a checksum.
OperationMessageWriteBytes(m) ==
  LET o == m.operation
      sections == FlattenSeq([i \in 1 .. Len(o.sections) |-> WriteSection(o.sections[i])])
      summed == o.checksum # {}
      flags == (o.flags \ {CHECKSUM_PRESENT}) \cup (IF summed THEN {CHECKSUM_PRESENT} ELSE {})
  IN  WriteFrame(m, HeaderSize + 4 + Len(sections) + (IF summed THEN 4 ELSE 0),
                 Bits(flags) \o sections \o (IF summed THEN I32(Sole(o.checksum)) ELSE <<>>))

-----------------------------------------------------------------------------
(* OP_QUERY *)

OperationQueryFlags == 1 .. 7
QueryMinLen == 4 + 1 + 4 + 4 + 5
QueryTailMin == 4 + 4 + 5
OperationQuery(flags, name, skip, limit, query, selector) ==
  [op |-> "Query", flags |-> flags, full_collection_name |-> name, number_to_skip |-> skip,
   number_to_return |-> limit, query |-> query, return_fields_selector |-> selector]
OperationQueryParseError ==
  {"NotEnoughBytes", "UnknownFlagBits", "InvalidCollectionName", "InvalidUtf8CollectionName",
   "FailedToParseQuery", "FailedToParseReturnFieldsSelector"}

\* Bytes behind the field selector are not looked at.
ParseSelector(tail, p) ==
  IF p > Len(tail) THEN Ok({})
  ELSE Then(MapErr(FromReader(tail, p), [InvalidBson |-> "FailedToParseReturnFieldsSelector"]),
            LAMBDA d : Ok({d}))

\* What follows the collection name.
ParseQueryTail(flags, name, tail) ==
  IF Len(tail) < QueryTailMin THEN Err("NotEnoughBytes")
  ELSE Then(MapErr(FromReader(tail, 9), [InvalidBson |-> "FailedToParseQuery"]), LAMBDA query :
         Then(ParseSelector(tail, 9 + query.size), LAMBDA selector :
           Ok(OperationQuery(flags, name, IntAt(tail, 1), IntAt(tail, 5), query, selector))))

OperationQueryFromBytes(b) ==
  IF Len(b) < QueryMinLen THEN Err("NotEnoughBytes")
  ELSE IF ~(BitsAt(b, 1) \subseteq OperationQueryFlags) THEN Err("UnknownFlagBits")
  ELSE Then(MapErr(UntilNul(From(b, 5)), [MissingNul |-> "InvalidCollectionName",
                                          NotUtf8    |-> "InvalidUtf8CollectionName"]), LAMBDA name :
         ParseQueryTail(BitsAt(b, 1), name, From(b, 5 + Len(name) + 1)))

OperationQueryWriteBytes(m) ==
  LET o == m.operation
      selector == IF o.return_fields_selector = {} THEN <<>>
                  ELSE ToWriter(Sole(o.return_fields_selector))
      body == Bits(o.flags) \o CString(o.full_collection_name) \o I32(o.number_to_skip)
                \o I32(o.number_to_return) \o ToWriter(o.query) \o selector
  IN  WriteFrame(m, HeaderSize + Len(body), body)

-----------------------------------------------------------------------------
(* OP_REPLY *)

OperationReplyFlags == 0 .. 3
ReplyMinLen == 4 + 8 + 4 + 4
OperationReply(flags, cursor_id, starting_from, documents) ==
  [op |-> "Reply", flags |-> flags, cursor_id |-> cursor_id, starting_from |-> starting_from,
   documents |-> documents]
OperationReplyParseError == {"NotEnoughBytes", "UnknownFlagBits", "FailedToParseDocument"}

\* The first n documents of a slice, what follows them is not looked at.
ReadDocs(b, n) ==
  LET Upto[k \in 0 .. n] ==
        IF k = 0 THEN Ok([docs |-> <<>>, next |-> 1])
        ELSE Then(Upto[k - 1], LAMBDA before :
               Then(MapErr(FromReader(b, before.next),
                           [InvalidBson |-> "FailedToParseDocument"]), LAMBDA d :
                 Ok([docs |-> Append(before.docs, d), next |-> before.next + d.size])))
  IN  Upto[n]

OperationReplyFromBytes(b) ==
  LET number_returned == IntAt(b, 17)
  IN  IF Len(b) < ReplyMinLen THEN Err("NotEnoughBytes")
      ELSE IF ~(BitsAt(b, 1) \subseteq OperationReplyFlags) THEN Err("UnknownFlagBits")
      ELSE Then(ReadDocs(From(b, ReplyMinLen + 1),
                         IF number_returned > 0 THEN number_returned ELSE 0),
                LAMBDA read :
                  Ok(OperationReply(BitsAt(b, 1), IntAt(b, 5), IntAt(b, 13), read.docs)))

\* numberReturned is derived from the documents.
OperationReplyWriteBytes(m) ==
  LET o == m.operation
      docs == ToWriterAll(o.documents)
  IN  WriteFrame(m, HeaderSize + ReplyMinLen + Len(docs),
                 Bits(o.flags) \o I64(o.cursor_id) \o I32(o.starting_from)
                   \o I32(Len(o.documents)) \o docs)

-----------------------------------------------------------------------------
(* Message *)

Message(id, to, operation) == [request_id |-> id, response_to |-> to, operation |-> operation]
OperationParseError ==
  OperationMessageParseError \cup OperationQueryParseError \cup OperationReplyParseError
MessageAndHeaderParseError == {"NotEnoughBytes"} \cup OperationParseError

OperationFromBytes(op_code, b) ==
  CASE op_code = "Msg"   -> OperationMessageFromBytes(b)
    [] op_code = "Query" -> OperationQueryFromBytes(b)
    [] op_code = "Reply" -> OperationReplyFromBytes(b)

MessageFromHeadersAndBytes(h, b) ==
  IF Len(b) < h.message_length THEN Err("NotEnoughBytes")
  ELSE Then(OperationFromBytes(h.op_code, From(b, HeaderSize + 1)), LAMBDA operation :
         Ok(Message(h.request_id, h.response_to, operation)))

MessageFromBytes(b) ==
  Then(MessageHeaderFromBytes(b), LAMBDA h : MessageFromHeadersAndBytes(h, b))

MessageWriteBytes(m) ==
  CASE m.operation.op = "Msg"   -> OperationMessageWriteBytes(m)
    [] m.operation.op = "Query" -> OperationQueryWriteBytes(m)
    [] m.operation.op = "Reply" -> OperationReplyWriteBytes(m)

\* The first key of the first body, or of the query document.
FirstKey(d) == {d.fields[i][1] : i \in {1} \cap DOMAIN d.fields}
CommandName(o) ==
  CASE o.op = "Msg"   -> LET bodies == BodiesOf(o.sections)
                         IN  IF bodies = <<>> THEN {} ELSE FirstKey(bodies[1])
    [] o.op = "Query" -> FirstKey(o.query)
    [] o.op = "Reply" -> {}

IsHelloRequest(m) ==
  CommandName(m.operation) \cap {"hello", "isMaster", "ismaster"} # {}

TOPOLOGY_DISCOVERY_FIELDS ==
  {"setName", "setVersion", "electionId", "hosts", "passives", "arbiters", "primary", "me",
   "secondary", "arbiterOnly", "passive", "hidden", "tags", "lastWrite", "topologyVersion",
   "isreplicaset"}

\* A document without its topology fields is shorter by what they took.
StripTopologyFields(d) ==
  LET kept == SelectSeq(d.fields, LAMBDA f : f[1] \notin TOPOLOGY_DISCOVERY_FIELDS)
  IN  [d EXCEPT !.fields = kept, !.size = @ - TopologySize * (Len(d.fields) - Len(kept))]

StripAll(docs) == [i \in 1 .. Len(docs) |-> StripTopologyFields(docs[i])]

\* Bodies of an OP_MSG and documents of an OP_REPLY are stripped; document
\* sequences and queries are left alone.
StripTopologyFromMessage(m) ==
  CASE m.operation.op = "Msg" ->
         [m EXCEPT !.operation.sections =
            [i \in 1 .. Len(@) |->
               IF @[i].kind = 0 THEN [@[i] EXCEPT !.documents = StripAll(@)] ELSE @[i]]]
    [] m.operation.op = "Reply" -> [m EXCEPT !.operation.documents = StripAll(@)]
    [] m.operation.op = "Query" -> m
=============================================================================

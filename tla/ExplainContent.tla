--------------------------- MODULE ExplainContent ---------------------------
(***************************************************************************)
(* What the explains of the pipeline say, with the plans, the explains and *)
(* the readings of ExplainModel: what is asked of the server is the        *)
(* client's command, and what a consumer is told is what the server wrote. *)
(***************************************************************************)
EXTENDS ExplainPipeline, ExplainModel

\* The operations a write names, inline or in document sequences.
Operations(sections) ==
  FlattenSeq([i \in DOMAIN sections |->
    IF "identifier" \in DOMAIN sections[i] THEN sections[i].documents
    ELSE LET inline == UNION {Get(sections[i].body, k) : k \in {"updates", "deletes"}}
         IN  IF inline = {} THEN <<>>
             ELSE [j \in DOMAIN Sole(inline).arr |-> Sole(inline).arr[j].doc]])

\* The fields of a command that are about its database, its session or transaction
\* and its read settings, not about what it does.
SessionFields == {"lsid", "txnNumber", "autocommit", "startTransaction", "stmtId"}
ReadSettings == {"$clusterTime", "$readPreference", "readConcern", "$readConcern"}
NotTheCommand == {"$db"} \cup SessionFields \cup ReadSettings

\* The explain that is sent describes the client's command and nothing else of
\* the client, when no identifier names two document sequences: the same
\* operations, all of a document sequence or no explain at all; no session,
\* transaction or read setting; every other field unchanged and in place
\* (build_explain, should_strip_from_inner, fold_single_op_doc_sequence).
ExplainDescribesRequest ==
  \A c \in Connections : \A p \in prepared[c] : ~IsErr(p.msg) =>
    LET asked == sent[c][Len(sent[c])].sections
        body == Bodies(asked)[1].body
        inner == Sole(Get(p.msg.ok.sections[1].body, "explain")).doc
    IN  /\ Operations(<<[body |-> inner]>>) = Operations(asked)
        /\ \A k \in NotTheCommand : Get(inner, k) = {}
        /\ SelectSeq(inner, LAMBDA f : Contains(body, f))
             = SelectSeq(body, LAMBDA f : f[1] \notin NotTheCommand)

\* The nodes of a reply's plan in preorder, with their depth.
RECURSIVE RawNodes(_, _)
RawNodes(d, depth) ==
  LET single == [i \in 1 .. Cardinality(Present(d, "inputStage")) |-> Sole(Present(d, "inputStage"))]
      list == FlattenSeq([i \in 1 .. Cardinality(Present(d, "inputStages")) |->
                            Sole(Present(d, "inputStages")).arr])
      below == single \o list
  IN  <<[doc |-> d, depth |-> depth]>>
        \o FlattenSeq([i \in DOMAIN below |-> RawNodes(below[i].doc, depth + 1)])
Stats(replies) == Sole(Get(Bodies(replies[1].sections)[1].body, "executionStats")).doc
Plan(replies) == Sole(Get(Stats(replies), "executionStages")).doc
TotalTime(replies) == Sole(Get(Stats(replies), "executionTimeMillis")).int
Slow(n) == \E v \in Present(n.doc, "executionTimeMillisEstimate") : v.int < 0
Ambiguous(n) == Present(n.doc, "inputStage") # {} /\ Present(n.doc, "inputStages") # {}

\* The last explains and what was made of them.
Read == UNION {last[c] : c \in Connections}

\* A reply is understood as a whole or refused for its first fault.  An event
\* comes only of a finite ok other than zero, a total time that is not negative
\* and a plan without a negative time or a node with both kinds of children; an
\* ok of zero is the server's error, never an event or a Deserialise error.  The
\* total time is looked at before the plan, and a fault of the plan that is
\* reported is that of the first faulty node in preorder, at its depth, a negative
\* time before an ambiguous shape (probe_ok, parse_reply_doc, raw_into_event,
\* to_plan_node).
WholeOrFirstFault ==
  \A r \in Read :
    LET ok == Get(Bodies(r.replies[1].sections)[1].body, "ok")
        is(zero) == \E v \in ok : \/ Is(v, "int") /\ (v.int = 0) = zero
                                  \/ Is(v, "f64") /\ (v.f64 = 0) = zero
        nodes == RawNodes(Plan(r.replies), 0)
        first == SelectInSeq(nodes, LAMBDA n : Slow(n) \/ Ambiguous(n))
    IN  IF ~IsErr(r.result) THEN is(FALSE) /\ TotalTime(r.replies) >= 0 /\ first = 0
        ELSE /\ r.result.err \in ExplainError
             /\ r.result.err \in {"Rejected", "MalformedServerError"} => is(TRUE)
             /\ r.result.err = "Deserialise" => is(FALSE)
             /\ r.result.err = "NegativeDuration" =>
                  IF TotalTime(r.replies) < 0 THEN r.result.field = "executionTimeMillis"
                  ELSE /\ r.result.field = "executionTimeMillisEstimate"
                       /\ first # 0 /\ Slow(nodes[first])
             /\ r.result.err = "BothChildrenShapesPresent" =>
                  /\ TotalTime(r.replies) >= 0
                  /\ first # 0 /\ ~Slow(nodes[first]) /\ r.result.depth = nodes[first].depth

\* The stage of a node tells the engine that ran it: a stage is an SBE one
\* exactly if the server wrote an SBE name (Stage::from_wire_str).
EngineKept(node, d) ==
  node.stage[1] \in {SbeStages[n] : n \in DOMAIN SbeStages}
    <=> Sole(Get(d, "stage")).str \in {<<n>> : n \in DOMAIN SbeStages}

\* The ways to read the inside of a range as two bounds.  A string that contains
\* the separator gives the text more than one.
Readings(body) ==
  LET commas == {i \in DOMAIN body : body[i] = ","}
      wide == {i \in commas : i < Len(body) /\ body[i + 1] = " "}
  IN  {<<Trim(SubSeq(body, 1, i - 1)), Trim(SubSeq(body, i + 1, Len(body)))>> :
         i \in IF wide # {} THEN wide ELSE commas}
BoundText(b) == IF Len(b) = 2 THEN b[2] ELSE <<CHOOSE n \in DOMAIN BoundNames : BoundNames[n] = b[1]>>
IsSentinel(text) == \E n \in DOMAIN BoundNames : text = <<n>>
\* A parsed range has the brackets of the server's text and a reading of it for
\* its bounds, with sentinels told from literals (IndexBoundRange::parse).
RangeKept(range, text) ==
  LET bounds == <<BoundText(range.lower), BoundText(range.upper)>>
  IN  /\ bounds \in Readings(SubSeq(text, 2, Len(text) - 1))
      /\ \A b \in {range.lower, range.upper} : IsSentinel(BoundText(b)) <=> Len(b) = 1
      /\ text[1] = IF range.lower_inclusive THEN "[" ELSE "("
      /\ text[Len(text)] = IF range.upper_inclusive THEN "]" ELSE ")"
\* Bounds are there when the server gave some: its text, or for each of its fields
\* every range in turn.
BoundsKept(node, d) ==
  /\ node.index_bounds = {} <=> Present(d, "indexBounds") = {}
  /\ \A b \in node.index_bounds : \A v \in Present(d, "indexBounds") :
       IF Is(v, "str") THEN b = [raw |-> v.str]
       ELSE /\ DOMAIN b.ranges = {v.doc[i][1] : i \in DOMAIN v.doc}
            /\ \A f \in DOMAIN b.ranges : LET written == Sole(Get(v.doc, f)).arr IN
                 /\ Len(b.ranges[f]) = Len(written)
                 /\ \A i \in DOMAIN written : RangeKept(b.ranges[f][i], Trim(written[i].str))

\* A key pattern is there when the server gave one: its express string, or the
\* fields of its document in order, ascending for 1, descending for -1 and
\* otherwise of the kind it names (KeyPattern, IndexFieldKind::from_bson).
KeysKept(node, d) ==
  /\ node.key_pattern = {} <=> Present(d, "keyPattern") = {}
  /\ \A k \in node.key_pattern : \A v \in Present(d, "keyPattern") :
       IF Is(v, "str") THEN k = [express |-> v.str]
       ELSE /\ Len(k.fields) = Len(v.doc)
            /\ \A i \in DOMAIN v.doc :
                 LET kind == k.fields[i].kind
                     value == v.doc[i][2]
                 IN  /\ k.fields[i].field = <<v.doc[i][1]>>
                     /\ kind = <<"Ascending">> <=> value \in {[int |-> 1], [f64 |-> 1]}
                     /\ kind = <<"Descending">> <=> value \in {[int |-> -1], [f64 |-> -1]}
                     /\ \A name \in DOMAIN IndexKinds :
                          kind = <<IndexKinds[name]>> <=> value = [str |-> <<name>>]

Spoken(s) == SelectSeq(s, LAMBDA t : t # " ")
\* The express form of a key pattern, re-parsed by the consumer of the event,
\* gives the fields in the server's order, up to quotes and blanks
\* (KeyPattern::parse_express_string).
ExpressKept(node) ==
  \A k \in node.key_pattern : "express" \in DOMAIN k =>
    \A fields \in ParseExpressString(k.express) :
      LET spoken == SelectSeq(Spoken(k.express), LAMBDA t : t \notin {"'", "QUOTE"})
      IN  /\ Len(spoken) = 4 * Len(fields) + 1
          /\ \A i \in DOMAIN fields :
               /\ fields[i].field = <<spoken[4 * i - 2]>>
               /\ fields[i].kind \in
                    IF spoken[4 * i] \in DOMAIN Numbers THEN Directed(Numbers[spoken[4 * i]])
                    ELSE {FromWireStr(IndexKinds, <<spoken[4 * i]>>)}

\* A direction is there when the server gave one, and is one of the two that have
\* a name just when the server wrote that name (Direction).
DirectionKept(node, d) ==
  /\ node.direction = {} <=> Present(d, "direction") = {}
  /\ \A name \in DOMAIN Directions :
       node.direction = {<<Directions[name]>>} <=> Present(d, "direction") = {[str |-> <<name>>]}

RECURSIVE Mirrors(_, _)
Mirrors(node, d) ==
  LET below == Tail(SelectSeq(RawNodes(d, 0), LAMBDA n : n.depth <= 1))
      ints(k) == {v.int : v \in Present(d, k)}
  IN
  /\ EngineKept(node, d) /\ BoundsKept(node, d) /\ KeysKept(node, d) /\ ExpressKept(node)
  /\ DirectionKept(node, d)
  /\ {node.n_returned} = ints("nReturned")
  /\ node.execution_time = ints("executionTimeMillisEstimate")
  /\ node.docs_examined = ints("docsExamined")
  /\ node.keys_examined = ints("keysExamined")
  /\ node.index_name = {v.str : v \in Present(d, "indexName")}
  /\ node.filter = Present(d, "filter")
  /\ Len(node.children) = Len(below)
  /\ \A i \in DOMAIN below : Mirrors(node.children[i], below[i].doc)

\* Every node of a plan says what the reply's node says: the same children in the
\* same order; counts, times, index name and filter unchanged; the engine, the
\* direction and the key pattern those the server wrote; for every index range a
\* reading of its text, the only one unless a bound contains the separator; and a
\* field that is absent stays absent (to_plan_node, PlanNode, Stage,
\* IndexBoundRange, KeyPattern).
PlanMirrorsReply ==
  \A r \in Read : ~IsErr(r.result) => Mirrors(r.result.ok.plan, Plan(r.replies))
=============================================================================

---------------------------- MODULE ExplainModel ----------------------------
(***************************************************************************)
(* serve/explain: what a request is explained with (classify, build) and   *)
(* what an explain reply is turned into (parse, wire, model).              *)
(*                                                                         *)
(* A BSON value is a record with one field naming its type: int (either    *)
(* width), f64 (finite), nonFinite, str (a sequence of tokens), bool, arr, *)
(* doc, null or tag (any other element type).  A document is a sequence of *)
(* <<key, value>> pairs.  An option is a set of at most one element.       *)
(***************************************************************************)
EXTENDS Text, Results, TLC

Get(d, k) == {d[i][2] : i \in {j \in DOMAIN d : d[j][1] = k}}
Is(v, type) == type \in DOMAIN v

-----------------------------------------------------------------------------
(* Names: open_vocab.rs, stage.rs, newtypes.rs, namespace.rs *)

\* A name of the table's, or Other of the lower-cased string.
FromWireStr(table, s) ==
  IF Len(s) = 1 /\ s[1] \in DOMAIN table THEN <<table[s[1]]>> ELSE <<"Other", Lowered(s)>>

Commands ==
  [find |-> "Find", aggregate |-> "Aggregate", count |-> "Count", distinct |-> "Distinct",
   update |-> "Update", delete |-> "Delete",
   findAndModify |-> "FindAndModify", findandmodify |-> "FindAndModify"]
ErrorLabels ==
  [n \in {"TransientTransactionError", "RetryableWriteError", "NoWritesPerformed",
          "ResumableChangeStreamError", "NetworkError"} |-> n]
Directions == [forward |-> "Forward", backward |-> "Backward"]
ServerErrorCodeNames ==
  [n \in {"NamespaceNotFound", "Unauthorized", "Interrupted", "InterruptedAtShutdown",
          "WriteConflict", "DuplicateKey", "QueryPlanKilled"} |-> n]
    @@ [n \in {"NotMaster", "NotWritablePrimary"} |-> "NotMaster"]

ClassicStages ==
  [COLLSCAN |-> "Collscan", IXSCAN |-> "Ixscan", FETCH |-> "Fetch", SORT |-> "Sort",
   SORT_MERGE |-> "SortMerge", LIMIT |-> "Limit", SKIP |-> "Skip", GROUP |-> "Group",
   PROJECTION_DEFAULT |-> "ProjectDefault", PROJECTION_SIMPLE |-> "ProjectSimple",
   PROJECTION_COVERED |-> "ProjectCovered", OR |-> "Or", AND_SORTED |-> "AndSorted",
   AND_HASH |-> "AndHash", SUBPLAN |-> "Subplan", SHARDING_FILTER |-> "ShardingFilter",
   RETURN_KEY |-> "ReturnKey", COUNT |-> "Count", COUNT_SCAN |-> "CountScan",
   DISTINCT_SCAN |-> "DistinctScan", UPDATE |-> "UpdateStage", DELETE |-> "DeleteStage"]
SbeStages ==
  [scan |-> "SbeScan", ixscan |-> "SbeIxscan", ixseek |-> "SbeIxseek", fetch |-> "SbeFetch",
   filter |-> "SbeFilter", project |-> "SbeProject", group |-> "SbeGroup", sort |-> "SbeSort",
   limit |-> "SbeLimit", skip |-> "SbeSkip", or |-> "SbeOr", unwind |-> "SbeUnwind",
   hash_lookup |-> "SbeHashLookup", merge |-> "SbeMerge"]
ExpressStages ==
  [n \in {"EXPRESS_IXSCAN", "express_ixscan"} |-> "ExpressIxscan"]
    @@ [n \in {"EXPRESS_CLUSTERED_IXSCAN", "express_clustered_ixscan"} |-> "ExpressClusteredIxscan"]
    @@ [n \in {"EXPRESS_UPDATE", "express_update"} |-> "ExpressUpdate"]
    @@ [n \in {"EXPRESS_DELETE", "express_delete"} |-> "ExpressDelete"]
Stages == ClassicStages @@ SbeStages @@ ExpressStages
Stage(s) == FromWireStr(Stages, s)

\* Database::try_new and Collection::try_new: trimmed, not empty.
TryNew(s) == {Trim(s)} \ {<<>>}

NamespaceParseError == {"NoDot", "BadDatabase", "BadCollection"}
\* The first dot separates the database from the collection.
NamespaceParse(raw) ==
  LET cut == SplitOnce(raw, ".")
      bad(e) == [err |-> e, raw |-> raw]
  IN  IF cut = {} THEN bad("NoDot")
      ELSE IF TryNew(Sole(cut)[1]) = {} THEN bad("BadDatabase")
      ELSE IF TryNew(Sole(cut)[2]) = {} THEN bad("BadCollection")
      ELSE Ok([database |-> Trim(Sole(cut)[1]), collection |-> Trim(Sole(cut)[2])])

-----------------------------------------------------------------------------
(* plan_details.rs: key patterns, index bounds, filters *)

IndexKinds == [hashed |-> "Hashed", text |-> "Text"] @@ ("2dsphere" :> "TwoDSphere") @@ ("2d" :> "TwoD")
Directed(n) == IF n = 1 THEN {<<"Ascending">>} ELSE IF n = -1 THEN {<<"Descending">>} ELSE {}
IndexFieldKind(v) ==
  IF Is(v, "int") THEN Directed(v.int)
  ELSE IF Is(v, "f64") THEN Directed(v.f64)
  ELSE IF Is(v, "str") THEN {FromWireStr(IndexKinds, v.str)}
  ELSE {}

IsKeyPattern(v) ==
  \/ Is(v, "str")
  \/ Is(v, "doc") /\ \A i \in DOMAIN v.doc : IndexFieldKind(v.doc[i][2]) # {}
KeyPattern(v) ==
  IF Is(v, "str") THEN [express |-> v.str]
  ELSE [fields |-> [i \in DOMAIN v.doc |->
          [field |-> <<v.doc[i][1]>>, kind |-> Sole(IndexFieldKind(v.doc[i][2]))]]]

\* The values of the tokens that str::parse reads as a number.
Numbers == ("1" :> 1) @@ ("-1" :> -1) @@ ("1.0" :> 1) @@ ("-1.0" :> -1) @@ ("2" :> 2)
Unquoted(s) == TrimMatches(s, {"'", "QUOTE"})
ExpressBody(s) ==
  {Trim(SubSeq(t, 2, Len(t) - 1)) :
     t \in {u \in {Trim(s)} : Len(u) >= 2 /\ u[1] = "{" /\ u[Len(u)] = "}"}}
ExpressField(part) ==
  {[field |-> Unquoted(Trim(cut[1])),
    kinds |-> LET v == Trim(cut[2]) IN
              IF Len(v) = 1 /\ v[1] \in DOMAIN Numbers THEN Directed(Numbers[v[1]])
              ELSE {FromWireStr(IndexKinds, Unquoted(v))}] : cut \in SplitOnce(Trim(part), ":")}
\* None as soon as one part is not `field: kind`.
ParseExpressString(s) ==
  UNION {LET parts == Split(body, ",")
             fields == [i \in DOMAIN parts |-> ExpressField(parts[i])]
         IN  IF \A i \in DOMAIN fields : \E f \in fields[i] : f.kinds # {}
             THEN {[i \in DOMAIN fields |-> [field |-> Sole(fields[i]).field,
                                             kind |-> Sole(Sole(fields[i]).kinds)]]}
             ELSE {} : body \in ExpressBody(s)}

BoundNames == ("inf" :> "Inf") @@ ("-inf" :> "NegInf") @@ [MinKey |-> "MinKey", MaxKey |-> "MaxKey"]
BoundValue(s) ==
  LET t == Trim(s) IN IF Len(t) = 1 /\ t[1] \in DOMAIN BoundNames THEN <<BoundNames[t[1]]>>
                      ELSE <<"Literal", t>>
\* Mutation: the first comma splits the range, with or without a blank after it.
CutBoundsNarrow(body) == SplitOnce(body, ",")
\* split_once(", "), or else split_once(',').
CutBounds(body) ==
  LET wide == {i \in 1 .. Len(body) - 1 : body[i] = "," /\ body[i + 1] = " "}
  IN  IF wide # {} THEN CutAt(body, Min(wide), 2) ELSE SplitOnce(body, ",")
IndexBoundRange(text) ==
  LET s == Trim(text)
      cut == CutBounds(SubSeq(s, 2, Len(s) - 1))
  IN  IF s = <<>> THEN Err("Empty")
      ELSE IF s[1] \notin {"[", "("} THEN Err("BadOpen")
      ELSE IF s[Len(s)] \notin {"]", ")"} THEN Err("BadClose")
      ELSE IF cut = {} THEN Err("NoSeparator")
      ELSE Ok([lower |-> BoundValue(Sole(cut)[1]), lower_inclusive |-> s[1] = "[",
               upper |-> BoundValue(Sole(cut)[2]), upper_inclusive |-> s[Len(s)] = "]"])

IsIndexBounds(v) ==
  \/ Is(v, "str")
  \/ Is(v, "doc") /\ \A i \in DOMAIN v.doc :
       /\ Is(v.doc[i][2], "arr")
       /\ \A r \in ToSet(v.doc[i][2].arr) : Is(r, "str") /\ ~IsErr(IndexBoundRange(r.str))
IndexBounds(v) ==
  IF Is(v, "str") THEN [raw |-> v.str]
  ELSE [ranges |-> [f \in {v.doc[i][1] : i \in DOMAIN v.doc} |->
          LET arr == Sole(Get(v.doc, f)).arr IN [i \in DOMAIN arr |-> IndexBoundRange(arr[i].str).ok]]]

-----------------------------------------------------------------------------
(* wire.rs: the documents serde accepts.  Every refusal is one error.      *)

IsStr(v) == Is(v, "str")
IsInt(v) == Is(v, "int")
IsCount(v) == Is(v, "int") /\ v.int >= 0
IsName(v) == Is(v, "str") /\ v.str # <<>>
IsFilter(v) == Is(v, "doc") \/ Is(v, "str")
IsCode(v) == Is(v, "int") /\ v.int > 0
IsLabels(v) == Is(v, "arr") /\ \A l \in ToSet(v.arr) : Is(l, "str")
Present(d, k) == {v \in Get(d, k) : ~Is(v, "null")}
Required(d, k, P(_)) == \E v \in Get(d, k) : P(v)
Optional(d, k, P(_)) == \A v \in Present(d, k) : P(v)

RECURSIVE IsRawPlanNode(_)
IsRawPlanNode(v) ==
  /\ Is(v, "doc")
  /\ Required(v.doc, "stage", IsStr)
  /\ Required(v.doc, "nReturned", IsCount)
  /\ Optional(v.doc, "executionTimeMillisEstimate", IsInt)
  /\ \A k \in {"docsExamined", "keysExamined"} : Optional(v.doc, k, IsCount)
  /\ Optional(v.doc, "indexName", IsName)
  /\ Optional(v.doc, "keyPattern", IsKeyPattern)
  /\ Optional(v.doc, "indexBounds", IsIndexBounds)
  /\ Optional(v.doc, "direction", IsStr)
  /\ Optional(v.doc, "filter", IsFilter)
  /\ \A n \in Present(v.doc, "inputStage") : IsRawPlanNode(n)
  /\ \A l \in Present(v.doc, "inputStages") : Is(l, "arr") /\ \A n \in ToSet(l.arr) : IsRawPlanNode(n)

IsRawExplainReply(d) ==
  /\ \E q \in Get(d, "queryPlanner") : Is(q, "doc") /\ Required(q.doc, "namespace", IsStr)
  /\ \E s \in Get(d, "executionStats") :
       /\ Is(s, "doc")
       /\ Required(s.doc, "executionTimeMillis", IsInt)
       /\ \A k \in {"nReturned", "totalDocsExamined", "totalKeysExamined"} : Required(s.doc, k, IsCount)
       /\ Required(s.doc, "executionStages", IsRawPlanNode)

IsRawServerError(d) ==
  /\ Required(d, "errmsg", IsStr)
  /\ Optional(d, "code", IsCode)
  /\ Optional(d, "codeName", IsStr)
  /\ \A v \in Get(d, "errorLabels") : IsLabels(v)

-----------------------------------------------------------------------------
(* parse.rs and the conversions of layer.rs *)

ExplainParseError ==
  {"MissingBody", "MalformedOk", "Deserialise", "MalformedServerError",
   "BothChildrenShapesPresent", "NegativeDuration"} \cup NamespaceParseError
ExplainError == {"InnerService", "Rejected", "UnsupportedShape", "RequestIdExhausted"} \cup ExplainParseError

MalformedOkShape(v) ==
  CASE Is(v, "null") -> "Null" [] Is(v, "str") -> "StringValue" [] Is(v, "bool") -> "Bool"
    [] Is(v, "arr") -> "Array" [] Is(v, "doc") -> "Document" [] Is(v, "nonFinite") -> "NonFinite"
    [] OTHER -> "Other"

Successful(n) == n # 0
ProbeOk(d) ==
  LET ok == Get(d, "ok")
      numbers == {v.int : v \in {w \in ok : Is(w, "int")}} \cup {v.f64 : v \in {w \in ok : Is(w, "f64")}}
  IN  IF numbers # {} THEN [outcome |-> IF Successful(Sole(numbers)) THEN "Success" ELSE "Rejected"]
      ELSE [outcome |-> "Malformed", shape |-> IF ok = {} THEN "Missing" ELSE MalformedOkShape(Sole(ok))]

\* A document of a successful reply, the server's rejection, or a parse error.
ParseReplyDoc(d) ==
  LET probed == ProbeOk(d)
      text(k) == {v.str : v \in Present(d, k)}
  IN  CASE probed.outcome = "Malformed" -> [err |-> "MalformedOk", shape |-> probed.shape]
        [] probed.outcome = "Rejected" ->
             IF IsRawServerError(d)
             THEN [err |-> "Rejected", message |-> Sole(text("errmsg")),
                   code |-> {v.int : v \in Present(d, "code")},
                   code_name |-> {FromWireStr(ServerErrorCodeNames, s) : s \in text("codeName")},
                   labels |-> UNION {{FromWireStr(ErrorLabels, l.str) : l \in ToSet(v.arr)} :
                                       v \in Get(d, "errorLabels")}]
             ELSE Err("MalformedServerError")
        [] probed.outcome = "Success" -> IF IsRawExplainReply(d) THEN Ok(d) ELSE Err("Deserialise")

\* i64_ms_to_duration, under an option.
Duration(field, ms) ==
  IF \E n \in ms : n < 0 THEN [err |-> "NegativeDuration", field |-> field] ELSE Ok(ms)

PlanNode(d, time, children) ==
  LET ints(k) == {v.int : v \in Present(d, k)}
  IN  [stage |-> Stage(Sole(Get(d, "stage")).str),
       execution_time |-> time,
       n_returned |-> Sole(ints("nReturned")),
       docs_examined |-> ints("docsExamined"),
       keys_examined |-> ints("keysExamined"),
       index_name |-> {v.str : v \in Present(d, "indexName")},
       key_pattern |-> {KeyPattern(v) : v \in Present(d, "keyPattern")},
       index_bounds |-> {IndexBounds(v) : v \in Present(d, "indexBounds")},
       direction |-> {FromWireStr(Directions, v.str) : v \in Present(d, "direction")},
       filter |-> Present(d, "filter"),
       children |-> children]

\* inputStage gives one child, inputStages the list; not both.
Children(d) ==
  FlattenSeq(SetToSeq({<<n>> : n \in Present(d, "inputStage")}
                        \cup {l.arr : l \in Present(d, "inputStages")}))

\* Mutation: the depth is the root's all the way down.
ChildDepthSame(depth) == depth
ChildDepth(depth) == depth + 1

\* A node's own time is converted before its children are looked at; the
\* first child that fails decides.
RECURSIVE ToPlanNode(_, _)
ToPlanNode(d, depth) ==
  Then(Duration("executionTimeMillisEstimate",
                {v.int : v \in Present(d, "executionTimeMillisEstimate")}),
    LAMBDA time :
      IF Present(d, "inputStage") # {} /\ Present(d, "inputStages") # {}
      THEN [err |-> "BothChildrenShapesPresent", depth |-> depth]
      ELSE LET raw == Children(d)
               children == [i \in DOMAIN raw |-> ToPlanNode(raw[i].doc, ChildDepth(depth))]
               bad == SelectInSeq(children, IsErr)
           IN  IF bad # 0 THEN children[bad]
               ELSE Ok(PlanNode(d, time, [i \in DOMAIN children |-> children[i].ok])))

ExplainTotals(stats, time) ==
  LET int(k) == Sole(Get(stats, k)).int
  IN  [n_returned |-> int("nReturned"), docs_examined |-> int("totalDocsExamined"),
       keys_examined |-> int("totalKeysExamined"), execution_time |-> time]

\* The parts of the event that the reply decides.
RawIntoEvent(d) ==
  LET stats == Sole(Get(d, "executionStats")).doc
      millis == Sole(Get(stats, "executionTimeMillis")).int
  IN  Then(NamespaceParse(Sole(Get(Sole(Get(d, "queryPlanner")).doc, "namespace")).str),
        LAMBDA namespace :
          Then(Duration("executionTimeMillis", {millis}), LAMBDA time :
            Then(ToPlanNode(Sole(Get(stats, "executionStages")).doc, 0), LAMBDA plan :
              Ok([namespace |-> namespace, plan |-> plan, total |-> ExplainTotals(stats, time)]))))

\* The body of the first reply, which must be an OP_MSG.
Bodies(sections) == SelectSeq(sections, LAMBDA s : "body" \in DOMAIN s)
ExtractBody(replies) ==
  IF replies = <<>> \/ ~replies[1].op_msg \/ Bodies(replies[1].sections) = <<>>
  THEN Err("MissingBody")
  ELSE Ok(Bodies(replies[1].sections)[1].body)

\* run_explain, once the replies of the explain are drained.
ReadExplain(replies) ==
  Then(ExtractBody(replies), LAMBDA d : Then(ParseReplyDoc(d), LAMBDA raw : RawIntoEvent(raw)))

-----------------------------------------------------------------------------
(* classify.rs and build.rs *)

\* An explainable request: an OP_MSG that wants a reply, of a known command
\* and with a `$db` that names a database.
Classify(m) ==
  LET bodies == Bodies(m.sections)
      body == bodies[1].body
  IN  IF m.op_msg /\ ~m.more_to_come /\ bodies # <<>> /\ body # <<>>
      THEN {[command |-> Commands[c], database |-> db, body |-> body, doc_sequences |-> m.sections] :
              c \in DOMAIN Commands \cap {body[1][1]},
              db \in UNION {TryNew(v.str) : v \in {w \in Get(body, "$db") : Is(w, "str")}}}
      ELSE {}

Stripped ==
  {"$db", "lsid", "txnNumber", "autocommit", "$clusterTime", "$readPreference",
   "$readConcern", "readConcern", "startTransaction", "stmtId"}
ShouldStripFromInner(key) == key \in Stripped

\* The document sequence that carries the operations of a write batch.
Batches(plan) ==
  LET ident == CASE plan.command = "Update" -> {"updates"} [] plan.command = "Delete" -> {"deletes"}
                 [] OTHER -> {}
  IN  SelectSeq(plan.doc_sequences, LAMBDA s : "identifier" \in DOMAIN s /\ s.identifier \in ident)
\* Mutation: a batch of two passes as a single operation.
IsMultiOpAboveTwo(plan) == Batches(plan) # <<>> /\ Len(Batches(plan)[1].documents) > 2
IsMultiOpWriteBatch(plan) == Batches(plan) # <<>> /\ Len(Batches(plan)[1].documents) > 1

\* Document::insert: the value of a key that is there is replaced.
Insert(d, k, v) ==
  IF Get(d, k) = {} THEN Append(d, <<k, v>>)
  ELSE [i \in DOMAIN d |-> IF d[i][1] = k THEN <<k, v>> ELSE d[i]]
FoldSingleOpDocSequence(plan, inner) ==
  LET single == SelectSeq(Batches(plan), LAMBDA s : Len(s.documents) = 1)
  IN  IF single = <<>> THEN inner
      ELSE Insert(inner, single[1].identifier, [arr |-> <<[doc |-> single[1].documents[1]]>>])

BuildExplain(plan, id) ==
  IF IsMultiOpWriteBatch(plan) THEN Err("UnsupportedShape")
  ELSE Ok([op_msg |-> TRUE, more_to_come |-> FALSE, request_id |-> id, sections |-> <<[body |-> <<
         <<"explain", [doc |-> FoldSingleOpDocSequence(plan,
                         SelectSeq(plan.body, LAMBDA p : ~ShouldStripFromInner(p[1])))]>>,
         <<"verbosity", [str |-> <<"executionStats">>]>>,
         <<"$db", [str |-> plan.database]>>>>]>>])
=============================================================================

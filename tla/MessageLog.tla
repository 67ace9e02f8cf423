----------------------------- MODULE MessageLog -----------------------------
(***************************************************************************)
(* serve/log.rs and redact.rs: the event LogLayer emits for a message, and *)
(* the redacted view of its documents that the event shows.                *)
(***************************************************************************)
EXTENDS Messages

CONSTANT Lower   \* to_ascii_lowercase, where it changes a key

DENYLIST ==
  {"payload", "pwd", "password", "key", "clientproof", "serversignature",
   "speculativeauthenticate", "saslstart", "saslcontinue", "authorization",
   "sessiontoken", "token", "secret"}

\* Mutation: keys are compared as they are written.
IsSensitiveKeyExact(key) == key \in DENYLIST
IsSensitiveKey(key) == (IF key \in DOMAIN Lower THEN Lower[key] ELSE key) \in DENYLIST

REDACTED == [leaf |-> "<redacted>"]

\* RedactedValue and RedactedDoc: documents and arrays are walked, and the
\* value of a sensitive key is replaced whole.
RECURSIVE RedactedValue(_)
RedactedDoc(fields) ==
  [i \in DOMAIN fields |->
     <<fields[i][1], IF IsSensitiveKey(fields[i][1]) THEN REDACTED ELSE RedactedValue(fields[i][2])>>]
RedactedValue(v) ==
  CASE "doc" \in DOMAIN v -> [doc |-> RedactedDoc(v.doc)]
    [] "arr" \in DOMAIN v -> [arr |-> [i \in DOMAIN v.arr |-> RedactedValue(v.arr[i])]]
    [] OTHER -> v

OpKind == [Msg |-> "OP_MSG", Query |-> "OP_QUERY", Reply |-> "OP_REPLY"]

\* The documents of an operation, in the order its Debug shows them.
SectionDocuments(s) == s.documents
QueryDocuments(o) == <<o.query>> \o SetToSeq(o.return_fields_selector)
ReplyDocuments(o) == o.documents
DocumentsOf(o) ==
  CASE o.op = "Msg"   -> FlattenSeq([i \in DOMAIN o.sections |-> SectionDocuments(o.sections[i])])
    [] o.op = "Query" -> QueryDocuments(o)
    [] o.op = "Reply" -> ReplyDocuments(o)

\* What LoggedStream logs of a reply, and LogService of a request.
LogEvent(m) ==
  LET docs == DocumentsOf(m.operation)
  IN  [op |-> OpKind[m.operation.op], command |-> CommandName(m.operation),
       request_id |-> m.request_id, response_to |-> m.response_to,
       body |-> [i \in DOMAIN docs |-> RedactedDoc(docs[i].fields)]]
=============================================================================

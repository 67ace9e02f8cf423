------------------------------ MODULE RelayLog ------------------------------
(***************************************************************************)
(* What the log shows of one direction of a connection: the events of      *)
(* MessageLog for the messages of Framing.                                 *)
(***************************************************************************)
EXTENDS Framing, MessageLog

\* The leaves of a document with the keys above them; "[]" stands for a place in
\* an array.
RECURSIVE LeavesOf(_, _)
LeavesOf(path, v) ==
  CASE "doc" \in DOMAIN v ->
         UNION {LeavesOf(Append(path, f[1]), f[2]) : f \in ToSet(v.doc)}
    [] "arr" \in DOMAIN v -> UNION {LeavesOf(Append(path, "[]"), x) : x \in ToSet(v.arr)}
    [] OTHER -> {<<path, v.leaf>>}

\* The keys that carry credentials in the documents of the run, as drivers and
\* servers spell them, and the length of a path down to its first such key.
Credentials == {"payload", "speculativeAuthenticate", "saslStart"}
Above(path) == {i \in DOMAIN path : path[i] \in Credentials}
Topmost(path) == CHOOSE n \in Above(path) : \A j \in Above(path) : n <= j

\* One event for the request and one for every reply taken off the upstream, in
\* order and under the ids on the wire; it shows no leaf that has a credential
\* key anywhere above it, and every other leaf as the client gets it
\* (LogService, LoggedStream and the redacting Debug of the operations).
LogFaithful ==
  \A i \in DOMAIN logged :
    LET m == IF i = 1 THEN request ELSE Rewritten(delivered[i - 1])
        docs == DocumentsOf(m.operation)
    IN  /\ logged[i].request_id = m.request_id /\ logged[i].response_to = m.response_to
        /\ Len(logged[i].body) = Len(docs)
        /\ \A k \in DOMAIN docs :
             LeavesOf(<<>>, [doc |-> logged[i].body[k]])
               = {IF Above(l[1]) = {} THEN l
                  ELSE <<SubSeq(l[1], 1, Topmost(l[1])), REDACTED.leaf>> :
                    l \in LeavesOf(<<>>, [doc |-> docs[k].fields])}
=============================================================================

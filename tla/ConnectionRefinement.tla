------------------------ MODULE ConnectionRefinement ------------------------
(* A connection of the proxy is a reply channel between its client and the  *)
(* upstream: the explain, its replies and the buffer do not show.           *)
EXTENDS ProxyConnection

Shown(kind, r) ==
  [r EXCEPT !.body = IF RewriteOn /\ kind = "hello" THEN "stripped" ELSE @]

Reply(to, seq, more) == [to |-> to, seq |-> seq, body |-> "full", more |-> more]

Channel == INSTANCE ReplyChannel WITH
  Silent <- {"oneway"},
  sent <- log, taken <- nread, answers <- answered, delivered <- clientIn,
  open <- pc # "closed"

(* Whatever the layers do, the client sees a reply channel: one exchange    *)
(* at a time, every reply of it delivered before the next request is read,  *)
(* nothing delivered twice, out of turn or after the connection is closed   *)
(* (accept_client_inner over handle_request and ProxyResponseStream).       *)
ImplementsChannel == Channel!Spec
=============================================================================

--------------------------- MODULE ProxyConnection ---------------------------
(***************************************************************************)
(* One client connection of the proxy: the task running                    *)
(* accept_client_inner, the service stack it calls (ExplainService over    *)
(* RewriteHelloService over ProxyClient), the client and the upstream      *)
(* mongod at the two ends of it.                                           *)
(*                                                                         *)
(* A step of the task is the code between two awaits.  The client and the  *)
(* upstream act between any two steps of the task; each may go away at any *)
(* moment.  ExplainOn says whether an ExplainLayer is stacked: without it  *)
(* the reply stream of ProxyClient is relayed frame by frame, with it the  *)
(* replies are buffered, a sideband explain may run on the same upstream   *)
(* socket, and the buffer is replayed.                                     *)
(***************************************************************************)
EXTENDS Integers, Sequences

CONSTANTS
  ExplainOn,     \* an ExplainLayer is stacked on the Proxy
  RewriteOn,     \* Proxy.rewrite_hello
  MaxRequests,   \* bound: frames the client sends
  MaxReplies,    \* bound: replies of one exhaust exchange
  MinId          \* i32::MIN

ASSUME ConnectionAssumption ==
  /\ ExplainOn \in BOOLEAN
  /\ RewriteOn \in BOOLEAN
  /\ MaxRequests \in Nat
  /\ MaxReplies \in Nat \ {0}
  /\ MinId \in Int /\ MinId <= -1

(***************************************************************************)
(* What the code tells apart in a client frame: a hello, a command that    *)
(* classify accepts ("query": build_explain wraps it; "batch": it is a     *)
(* multi-op write batch), a request flagged moreToCome ("oneway"), any     *)
(* other request, and a frame WireDecoder rejects.                         *)
(***************************************************************************)
Kinds == {"plain", "hello", "query", "batch", "oneway", "malformed"}
Explainable == {"query", "batch"}

VARIABLES
  log,        \* every frame the client has sent; a request's id is its index
  clientUp,   \* the client has not closed its socket
  clientIn,   \* every reply written to the client
  serverUp,   \* the upstream has not closed its socket
  toServer,   \* proxy -> upstream, not yet handled by the upstream
  fromServer, \* upstream -> proxy, not yet decoded
  streamed,   \* moreToCome replies already sent to Head(toServer)
  answered,   \* history: every reply sent to a request of the client
  pc,         \* where the connection task is
  nread,      \* frames of log read so far; the current request's id
  guard,      \* holder of the upstream mutex guard
  reader,     \* FramedRead of the upstream socket: "errored" after an Err
  plan,       \* handle_request's `prepared`
  counter,    \* ExplainService.next_request_id
  buffer,     \* Replies drained from the original exchange
  explainReplies, \* Replies drained from the explain exchange
  sink        \* history: every record and record_error of the sink

clientVars == <<log, clientUp>>
serverVars == <<serverUp, streamed, answered>>
explainVars == <<plan, counter, buffer, explainReplies, sink>>
vars == <<log, clientUp, clientIn, serverUp, toServer, fromServer, streamed,
          answered, pc, nread, guard, reader, plan, counter, buffer,
          explainReplies, sink>>

NoId == 0        \* Option<ExplainRequestId>::None
NoPlan == [outcome |-> "none", id |-> NoId]
Outcomes == {"none", "exhausted", "unsupported", "built"}
Locations == {"read", "call", "stream", "explainCall", "explainStream",
              "replay", "closed"}

Requests == [id : Int, kind : Kinds \cup {"explain"}]
Bodies == {"full", "stripped", "rejected", "garbled"}
Replies == [to : Int, seq : Nat, body : Bodies, more : BOOLEAN]
Records == [client : Nat, explain : Int, result : {"event", "error"}]

Init ==
  /\ log = <<>> /\ clientUp = TRUE /\ clientIn = <<>>
  /\ serverUp = TRUE /\ toServer = <<>> /\ fromServer = <<>>
  /\ streamed = 0 /\ answered = <<>>
  /\ pc = "read" /\ nread = 0 /\ guard = "free" /\ reader = "ok"
  /\ plan = NoPlan /\ counter = -1
  /\ buffer = <<>> /\ explainReplies = <<>> /\ sink = <<>>

-----------------------------------------------------------------------------
(* The client: sends frames, at any time, until it closes its socket.      *)

ClientSend(k) ==
  /\ clientUp /\ Len(log) < MaxRequests
  /\ log' = Append(log, k)
  /\ UNCHANGED <<clientUp, clientIn, serverVars, toServer, fromServer, pc,
                 nread, guard, reader, explainVars>>

ClientClose ==
  /\ clientUp
  /\ clientUp' = FALSE
  /\ UNCHANGED <<log, clientIn, serverVars, toServer, fromServer, pc, nread,
                 guard, reader, explainVars>>

Client == ClientClose \/ \E k \in Kinds : ClientSend(k)

-----------------------------------------------------------------------------
(* The upstream: handles the frames it receives in order.                  *)

ServerWorks == serverUp /\ pc # "closed" /\ toServer # <<>>

(* One reply to a request of the client; `more` is its moreToCome flag.    *)
(* Every body carries fields named like the topology-discovery fields.     *)
ServerAnswer(more) ==
  /\ ServerWorks
  /\ Head(toServer).kind \notin {"oneway", "explain"}
  /\ more => streamed + 1 < MaxReplies
  /\ LET r == [to |-> Head(toServer).id, seq |-> Len(answered) + 1,
               body |-> "full", more |-> more]
     IN  /\ fromServer' = Append(fromServer, r)
         /\ answered' = Append(answered, r)
  /\ toServer' = IF more THEN toServer ELSE Tail(toServer)
  /\ streamed' = IF more THEN streamed + 1 ELSE 0
  /\ UNCHANGED <<clientVars, clientIn, serverUp, pc, nread, guard, reader,
                 explainVars>>

(* The reply to an explain: a plan, or a server error / unusable document. *)
ServerExplain(body) ==
  /\ ServerWorks
  /\ Head(toServer).kind = "explain"
  /\ fromServer' = Append(fromServer, [to |-> Head(toServer).id, seq |-> 0,
                                       body |-> body, more |-> FALSE])
  /\ toServer' = Tail(toServer)
  /\ UNCHANGED <<clientVars, clientIn, serverVars, pc, nread, guard, reader,
                 explainVars>>

(* A frame WireDecoder rejects in place of the reply. *)
ServerGarbles ==
  /\ ServerWorks
  /\ Head(toServer).kind # "oneway"
  /\ fromServer' = Append(fromServer, [to |-> Head(toServer).id, seq |-> 0,
                                       body |-> "garbled", more |-> FALSE])
  /\ toServer' = Tail(toServer)
  /\ streamed' = 0
  /\ UNCHANGED <<clientVars, clientIn, serverUp, answered, pc, nread, guard,
                 reader, explainVars>>

(* A fire-and-forget request is executed and not answered. *)
ServerAbsorbs ==
  /\ ServerWorks
  /\ Head(toServer).kind = "oneway"
  /\ toServer' = Tail(toServer)
  /\ UNCHANGED <<clientVars, clientIn, serverVars, fromServer, pc, nread,
                 guard, reader, explainVars>>

(* The upstream closes: what it had not handled is lost, the replies in    *)
(* flight arrive or are lost too.                                          *)
ServerClose ==
  /\ serverUp /\ pc # "closed"
  /\ serverUp' = FALSE
  /\ toServer' = <<>>
  /\ fromServer' \in {fromServer, <<>>}
  /\ UNCHANGED <<clientVars, clientIn, streamed, answered, pc, nread, guard,
                 reader, explainVars>>

ServerResponds ==
  \/ \E more \in BOOLEAN : ServerAnswer(more)
  \/ \E body \in {"full", "rejected"} : ServerExplain(body)
  \/ ServerAbsorbs

Server == ServerResponds \/ ServerGarbles \/ ServerClose

-----------------------------------------------------------------------------
(* The framed upstream socket and ProxyResponseStream.                     *)

(* FramedRead yields None at end of file, and once after every Err. *)
ReaderEnded == reader = "errored" \/ (~serverUp /\ fromServer = <<>>)
ReaderReady == reader = "ok" /\ fromServer # <<>>
Garbled == Head(fromServer).body = "garbled"

(* RewriteHelloService: the replies read for request n are rewritten when  *)
(* that request was a hello.                                               *)
Rewrite(n, r) ==
  [r EXCEPT !.body = IF RewriteOn /\ log[n] = "hello" THEN "stripped" ELSE @]

(* Mutation: every exchange ends at its first reply. *)
PollNextIgnoringMore(holder) ==
  /\ guard = holder /\ ReaderReady /\ ~Garbled
  /\ fromServer' = Tail(fromServer)
  /\ guard' = "free"
  /\ UNCHANGED reader

(* poll_next, Ready(Some(Ok(msg))): Done, the guard dropped, at a terminal *)
(* reply.                                                                  *)
PollNext(holder) ==
  /\ guard = holder /\ ReaderReady /\ ~Garbled
  /\ fromServer' = Tail(fromServer)
  /\ guard' = IF Head(fromServer).more THEN holder ELSE "free"
  /\ UNCHANGED reader

(* poll_next, the two error arms: Done.  A frame rejected for its header   *)
(* stays in the decoder's buffer, one rejected for its body is consumed.   *)
PollError(holder) ==
  /\ guard = holder
  /\ \/ /\ ReaderEnded
        /\ reader' = "ok"
        /\ UNCHANGED fromServer
     \/ /\ ReaderReady /\ Garbled
        /\ reader' = "errored"
        /\ fromServer' \in {fromServer, Tail(fromServer)}
  /\ guard' = "free"

(* server_writer.send: what is written after the upstream closed is lost. *)
Write(m) == toServer' = IF serverUp THEN Append(toServer, m) ELSE toServer

-----------------------------------------------------------------------------
(* accept_client_inner returns: both sockets and all buffers are dropped.  *)

Close ==
  /\ pc' = "closed" /\ guard' = "free"
  /\ buffer' = <<>> /\ explainReplies' = <<>>
  /\ UNCHANGED <<clientVars, clientIn, serverVars, plan, counter, sink>>

(* alloc_request_id's guard. *)
CanAlloc == counter < 0 /\ counter # MinId

(* Mutation: classify accepts a fire-and-forget request. *)
PrepareOneway(k) ==
  IF ~ExplainOn \/ k \notin Explainable \cup {"oneway"} THEN NoPlan
  ELSE IF ~CanAlloc THEN [outcome |-> "exhausted", id |-> NoId]
  ELSE [outcome |-> IF k = "batch" THEN "unsupported" ELSE "built",
        id |-> counter - 1]

(* Phase 1 of handle_request for a request of kind k. *)
Prepare(k) ==
  IF ~ExplainOn \/ k \notin Explainable THEN NoPlan
  ELSE IF ~CanAlloc THEN [outcome |-> "exhausted", id |-> NoId]
  ELSE [outcome |-> IF k = "batch" THEN "unsupported" ELSE "built",
        id |-> counter - 1]

(* Mutation: the decremented id is not stored back. *)
ReadRequestSameId ==
  /\ pc = "read" /\ nread < Len(log)
  /\ log[nread + 1] # "malformed"
  /\ nread' = nread + 1
  /\ plan' = Prepare(log[nread + 1])
  /\ pc' = "call"
  /\ UNCHANGED <<clientVars, clientIn, serverVars, toServer, fromServer, guard,
                 reader, counter, buffer, explainReplies, sink>>

(* The next frame of the client; Phase 1 runs before the first await. *)
ReadRequest ==
  /\ pc = "read" /\ nread < Len(log)
  /\ log[nread + 1] # "malformed"
  /\ nread' = nread + 1
  /\ plan' = Prepare(log[nread + 1])
  /\ counter' = IF plan'.id = NoId THEN counter ELSE plan'.id
  /\ pc' = "call"
  /\ UNCHANGED <<clientVars, clientIn, serverVars, toServer, fromServer, guard,
                 reader, buffer, explainReplies, sink>>

(* DecodeFromClient, or the client's end of file. *)
ReadEnds ==
  /\ pc = "read"
  /\ \/ nread < Len(log) /\ log[nread + 1] = "malformed" /\ nread' = nread + 1
     \/ nread = Len(log) /\ ~clientUp /\ UNCHANGED nread
  /\ Close
  /\ UNCHANGED <<toServer, fromServer, reader>>

(* Mutation: the guard is dropped for every request. *)
CallDroppingGuard ==
  /\ pc = "call" /\ guard = "free"
  /\ Write([id |-> nread, kind |-> log[nread]])
  /\ pc' = "stream"
  /\ UNCHANGED <<clientVars, clientIn, serverVars, fromServer, nread, guard,
                 reader, explainVars>>

(* ProxyClient::call with the client's request. *)
Call ==
  /\ pc = "call" /\ guard = "free"
  /\ Write([id |-> nread, kind |-> log[nread]])
  /\ guard' = IF log[nread] = "oneway" THEN "free" ELSE "original"
  /\ pc' = "stream"
  /\ UNCHANGED <<clientVars, clientIn, serverVars, fromServer, nread, reader,
                 explainVars>>

(* UpstreamRequest: the request could not be written. *)
CallFails ==
  /\ pc = "call" /\ guard = "free" /\ ~serverUp
  /\ Close
  /\ UNCHANGED <<toServer, fromServer, nread, reader>>

(* Mutation: a reply flagged moreToCome is swallowed. *)
RelayTerminalOnly ==
  /\ pc = "stream" /\ ~ExplainOn
  /\ PollNext("original")
  /\ clientIn' = IF Head(fromServer).more THEN clientIn
                 ELSE Append(clientIn, Rewrite(nread, Head(fromServer)))
  /\ UNCHANGED <<clientVars, serverVars, toServer, pc, nread, explainVars>>

(* Without an ExplainLayer every reply is relayed as it arrives. *)
Relay ==
  /\ pc = "stream" /\ ~ExplainOn
  /\ PollNext("original")
  /\ clientIn' = Append(clientIn, Rewrite(nread, Head(fromServer)))
  /\ UNCHANGED <<clientVars, serverVars, toServer, pc, nread, explainVars>>

(* EncodeToClient: the reply at hand could not be written to the client. *)
RelayFails ==
  /\ pc = "stream" /\ ~ExplainOn /\ ~clientUp
  /\ guard = "original" /\ ReaderReady /\ ~Garbled
  /\ fromServer' = Tail(fromServer)
  /\ Close
  /\ UNCHANGED <<toServer, nread, reader>>

(* drain_stream: with an ExplainLayer the replies are buffered. *)
Drain ==
  /\ pc = "stream" /\ ExplainOn
  /\ PollNext("original")
  /\ buffer' = Append(buffer, Rewrite(nread, Head(fromServer)))
  /\ UNCHANGED <<clientVars, clientIn, serverVars, toServer, pc, nread, plan,
                 counter, explainReplies, sink>>

(* Mutation: the request is retried on the same socket. *)
StreamFailsRetrying ==
  /\ pc = "stream"
  /\ PollError("original")
  /\ pc' = "call"
  /\ buffer' = <<>>
  /\ UNCHANGED <<clientVars, clientIn, serverVars, toServer, nread, plan,
                 counter, explainReplies, sink>>

(* UpstreamResponse, or drain_stream's error: the exchange is abandoned. *)
StreamFails ==
  /\ pc = "stream"
  /\ PollError("original")
  /\ Close
  /\ UNCHANGED <<toServer, nread>>

(* emit_or_log: one record or record_error for the current request. *)
Emit(result) ==
  sink' = Append(sink, [client |-> nread, explain |-> plan.id,
                        result |-> result])

(* The reply stream is done: on to the next request, to the explain, or to *)
(* the replay.                                                             *)
StreamEnds ==
  /\ pc = "stream" /\ guard = "free"
  /\ \/ ~ExplainOn /\ pc' = "read" /\ UNCHANGED sink
     \/ ExplainOn /\ plan.outcome = "none" /\ pc' = "replay" /\ UNCHANGED sink
     \/ ExplainOn /\ plan.outcome = "built" /\ pc' = "explainCall"
          /\ UNCHANGED sink
     \/ ExplainOn /\ plan.outcome \in {"exhausted", "unsupported"}
          /\ pc' = "replay" /\ Emit("error")
  /\ UNCHANGED <<clientVars, clientIn, serverVars, toServer, fromServer, nread,
                 guard, reader, plan, counter, buffer, explainReplies>>

(* run_explain: the sideband request, on the same upstream socket. *)
ExplainCall ==
  /\ pc = "explainCall" /\ guard = "free"
  /\ Write([id |-> plan.id, kind |-> "explain"])
  /\ guard' = "explain"
  /\ pc' = "explainStream"
  /\ UNCHANGED <<clientVars, clientIn, serverVars, fromServer, nread, reader,
                 explainVars>>

(* Mutation: a failed explain call is not reported. *)
ExplainCallFailsSilently ==
  /\ pc = "explainCall" /\ guard = "free"
  /\ pc' = "replay"
  /\ UNCHANGED <<clientVars, clientIn, serverVars, toServer, fromServer, nread,
                 guard, reader, explainVars>>

(* The write fails, or the wrapped command exceeds the message envelope,   *)
(* which WireEncoder refuses before it writes a byte.                      *)
ExplainCallFails ==
  /\ pc = "explainCall" /\ guard = "free"
  /\ Emit("error")
  /\ pc' = "replay"
  /\ UNCHANGED <<clientVars, clientIn, serverVars, toServer, fromServer, nread,
                 guard, reader, plan, counter, buffer, explainReplies>>

(* Mutation: both exchanges drain into the client's buffer. *)
ExplainDrainShared ==
  /\ pc = "explainStream"
  /\ PollNext("explain")
  /\ explainReplies' = Append(explainReplies, Head(fromServer))
  /\ buffer' = Append(buffer, Head(fromServer))
  /\ UNCHANGED <<clientVars, clientIn, serverVars, toServer, pc, nread, plan,
                 counter, sink>>

(* drain_stream on the explain's reply stream. *)
ExplainDrain ==
  /\ pc = "explainStream"
  /\ PollNext("explain")
  /\ explainReplies' = Append(explainReplies, Head(fromServer))
  /\ UNCHANGED <<clientVars, clientIn, serverVars, toServer, pc, nread, plan,
                 counter, buffer, sink>>

(* Mutation: the explain's failure is propagated to the connection. *)
ExplainStreamFailsHard ==
  /\ pc = "explainStream"
  /\ PollError("explain")
  /\ Close
  /\ UNCHANGED <<toServer, nread>>

(* ExplainError::InnerService while the explain's reply is read. *)
ExplainStreamFails ==
  /\ pc = "explainStream"
  /\ PollError("explain")
  /\ Emit("error")
  /\ explainReplies' = <<>>
  /\ pc' = "replay"
  /\ UNCHANGED <<clientVars, clientIn, serverVars, toServer, nread, plan,
                 counter, buffer>>

(* extract_body, parse_reply_doc and raw_into_event on the first reply. *)
ExplainEnds ==
  /\ pc = "explainStream" /\ guard = "free"
  /\ Emit(IF Head(explainReplies).body = "full" THEN "event" ELSE "error")
  /\ explainReplies' = <<>>
  /\ pc' = "replay"
  /\ UNCHANGED <<clientVars, clientIn, serverVars, toServer, fromServer, nread,
                 guard, reader, plan, counter, buffer>>

(* ReplayStream: the buffered replies, first in first out. *)
Replay ==
  /\ pc = "replay"
  /\ \/ /\ buffer # <<>>
        /\ clientIn' = Append(clientIn, Head(buffer))
        /\ buffer' = Tail(buffer)
        /\ UNCHANGED pc
     \/ /\ buffer = <<>>
        /\ pc' = "read"
        /\ UNCHANGED <<clientIn, buffer>>
  /\ UNCHANGED <<clientVars, serverVars, toServer, fromServer, nread, guard,
                 reader, plan, counter, explainReplies, sink>>

ReplayFails ==
  /\ pc = "replay" /\ buffer # <<>> /\ ~clientUp
  /\ Close
  /\ UNCHANGED <<toServer, fromServer, nread, reader>>

Task ==
  \/ ReadRequest \/ ReadEnds
  \/ Call \/ CallFails
  \/ Relay \/ RelayFails \/ Drain \/ StreamFails \/ StreamEnds
  \/ ExplainCall \/ ExplainCallFails
  \/ ExplainDrain \/ ExplainStreamFails \/ ExplainEnds
  \/ Replay \/ ReplayFails

(* A closed connection stays closed. *)
Terminated == pc = "closed" /\ UNCHANGED vars

Next == Client \/ Server \/ Task \/ Terminated

Spec == Init /\ [][Next]_vars

(***************************************************************************)
(* Fairness.  The runtime polls a woken task, so the task takes a step     *)
(* when one is possible.  FairExplain adds that an explain is answered     *)
(* while an exhaust stream may stay idle (an awaitable hello, a tailable   *)
(* cursor).  FairUpstream adds instead that an upstream that is up handles *)
(* all it receives and ends every stream.  Neither the client nor a        *)
(* failure is ever obliged to happen.                                      *)
(***************************************************************************)
FairTask == Spec /\ WF_vars(Task)
FairExplain ==
  FairTask /\ WF_vars(\E body \in {"full", "rejected"} : ServerExplain(body))
FairUpstream == FairTask /\ WF_vars(ServerResponds)

-----------------------------------------------------------------------------
(* Type invariant of the connection's state. *)
TypeOK ==
  /\ log \in Seq(Kinds) /\ clientUp \in BOOLEAN
  /\ clientIn \in Seq(Replies)
  /\ serverUp \in BOOLEAN
  /\ toServer \in Seq(Requests) /\ fromServer \in Seq(Replies)
  /\ streamed \in Nat /\ answered \in Seq(Replies)
  /\ pc \in Locations
  /\ nread \in 0 .. Len(log)
  /\ guard \in {"free", "original", "explain"}
  /\ reader \in {"ok", "errored"}
  /\ plan \in [outcome : Outcomes, id : Int]
  /\ counter \in MinId .. -1
  /\ buffer \in Seq(Replies) /\ explainReplies \in Seq(Replies)
  /\ sink \in Seq(Records)

(* The client receives the upstream's replies to its own requests, in the  *)
(* order the upstream sent them, none missing, repeated or out of place,   *)
(* none of the sideband explain's, and changed only in the topology fields *)
(* of a hello reply.  The proxy never looks at response_to: this rests on  *)
(* the guard and on what drain_stream leaves on the socket.                *)
ReplyCorrelation ==
  /\ Len(clientIn) <= Len(answered)
  /\ \A i \in 1 .. Len(clientIn) :
       clientIn[i] = Rewrite(answered[i].to, answered[i])

(* Whenever no reply stream holds the upstream guard, the upstream socket  *)
(* is quiet: no request that expects a reply is in it and no reply is left *)
(* unread, so the next request's first frame is its own reply.             *)
QuietWhenFree ==
  (pc # "closed" /\ guard = "free" /\ reader = "ok") =>
    /\ fromServer = <<>>
    /\ \A i \in 1 .. Len(toServer) : toServer[i].kind = "oneway"

(* An explain travels alone: while it is in the socket no request of the   *)
(* client is, ahead of it or behind it.                                    *)
ExplainTravelsAlone ==
  (\E i \in 1 .. Len(toServer) : toServer[i].kind = "explain") =>
    Len(toServer) = 1

(* Explain request ids are strictly negative and never reused on the       *)
(* connection, down to i32::MIN, where allocation stops instead of         *)
(* wrapping: alloc_request_id.                                             *)
ExplainIdsFresh ==
  /\ \A i, j \in 1 .. Len(sink) :
       (i < j /\ sink[j].explain # NoId) =>
          sink[i].explain = NoId \/ sink[j].explain < sink[i].explain
  /\ \A i \in 1 .. Len(toServer) : toServer[i].kind = "explain" =>
       /\ toServer[i].id \in MinId .. -2
       /\ \A j \in 1 .. Len(sink) : sink[j].explain # toServer[i].id

(* The sink hears of every explainable request exactly once, in request    *)
(* order, and of nothing else, whatever became of the explain.             *)
OneRecordPerExplainable ==
  /\ \A i, j \in 1 .. Len(sink) : i < j => sink[i].client < sink[j].client
  /\ ExplainOn => \A n \in 1 .. nread :
       (n < nread \/ pc \in {"replay", "read"}) =>
         ((\E i \in 1 .. Len(sink) : sink[i].client = n)
            <=> log[n] \in Explainable)

(* Every request is eventually done with: its replies are delivered or the *)
(* connection is closed.  A second inner call made while the first         *)
(* stream still held the guard would wait for itself forever.              *)
RequestSettles == (pc = "call") ~> (pc \in {"read", "closed"})

(* Once the client's own exchange has completed, what becomes of the       *)
(* explain (refused, failed, upstream gone) does not take the answer away: *)
(* the client receives all of it unless it has itself gone.                *)
AnswerSurvivesExplain ==
  (pc = "explainCall") ~>
    ((pc = "read" /\ Len(clientIn) = Len(answered)) \/ ~clientUp)

(* Every reply of the upstream reaches the client without waiting for a    *)
(* further frame from the upstream (or the connection closes).             *)
StreamedReplyForwarded ==
  \A n \in 1 .. MaxRequests * MaxReplies :
    (Len(answered) >= n) ~> (Len(clientIn) >= n \/ pc = "closed")
=============================================================================

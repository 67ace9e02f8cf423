-------------------------- MODULE ConnectionProofs --------------------------
(***************************************************************************)
(* On top of ProxyConnectionProofs' invariant, for any number of requests  *)
(* and replies, with or without an ExplainLayer and hello rewriting, and   *)
(* any width of the id counter: the sideband explain travels alone, its    *)
(* ids are never reused and the sink hears of every explainable request    *)
(* exactly once (part 1); and every step of the connection is a step of    *)
(* ReplyChannel or does not show (part 2).                                 *)
(***************************************************************************)
EXTENDS ConnectionRefinement, ProxyConnectionProofs

-----------------------------------------------------------------------------
(* Part 1: the sideband explain *)

(* Once a reply that ends the exchange is on its way, the upstream has     *)
(* handled everything it was sent, the fire-and-forget requests ahead of   *)
(* the current one included; so nothing is in the socket when the explain  *)
(* is written.                                                             *)
Emptied ==
  /\ pc = "closed" => \A i \in 1 .. Len(toServer) : toServer[i].kind # "explain"
  /\ guard = "explain" => Len(toServer) <= 1
  /\ (/\ pc # "closed" /\ reader = "ok" /\ guard # "free"
      /\ \E i \in 1 .. Len(fromServer) : ~fromServer[i].more) => toServer = <<>>
  /\ (pc = "stream" /\ guard = "free" /\ plan.outcome = "built") => toServer = <<>>
  /\ pc = "explainCall" => toServer = <<>>

(* The request is being served and its explain has not been reported. *)
Unreported == pc \in {"call", "stream", "explainCall", "explainStream"}

(* The counter is at or below every id ever reported, and below all of     *)
(* them while the id it stands at belongs to the request being served.     *)
IdsDescend ==
  /\ \A j \in 1 .. Len(sink) : sink[j].explain = NoId \/ sink[j].explain >= counter
  /\ \A i, j \in 1 .. Len(sink) :
       (i < j /\ sink[j].explain # NoId) =>
          sink[i].explain = NoId \/ sink[j].explain < sink[i].explain
  /\ (Unreported /\ plan.id # NoId) =>
       /\ plan.id = counter /\ counter \in MinId .. -2
       /\ \A j \in 1 .. Len(sink) : sink[j].explain = NoId \/ sink[j].explain > counter
  /\ plan.outcome = "built" => plan.id # NoId
  /\ pc \in {"explainCall", "explainStream"} => plan.outcome = "built"
  /\ \A i \in 1 .. Len(toServer) : (pc # "closed" /\ toServer[i].kind = "explain") =>
       pc = "explainStream" /\ toServer[i].id = plan.id

(* The sink holds the explainable requests served so far, in order; the    *)
(* plan says whether the one being served will be reported.                *)
Heard(n) == \E i \in 1 .. Len(sink) : sink[i].client = n
SinkComplete ==
  /\ \A i, j \in 1 .. Len(sink) : i < j => sink[i].client < sink[j].client
  /\ \A i \in 1 .. Len(sink) :
       sink[i].client <= nread /\ (Unreported => sink[i].client < nread)
  /\ Unreported => nread >= 1
  /\ (ExplainOn /\ Unreported) => (plan.outcome # "none" <=> log[nread] \in Explainable)
  /\ ExplainOn => \A n \in 1 .. nread :
       (n < nread \/ pc \in {"replay", "read"}) => (Heard(n) <=> log[n] \in Explainable)

(* The inductive invariant. *)
ExplainInv == IInv /\ Emptied /\ IdsDescend /\ SinkComplete

-----------------------------------------------------------------------------
(* Outside the explain's own exchange no explain is in the socket. *)
LEMMA NoExplain ==
  ASSUME TypeOK, Outgoing, pc # "closed", guard # "explain"
  PROVE  \A i \in 1 .. Len(toServer) : toServer[i].kind # "explain"
<1>1. guard \in {"free", "original"}
  BY DEF TypeOK
<1>2. QED
  BY <1>1 DEF Outgoing

(* Closing the connection, which no explain survives. *)
LEMMA CloseEmptied ==
  ASSUME IInv, Emptied, pc # "closed", guard # "explain",
         pc' = "closed", guard' = "free", UNCHANGED toServer
  PROVE  Emptied'
BY NoExplain DEF IInv, Emptied

(* Taking a reply from the socket. *)
LEMMA PollEmptied ==
  ASSUME IInv, Emptied, pc # "closed", NEW holder \in {"original", "explain"},
         PollNext(holder), UNCHANGED <<pc, toServer, plan>>
  PROVE  Emptied'
<1>1. /\ fromServer \in Seq(Replies) /\ fromServer # <<>> /\ reader = "ok"
      /\ guard = holder /\ fromServer' = Tail(fromServer) /\ reader' = "ok"
  BY DEF IInv, TypeOK, PollNext, ReaderReady
<1>2. /\ Len(fromServer) \in Nat \ {0} /\ Len(fromServer') = Len(fromServer) - 1
      /\ Head(fromServer) = fromServer[1]
      /\ \A i \in 1 .. Len(fromServer') : fromServer'[i] = fromServer[i + 1]
  BY <1>1, TailFacts
<1>3. CASE Head(fromServer).more
  <2>1. guard' = guard
    BY <1>1, <1>3 DEF PollNext
  <2>2. ASSUME NEW i \in 1 .. Len(fromServer'), ~fromServer'[i].more
        PROVE  toServer = <<>>
    <3>1. i + 1 \in 1 .. Len(fromServer) /\ ~fromServer[i + 1].more
      BY <1>2, <2>2
    <3>2. QED
      BY <1>1, <3>1 DEF Emptied
  <2>3. QED
    BY <1>1, <2>1, <2>2 DEF Emptied
<1>4. CASE ~Head(fromServer).more
  <2>1. guard' = "free"
    BY <1>4 DEF PollNext
  <2>2. 1 \in 1 .. Len(fromServer)
    BY <1>2
  <2>3. toServer = <<>>
    BY <1>1, <1>2, <1>4, <2>2 DEF Emptied
  <2>4. QED
    BY <2>1, <2>3 DEF Emptied
<1>5. QED
  BY <1>3, <1>4

(* The upstream's answer to the current request empties the socket. *)
LEMMA AnswerEmptied ==
  ASSUME IInv, Emptied, ServerWorks, Head(toServer).kind # "oneway",
         toServer' = Tail(toServer), UNCHANGED <<pc, guard, reader, plan>>
  PROVE  Emptied'
<1>1. Len(toServer) = 1 /\ Len(Tail(toServer)) = 0 /\ pc # "closed"
  BY Owes DEF IInv, ServerWorks
<1>2. Tail(toServer) \in Seq(Requests)
  BY TakeRequest DEF IInv, ServerWorks
<1>3. toServer' = <<>>
  BY <1>1, <1>2
<1>4. QED
  BY <1>1, <1>3 DEF Emptied

(* Every step keeps the socket empty where the explain will need it. *)
LEMMA EmptiedNext == IInv /\ Emptied /\ [Next]_vars => Emptied'
<1> SUFFICES ASSUME IInv, Emptied, [Next]_vars PROVE Emptied'
  OBVIOUS
<1> USE DEF clientVars, serverVars, explainVars
<1>0. /\ guard \in {"free", "original", "explain"} /\ reader \in {"ok", "errored"}
      /\ toServer \in Seq(Requests) /\ fromServer \in Seq(Replies)
  BY DEF IInv, TypeOK
<1>1. CASE Client
  BY <1>1 DEF Client, ClientSend, ClientClose, Emptied
<1>2. ASSUME NEW more \in BOOLEAN, ServerAnswer(more) PROVE Emptied'
  <2>1. CASE more
    <3> DEFINE r == [to |-> Head(toServer).id, seq |-> Len(answered) + 1,
                     body |-> "full", more |-> TRUE]
    <3>1. fromServer' = Append(fromServer, r) /\ UNCHANGED <<toServer, pc, guard, reader, plan>>
      BY <1>2, <2>1 DEF ServerAnswer
    <3>2. reader = "ok" => \A i \in 1 .. Len(fromServer) : fromServer[i].more
      BY <1>2, Owes DEF IInv, ServerAnswer
    <3>3. r \in Replies
      BY <1>2, TakeRequest DEF IInv, TypeOK, ServerAnswer, ServerWorks, Replies, Bodies
    <3>4. /\ Len(fromServer') = Len(fromServer) + 1 /\ Len(fromServer) \in Nat
          /\ \A i \in 1 .. Len(fromServer) : fromServer'[i] = fromServer[i]
          /\ fromServer'[Len(fromServer) + 1] = r
      BY <1>0, <3>1, <3>3, AppendFacts
    <3>5. reader = "ok" => \A i \in 1 .. Len(fromServer') : fromServer'[i].more
      BY <3>2, <3>4
    <3>6. QED
      BY <3>1, <3>5 DEF Emptied
  <2>2. CASE ~more
    BY <1>2, <2>2, AnswerEmptied DEF ServerAnswer
  <2>3. QED
    BY <2>1, <2>2
<1>3. ASSUME NEW body \in {"full", "rejected"}, ServerExplain(body) PROVE Emptied'
  BY <1>3, AnswerEmptied DEF ServerExplain
<1>4. CASE ServerGarbles
  BY <1>4, AnswerEmptied DEF ServerGarbles
<1>5. CASE ServerAbsorbs
  <2>1. /\ Len(Tail(toServer)) = Len(toServer) - 1 /\ Len(toServer) \in Nat
        /\ toServer # <<>> /\ toServer' = Tail(toServer) /\ pc # "closed"
    BY <1>0, <1>5, TailFacts DEF ServerAbsorbs, ServerWorks
  <2>2. QED
    BY <1>5, <2>1 DEF ServerAbsorbs, Emptied
<1>6. CASE ServerClose
  BY <1>6 DEF ServerClose, Emptied
<1>7. CASE ReadRequest
  BY <1>7 DEF ReadRequest, Emptied, IInv, Control
<1>8. CASE ReadEnds \/ CallFails \/ RelayFails \/ StreamFails \/ ReplayFails
  BY <1>8, CloseEmptied DEF ReadEnds, CallFails, RelayFails, StreamFails, ReplayFails,
     Close, IInv, Control, PollError
<1>9. CASE Call
  BY <1>9 DEF Call, Emptied, IInv, Control, Incoming
<1>10. CASE Relay \/ Drain
  BY <1>10, PollEmptied DEF Relay, Drain
<1>11. CASE StreamEnds
  BY <1>11 DEF StreamEnds, Emptied
<1>12. CASE ExplainCall
  <2>1. toServer = <<>>
    BY <1>12 DEF ExplainCall, Emptied
  <2>2. [id |-> plan.id, kind |-> "explain"] \in Requests
    BY DEF IInv, TypeOK, Requests
  <2>3. Len(toServer') <= 1
    BY <1>0, <1>12, <2>1, <2>2, AppendFacts DEF ExplainCall, Write
  <2>4. reader = "ok" => Len(fromServer) = 0
    BY <1>12 DEF ExplainCall, IInv, Incoming
  <2>5. QED
    BY <1>12, <2>3, <2>4 DEF ExplainCall, Emptied
<1>13. CASE ExplainCallFails
  BY <1>13 DEF ExplainCallFails, Emptied
<1>14. CASE ExplainDrain
  BY <1>14, PollEmptied DEF ExplainDrain
<1>15. CASE ExplainStreamFails
  BY <1>15 DEF ExplainStreamFails, PollError, Emptied
<1>16. CASE ExplainEnds
  BY <1>16 DEF ExplainEnds, Emptied
<1>17. CASE Replay
  BY <1>17 DEF Replay, Emptied
<1>18. CASE UNCHANGED vars
  BY <1>18 DEF vars, Emptied
<1>19. QED
  BY <1>1, <1>2, <1>3, <1>4, <1>5, <1>6, <1>7, <1>8, <1>9, <1>10, <1>11, <1>12,
     <1>13, <1>14, <1>15, <1>16, <1>17, <1>18
     DEF Next, Server, ServerResponds, Task, Terminated

-----------------------------------------------------------------------------
(* The counter and the records of the sink hold integers. *)
LEMMA IdTypes ==
  ASSUME TypeOK
  PROVE  /\ counter \in Int /\ counter \in MinId .. -1 /\ plan.id \in Int
         /\ Len(sink) \in Nat
         /\ \A i \in 1 .. Len(sink) : sink[i].explain \in Int /\ sink[i].client \in Nat
<1>1. sink \in Seq(Records)
  BY DEF TypeOK
<1>2. \A i \in 1 .. Len(sink) : sink[i] \in Records
  BY <1>1
<1>3. \A i \in 1 .. Len(sink) : sink[i].explain \in Int /\ sink[i].client \in Nat
  BY <1>2 DEF Records
<1>4. QED
  BY <1>1, <1>3, ConnectionAssumption DEF TypeOK

(* A step that neither allocates nor reports leaves the ids in order. *)
LEMMA IdsKept ==
  ASSUME IdsDescend, UNCHANGED <<sink, counter, plan>>,
         \/ pc' = pc \/ pc' \in {"closed", "replay", "read"}
         \/ /\ Unreported
            /\ pc' \in {"call", "stream"} \/ plan.outcome = "built",
         \A i \in 1 .. Len(toServer') : (pc' # "closed" /\ toServer'[i].kind = "explain") =>
           pc' = "explainStream" /\ toServer'[i].id = plan.id
  PROVE  IdsDescend'
BY DEF IdsDescend, Unreported

(* A report uses up the id allocated for the request being served. *)
LEMMA IdsReported ==
  ASSUME TypeOK, IdsDescend, Unreported, NEW result \in {"event", "error"}, Emit(result),
         pc' = "replay", UNCHANGED <<counter, plan>>,
         \A i \in 1 .. Len(toServer') : toServer'[i].kind # "explain"
  PROVE  IdsDescend'
<1> DEFINE r == [client |-> nread, explain |-> plan.id, result |-> result]
<1>1. r \in Records /\ sink \in Seq(Records)
  BY DEF TypeOK, Records
<1>2. sink' = Append(sink, r)
  BY DEF Emit
<1>3. /\ Len(sink') = Len(sink) + 1 /\ Len(sink) \in Nat
      /\ \A i \in 1 .. Len(sink) : sink'[i] = sink[i]
      /\ sink'[Len(sink) + 1] = r
  BY <1>1, <1>2, AppendFacts
<1>4. counter \in Int /\ plan.id \in Int /\ \A i \in 1 .. Len(sink) : sink[i].explain \in Int
  BY IdTypes
<1>5. \A j \in 1 .. Len(sink') : sink'[j].explain = NoId \/ sink'[j].explain >= counter'
  BY <1>3, <1>4 DEF IdsDescend
<1>6. ASSUME NEW i \in 1 .. Len(sink'), NEW j \in 1 .. Len(sink'), i < j,
             sink'[j].explain # NoId
      PROVE  sink'[i].explain = NoId \/ sink'[j].explain < sink'[i].explain
  <2>1. i \in 1 .. Len(sink) /\ sink'[i] = sink[i]
    BY <1>3, <1>6
  <2>2. CASE j \in 1 .. Len(sink)
    BY <1>3, <1>6, <2>1, <2>2 DEF IdsDescend
  <2>3. CASE j = Len(sink) + 1
    <3>1. sink'[j].explain = plan.id
      BY <1>3, <2>3
    <3>2. sink[i].explain = NoId \/ sink[i].explain > counter
      BY <1>6, <2>1, <3>1 DEF IdsDescend
    <3>3. plan.id = counter
      BY <1>6, <3>1 DEF IdsDescend
    <3>4. QED
      BY <1>4, <2>1, <3>1, <3>2, <3>3
  <2>4. QED
    BY <1>3, <2>2, <2>3
<1>7. QED
  BY <1>5, <1>6 DEF IdsDescend, Unreported

(* Every step keeps the ids in order. *)
LEMMA IdsNext == IInv /\ IdsDescend /\ [Next]_vars => IdsDescend'
<1> SUFFICES ASSUME IInv, IdsDescend, [Next]_vars PROVE IdsDescend'
  OBVIOUS
<1> USE DEF clientVars, serverVars, explainVars
<1>0. TypeOK /\ IInv' /\ toServer \in Seq(Requests)
  BY NextIInv DEF IInv, TypeOK
(* Dropping the first request. *)
<1>a. ASSUME toServer # <<>>, toServer' = Tail(toServer), UNCHANGED <<pc, sink, counter, plan>>
      PROVE  IdsDescend'
  <2>1. /\ Len(toServer') = Len(toServer) - 1 /\ Len(toServer) \in Nat
        /\ \A i \in 1 .. Len(toServer') : toServer'[i] = toServer[i + 1]
    BY <1>0, <1>a, TailFacts
  <2>2. \A i \in 1 .. Len(toServer') : i + 1 \in 1 .. Len(toServer)
    BY <2>1
  <2>3. QED
    BY <1>a, <2>1, <2>2, IdsKept DEF IdsDescend
(* Leaving the requests as they are. *)
<1>b. ASSUME UNCHANGED <<pc, toServer, sink, counter, plan>> PROVE IdsDescend'
  BY <1>b, IdsKept DEF IdsDescend
<1>c. ASSUME pc' = "closed", UNCHANGED <<sink, counter, plan>> PROVE IdsDescend'
  BY <1>c, IdsKept
(* Once the guard is free no explain is in the socket. *)
<1>d. ASSUME guard' = "free", pc' # "closed"
      PROVE  \A i \in 1 .. Len(toServer') : toServer'[i].kind # "explain"
  BY <1>0, <1>d DEF IInv, Outgoing
<1>1. CASE Client
  BY <1>1, <1>b DEF Client, ClientSend, ClientClose
<1>2. ASSUME NEW more \in BOOLEAN, ServerAnswer(more) PROVE IdsDescend'
  BY <1>2, <1>a, <1>b DEF ServerAnswer, ServerWorks
<1>3. ASSUME NEW body \in {"full", "rejected"}, ServerExplain(body) PROVE IdsDescend'
  BY <1>3, <1>a DEF ServerExplain, ServerWorks
<1>4. CASE ServerGarbles \/ ServerAbsorbs
  BY <1>4, <1>a DEF ServerGarbles, ServerAbsorbs, ServerWorks
<1>5. CASE ServerClose
  BY <1>5, IdsKept DEF ServerClose
<1>6. CASE ReadRequest
  <2>1. \A i \in 1 .. Len(toServer') : toServer'[i].kind # "explain"
    <3>1. guard' = "free"
      BY <1>0, <1>6 DEF ReadRequest, IInv, TypeOK, Control
    <3>2. QED
      BY <1>6, <1>d, <3>1 DEF ReadRequest
  <2>2. counter \in MinId .. -1 /\ \A j \in 1 .. Len(sink) : sink[j].explain \in Int
    BY <1>0, IdTypes
  <2>3. CASE plan'.id = NoId
    <3>1. counter' = counter /\ plan'.outcome # "built"
      BY <1>6, <2>2, <2>3, ConnectionAssumption DEF ReadRequest, Prepare, NoPlan, NoId
    <3>2. QED
      BY <1>6, <2>1, <2>3, <3>1 DEF ReadRequest, IdsDescend, Unreported
  <2>4. CASE plan'.id # NoId
    <3>1. plan'.id = counter - 1 /\ CanAlloc
      BY <1>6, <2>4 DEF ReadRequest, Prepare, NoPlan
    <3>2. counter' = counter - 1 /\ counter' \in MinId .. -2
      BY <1>6, <2>2, <2>4, <3>1, ConnectionAssumption DEF ReadRequest, CanAlloc
    <3>3. \A j \in 1 .. Len(sink) : sink[j].explain = NoId \/ sink[j].explain > counter'
      BY <2>2, <3>2, ConnectionAssumption DEF IdsDescend
    <3>4. \A j \in 1 .. Len(sink) : sink[j].explain = NoId \/ sink[j].explain >= counter'
      BY <2>2, <3>2, <3>3, ConnectionAssumption
    <3>5. plan'.id = counter'
      BY <3>1, <3>2
    <3>6. QED
      BY <1>6, <2>1, <2>4, <3>2, <3>3, <3>4, <3>5 DEF ReadRequest, IdsDescend, Unreported
  <2>5. QED
    BY <2>3, <2>4
<1>7. CASE ReadEnds \/ CallFails \/ RelayFails \/ StreamFails \/ ReplayFails
  BY <1>7, <1>c DEF ReadEnds, CallFails, RelayFails, StreamFails, ReplayFails, Close
<1>8. CASE Call
  <2>1. guard' # "explain" /\ pc' # "closed"
    BY <1>8 DEF Call
  <2>2. \A i \in 1 .. Len(toServer') : toServer'[i].kind # "explain"
    BY Zenon, <1>0, <2>1 DEF IInv, TypeOK, Outgoing
  <2>3. QED
    BY <1>8, <2>2, IdsKept DEF Call, Unreported
<1>9. CASE Relay \/ Drain \/ ExplainDrain
  BY <1>9, <1>b DEF Relay, Drain, ExplainDrain
<1>10. CASE StreamEnds
  <2>1. \A i \in 1 .. Len(toServer') : toServer'[i].kind # "explain"
    BY <1>10, <1>d DEF StreamEnds
  <2>2. CASE UNCHANGED sink
    BY <1>10, <2>1, <2>2, IdsKept DEF StreamEnds, Unreported
  <2>3. CASE Emit("error") /\ pc' = "replay"
    BY <1>0, <1>10, <2>1, <2>3, IdsReported DEF StreamEnds, Unreported
  <2>4. QED
    BY <1>10, <2>2, <2>3 DEF StreamEnds
<1>11. CASE ExplainCall
  <2>1. \A i \in 1 .. Len(toServer) : toServer[i].kind # "explain"
    BY <1>0, <1>11, NoExplain DEF ExplainCall, IInv
  <2> DEFINE m == [id |-> plan.id, kind |-> "explain"]
  <2>2. m \in Requests
    BY <1>0 DEF TypeOK, Requests
  <2>3. \A i \in 1 .. Len(toServer') : toServer'[i].kind = "explain" => toServer'[i] = m
    <3>1. CASE serverUp
      BY <1>0, <1>11, <2>1, <2>2, <3>1, AppendFacts DEF ExplainCall, Write
    <3>2. CASE ~serverUp
      BY <1>11, <2>1, <3>2 DEF ExplainCall, Write
    <3>3. QED
      BY Zenon, <3>1, <3>2
  <2>4. QED
    BY SMTT(30), <1>11, <2>3, IdsKept DEF ExplainCall, Unreported, IdsDescend
<1>12. CASE ExplainCallFails
  BY <1>0, <1>12, <1>d, IdsReported DEF ExplainCallFails, Unreported
<1>13. CASE ExplainStreamFails
  BY <1>0, <1>13, <1>d, IdsReported DEF ExplainStreamFails, PollError, Unreported
<1>14. CASE ExplainEnds
  BY <1>0, <1>14, <1>d, IdsReported DEF ExplainEnds, Unreported
<1>15. CASE Replay
  <2>1. guard' = "free"
    BY <1>0, <1>15 DEF Replay, IInv, TypeOK, Control
  <2>2. QED
    BY <1>15, <1>d, <2>1, IdsKept DEF Replay
<1>16. CASE UNCHANGED vars
  BY <1>16, <1>b DEF vars
<1>17. QED
  BY <1>1, <1>2, <1>3, <1>4, <1>5, <1>6, <1>7, <1>8, <1>9, <1>10, <1>11, <1>12,
     <1>13, <1>14, <1>15, <1>16
     DEF Next, Server, ServerResponds, Task, Terminated

-----------------------------------------------------------------------------
(* A step that reads no request and reports nothing, and reaches the       *)
(* replay only with nothing to report.                                     *)
LEMMA SinkKept ==
  ASSUME TypeOK, SinkComplete, UNCHANGED <<sink, nread, plan>>,
         \A n \in 1 .. nread : log'[n] = log[n],
         \/ pc' = pc \/ pc' = "closed"
         \/ Unreported /\ Unreported'
         \/ Unreported /\ (ExplainOn => plan.outcome = "none") /\ pc' \in {"replay", "read"}
         \/ pc = "replay" /\ pc' = "read"
  PROVE  SinkComplete'
<1>1. nread \in Nat /\ \A i \in 1 .. Len(sink) : sink[i].client \in Nat
  BY IdTypes DEF TypeOK
<1>2. Unreported' => Unreported /\ nread >= 1 /\ log'[nread] = log[nread]
  <2>1. Unreported' => Unreported
    BY DEF Unreported
  <2>2. Unreported => nread >= 1
    BY DEF SinkComplete
  <2>3. QED
    BY <1>1, <2>1, <2>2
<1>3. /\ \A i, j \in 1 .. Len(sink') : i < j => sink'[i].client < sink'[j].client
      /\ \A i \in 1 .. Len(sink') :
           sink'[i].client <= nread' /\ (Unreported' => sink'[i].client < nread')
      /\ Unreported' => nread' >= 1
      /\ (ExplainOn /\ Unreported') => (plan'.outcome # "none" <=> log'[nread'] \in Explainable)
  BY <1>2 DEF SinkComplete
<1>4. ASSUME ExplainOn, NEW n \in 1 .. nread, n < nread \/ pc' \in {"replay", "read"}
      PROVE  Heard(n)' <=> log'[n] \in Explainable
  <2>1. Heard(n)' <=> Heard(n)
    BY DEF Heard
  <2>2. CASE n < nread \/ pc \in {"replay", "read"}
    BY <1>4, <2>1, <2>2 DEF SinkComplete
  <2>3. CASE n = nread /\ Unreported
    <3>1. ~Heard(nread)
      BY <1>1, <2>3 DEF SinkComplete, Heard
    <3>2. log[nread] \notin Explainable
      BY <1>4, <2>3 DEF SinkComplete, Unreported
    <3>3. QED
      BY <2>1, <2>3, <3>1, <3>2
  <2>4. QED
    BY <1>1, <1>4, <2>2, <2>3 DEF Unreported
<1>5. QED
  BY <1>3, <1>4 DEF SinkComplete

(* The report of the request being served. *)
LEMMA SinkReported ==
  ASSUME TypeOK, SinkComplete, Unreported, plan.outcome # "none",
         NEW result \in {"event", "error"}, Emit(result),
         pc' = "replay", UNCHANGED <<log, nread, plan>>
  PROVE  SinkComplete'
<1> DEFINE r == [client |-> nread, explain |-> plan.id, result |-> result]
<1>1. r \in Records /\ sink \in Seq(Records) /\ nread \in Nat
  BY DEF TypeOK, Records
<1>2. /\ Len(sink') = Len(sink) + 1 /\ Len(sink) \in Nat
      /\ \A i \in 1 .. Len(sink) : sink'[i] = sink[i]
      /\ sink'[Len(sink) + 1] = r
  BY <1>1, AppendFacts DEF Emit
<1>3. \A i \in 1 .. Len(sink) : sink[i].client < nread
  BY DEF SinkComplete
<1>4. \A i, j \in 1 .. Len(sink') : i < j => sink'[i].client < sink'[j].client
  BY <1>2, <1>3 DEF SinkComplete
<1>5. \A i \in 1 .. Len(sink') : sink'[i].client <= nread
  BY <1>1, <1>2 DEF SinkComplete
<1>6. ASSUME ExplainOn, NEW n \in 1 .. nread
      PROVE  Heard(n)' <=> log[n] \in Explainable
  <2>1. CASE n = nread
    <3>1. Heard(n)'
      BY <1>2, <2>1 DEF Heard
    <3>2. QED
      BY <1>6, <2>1, <3>1 DEF SinkComplete
  <2>2. CASE n < nread
    <3>1. Heard(n)' <=> Heard(n)
      BY <1>2, <2>2 DEF Heard
    <3>2. QED
      BY <1>6, <2>2, <3>1 DEF SinkComplete
  <2>3. QED
    BY <1>1, <2>1, <2>2
<1>7. QED
  BY <1>4, <1>5, <1>6 DEF SinkComplete, Unreported

(* Every step keeps the sink complete. *)
LEMMA SinkNext == IInv /\ IdsDescend /\ SinkComplete /\ [Next]_vars => SinkComplete'
<1> SUFFICES ASSUME IInv, IdsDescend, SinkComplete, [Next]_vars PROVE SinkComplete'
  OBVIOUS
<1> USE DEF clientVars, serverVars, explainVars
<1>0. /\ TypeOK /\ log \in Seq(Kinds) /\ nread \in 0 .. Len(log) /\ Len(log) \in Nat
  BY DEF IInv, TypeOK
<1>1. CASE Client
  <2>1. \A n \in 1 .. nread : log'[n] = log[n]
    BY <1>0, <1>1, AppendFacts DEF Client, ClientSend, ClientClose
  <2>2. QED
    BY <1>0, <1>1, <2>1, SinkKept DEF Client, ClientSend, ClientClose
<1>2. CASE Server
  BY Zenon, <1>0, <1>2, SinkKept DEF Server, ServerResponds, ServerAnswer, ServerExplain,
     ServerAbsorbs, ServerGarbles, ServerClose
<1>3. CASE ReadRequest
  <2>1. /\ nread' = nread + 1 /\ nread + 1 \in 1 .. Len(log) /\ UNCHANGED <<sink, log>>
        /\ pc = "read" /\ pc' = "call" /\ plan' = Prepare(log[nread + 1])
    BY <1>0, <1>3 DEF ReadRequest
  <2>2. \A i \in 1 .. Len(sink) : sink[i].client \in Nat /\ sink[i].client <= nread
    BY <1>0, IdTypes DEF SinkComplete
  <2>3. ExplainOn => (plan'.outcome # "none" <=> log[nread + 1] \in Explainable)
    BY <2>1 DEF Prepare, NoPlan
  <2>4. ASSUME ExplainOn, NEW n \in 1 .. nread
        PROVE  Heard(n)' <=> log[n] \in Explainable
    <3>1. Heard(n)' <=> Heard(n)
      BY <2>1 DEF Heard
    <3>2. QED
      BY <2>1, <2>4, <3>1 DEF SinkComplete
  <2>5. \A i \in 1 .. Len(sink') : sink'[i].client <= nread' /\ sink'[i].client < nread'
    BY <1>0, <2>1, <2>2
  <2>6. \A n \in 1 .. nread' : n < nread' => n \in 1 .. nread
    BY <1>0, <2>1
  <2>7. QED
    BY <1>0, <2>1, <2>3, <2>4, <2>5, <2>6 DEF SinkComplete, Unreported
<1>4. CASE ReadEnds
  <2>1. CASE UNCHANGED nread
    BY <1>0, <1>4, <2>1, SinkKept DEF ReadEnds, Close
  <2>2. CASE nread' = nread + 1
    <3>1. UNCHANGED <<sink, log>> /\ pc = "read" /\ pc' = "closed"
      BY <1>4 DEF ReadEnds, Close
    <3>2. \A n \in 1 .. nread' : n < nread' => n \in 1 .. nread
      BY <1>0, <2>2
    <3>3. \A i \in 1 .. Len(sink) : sink[i].client \in Nat /\ sink[i].client <= nread
      BY <1>0, IdTypes DEF SinkComplete
    <3>4. \A i \in 1 .. Len(sink') : sink'[i].client <= nread'
      BY <1>0, <2>2, <3>1, <3>3
    <3>5. \A n : Heard(n)' <=> Heard(n)
      BY <3>1 DEF Heard
    <3>6. QED
      BY <3>1, <3>2, <3>4, <3>5 DEF SinkComplete, Unreported
  <2>3. QED
    BY <1>4, <2>1, <2>2 DEF ReadEnds
<1>5. CASE CallFails \/ RelayFails \/ StreamFails \/ ReplayFails
  BY <1>0, <1>5, SinkKept DEF CallFails, RelayFails, StreamFails, ReplayFails, Close
<1>6. CASE Call \/ ExplainCall
  BY <1>0, <1>6, SinkKept DEF Call, ExplainCall, Unreported
<1>7. CASE Relay \/ Drain \/ ExplainDrain
  BY <1>0, <1>7, SinkKept DEF Relay, Drain, ExplainDrain
<1>8. CASE StreamEnds
  <2>1. pc = "stream" /\ UNCHANGED <<log, nread, plan>>
    BY <1>8 DEF StreamEnds
  <2>2. CASE UNCHANGED sink /\ pc' = "explainCall"
    BY <1>0, <2>1, <2>2, SinkKept DEF Unreported
  <2>3. CASE UNCHANGED sink /\ (ExplainOn => plan.outcome = "none") /\ pc' \in {"replay", "read"}
    BY <1>0, <2>1, <2>3, SinkKept DEF Unreported
  <2>4. CASE Emit("error") /\ pc' = "replay" /\ plan.outcome # "none"
    BY <1>0, <2>1, <2>4, SinkReported DEF Unreported
  <2>5. QED
    BY <1>8, <2>2, <2>3, <2>4 DEF StreamEnds
<1>9. CASE ExplainCallFails
  BY <1>0, <1>9, SinkReported DEF ExplainCallFails, Unreported, IdsDescend
<1>10. CASE ExplainStreamFails
  BY <1>0, <1>10, SinkReported DEF ExplainStreamFails, Unreported, IdsDescend
<1>11. CASE ExplainEnds
  BY <1>0, <1>11, SinkReported DEF ExplainEnds, Unreported, IdsDescend
<1>12. CASE Replay
  BY <1>0, <1>12, SinkKept DEF Replay
<1>13. CASE UNCHANGED vars
  BY <1>0, <1>13, SinkKept DEF vars
<1>14. QED
  BY <1>1, <1>2, <1>3, <1>4, <1>5, <1>6, <1>7, <1>8, <1>9, <1>10, <1>11, <1>12, <1>13
     DEF Next, Task, Terminated

-----------------------------------------------------------------------------
(* A connection starts with an empty socket and an empty sink. *)
LEMMA InitExplain == Init => ExplainInv
<1> SUFFICES ASSUME Init PROVE ExplainInv
  OBVIOUS
<1>1. IInv
  BY InitIInv
<1>2. Emptied
  BY DEF Init, Emptied, NoPlan
<1>3. IdsDescend /\ SinkComplete
  BY DEF Init, IdsDescend, SinkComplete, Unreported, NoPlan
<1>4. QED
  BY <1>1, <1>2, <1>3 DEF ExplainInv

(* The invariant holds throughout. *)
LEMMA ExplainAlways == Spec => []ExplainInv
<1>1. ExplainInv /\ [Next]_vars => ExplainInv'
  BY NextIInv, EmptiedNext, IdsNext, SinkNext DEF ExplainInv
<1>2. QED
  BY <1>1, InitExplain, PTL DEF Spec

(* run_explain shares the upstream socket with nothing: however many       *)
(* fire-and-forget requests were sent before it, the explain is written to *)
(* a socket the upstream has emptied, and nothing follows it.              *)
THEOREM ExplainIsAlone == Spec => []ExplainTravelsAlone
<1>1. ExplainInv => ExplainTravelsAlone
  <2> SUFFICES ASSUME ExplainInv, NEW i \in 1 .. Len(toServer), toServer[i].kind = "explain"
               PROVE  Len(toServer) = 1
    BY DEF ExplainTravelsAlone
  <2>1. pc # "closed"
    BY DEF ExplainInv, Emptied
  <2>2. guard = "explain"
    BY <2>1, NoExplain DEF ExplainInv, IInv
  <2>3. Len(toServer) \in Nat /\ Len(toServer) <= 1
    BY <2>2 DEF ExplainInv, IInv, TypeOK, Emptied
  <2>4. QED
    BY <2>3
<1>2. QED
  BY <1>1, ExplainAlways, PTL

(* alloc_request_id never hands out an id twice on a connection, for every *)
(* width of the counter, and none outside MinId .. -2.                     *)
THEOREM ExplainIdsNeverReused == Spec => []ExplainIdsFresh
<1>1. ExplainInv => ExplainIdsFresh
  <2> SUFFICES ASSUME ExplainInv PROVE ExplainIdsFresh
    OBVIOUS
  <2>1. ASSUME NEW i \in 1 .. Len(toServer), toServer[i].kind = "explain"
        PROVE  /\ toServer[i].id \in MinId .. -2
               /\ \A j \in 1 .. Len(sink) : sink[j].explain # toServer[i].id
    <3>1. pc # "closed"
      BY <2>1 DEF ExplainInv, Emptied
    <3>2. pc = "explainStream" /\ toServer[i].id = plan.id /\ plan.id # NoId
      BY <2>1, <3>1 DEF ExplainInv, IdsDescend
    <3>3. /\ plan.id = counter /\ counter \in MinId .. -2
          /\ \A j \in 1 .. Len(sink) : sink[j].explain = NoId \/ sink[j].explain > counter
      BY <3>2 DEF ExplainInv, IdsDescend, Unreported
    <3>4. counter \in Int /\ \A j \in 1 .. Len(sink) : sink[j].explain \in Int
      BY IdTypes DEF ExplainInv, IInv
    <3>5. QED
      BY <3>2, <3>3, <3>4
  <2>2. QED
    BY <2>1 DEF ExplainInv, IdsDescend, ExplainIdsFresh
<1>2. QED
  BY <1>1, ExplainAlways, PTL

(* The sink hears of every explainable request exactly once and of nothing *)
(* else, whatever becomes of the explain, for any number of requests.      *)
THEOREM SinkHearsOnce == Spec => []OneRecordPerExplainable
<1>1. ExplainInv => OneRecordPerExplainable
  BY DEF ExplainInv, SinkComplete, Heard, OneRecordPerExplainable
<1>2. QED
  BY <1>1, ExplainAlways, PTL

-----------------------------------------------------------------------------
(* Part 2: the refinement of ReplyChannel *)

(* The reply the upstream sent last. *)
Latest == answered[Len(answered)]
Finished == answered # <<>> /\ Latest.to = nread /\ ~Latest.more

(* The replies so far are to requests that were read; a request that is    *)
(* about to be written has none yet, and those the client still waits for  *)
(* are all to the current one.                                             *)
Addressed ==
  /\ \A k \in 1 .. Len(answered) : answered[k].to <= nread
  /\ pc = "call" => \A k \in 1 .. Len(answered) : answered[k].to < nread
  /\ pc # "closed" => \A k \in 1 .. Len(answered) :
       k > Len(clientIn) => answered[k].to = nread

(* While the upstream still owes a reply to the current request, that      *)
(* request is one that is answered and its last reply announced another.   *)
Owing ==
  /\ guard = "original" => log[nread] # "oneway"
  /\ (pc # "closed" /\ guard = "original"
      /\ \E i \in 1 .. Len(toServer) : toServer[i].kind # "oneway") => ~Finished

(* A terminal reply that arrived is the last one sent, even when the       *)
(* upstream has gone since.                                                *)
Ending ==
  (/\ pc # "closed" /\ guard = "original" /\ reader = "ok" /\ fromServer # <<>>
   /\ ~fromServer[Len(fromServer)].more
   /\ fromServer[Len(fromServer)].body # "garbled") =>
     Len(answered) = Taken + Len(fromServer)

(* Once the stream of the current request gave up the guard, everything    *)
(* the upstream sent was taken and the request is answered to the end.     *)
Exchanged ==
  /\ (pc # "closed" /\ guard # "original") =>
       /\ Len(answered) = Taken
       /\ pc # "call" => nread = 0 \/ log[nread] = "oneway" \/ Finished
  /\ pc \in {"read", "call"} => buffer = <<>>

(* The inductive invariant. *)
ChannelInv == IInv /\ Addressed /\ Owing /\ Ending /\ Exchanged

-----------------------------------------------------------------------------
(* What the invariants say of the variables' values. *)
LEMMA ChannelTypes ==
  ASSUME TypeOK
  PROVE  /\ answered \in Seq(Replies) /\ clientIn \in Seq(Replies)
         /\ buffer \in Seq(Replies) /\ fromServer \in Seq(Replies)
         /\ toServer \in Seq(Requests) /\ log \in Seq(Kinds)
         /\ nread \in 0 .. Len(log) /\ Len(answered) \in Nat
         /\ Len(clientIn) \in Nat /\ Len(buffer) \in Nat
         /\ Len(fromServer) \in Nat /\ Len(toServer) \in Nat /\ Len(log) \in Nat
         /\ guard \in {"free", "original", "explain"} /\ reader \in {"ok", "errored"}
         /\ \A k \in 1 .. Len(answered) : answered[k].to \in Int
<1>1. answered \in Seq(Replies)
  BY DEF TypeOK
<1>2. \A k \in 1 .. Len(answered) : answered[k] \in Replies
  BY <1>1
<1>3. \A k \in 1 .. Len(answered) : answered[k].to \in Int
  BY <1>2 DEF Replies
<1>4. QED
  BY <1>3 DEF TypeOK

(* A reply of the upstream to the current request. *)
LEMMA AnswerFacts ==
  ASSUME TypeOK, Control, Outgoing, Incoming, NEW more \in BOOLEAN, ServerAnswer(more)
  PROVE  /\ guard = "original" /\ pc = "stream" /\ nread \in 1 .. Len(log)
         /\ answered' = Append(answered, Reply(nread, Len(answered) + 1, more))
         /\ fromServer' = Append(fromServer, Reply(nread, Len(answered) + 1, more))
         /\ Len(answered') = Len(answered) + 1 /\ Len(fromServer') = Len(fromServer) + 1
         /\ \A k \in 1 .. Len(answered) : answered'[k] = answered[k]
         /\ answered'[Len(answered) + 1].to = nread
         /\ answered'[Len(answered) + 1].more = more
         /\ fromServer'[Len(fromServer) + 1] = answered'[Len(answered) + 1]
         /\ ~more => toServer' = <<>>
<1>1. guard = "original" /\ Head(toServer).id = nread /\ nread \in 1 .. Len(log)
  BY OwesOriginal
<1>2. pc = "stream"
  BY <1>1 DEF Control
<1>3. /\ answered' = Append(answered, Reply(nread, Len(answered) + 1, more))
      /\ fromServer' = Append(fromServer, Reply(nread, Len(answered) + 1, more))
  BY <1>1 DEF ServerAnswer, Reply
<1>4. Reply(nread, Len(answered) + 1, more) \in Replies
  BY <1>1, ChannelTypes DEF Reply, Replies, Bodies
<1>r. /\ Len(answered') = Len(answered) + 1 /\ Len(fromServer') = Len(fromServer) + 1
      /\ \A k \in 1 .. Len(answered) : answered'[k] = answered[k]
      /\ answered'[Len(answered) + 1] = Reply(nread, Len(answered) + 1, more)
      /\ fromServer'[Len(fromServer) + 1] = Reply(nread, Len(answered) + 1, more)
  <2>1. answered \in Seq(Replies) /\ fromServer \in Seq(Replies)
    BY ChannelTypes
  <2>2. QED
    BY <1>3, <1>4, <2>1, AppendFacts
<1>s. /\ Reply(nread, Len(answered) + 1, more).to = nread
      /\ Reply(nread, Len(answered) + 1, more).more = more
  BY DEF Reply
<1>5. ~more => toServer' = <<>>
  <2>1. Tail(toServer) \in Seq(Requests) /\ Len(Tail(toServer)) = 0
    BY Owes, TakeRequest DEF ServerAnswer, ServerWorks
  <2>2. QED
    BY <2>1 DEF ServerAnswer
<1>6. QED
  BY <1>1, <1>2, <1>3, <1>r, <1>s, <1>5

(* Every reply is to a request that was read, and the ones the client      *)
(* waits for are to the current one.                                       *)
LEMMA AddressedNext == ChannelInv /\ [Next]_vars => Addressed'
<1> SUFFICES ASSUME ChannelInv, [Next]_vars PROVE Addressed'
  OBVIOUS
<1> USE DEF clientVars, serverVars, explainVars
<1>0. TypeOK /\ Control /\ Outgoing /\ Incoming /\ Addressed /\ Exchanged
  BY DEF ChannelInv, IInv
<1>t. /\ answered \in Seq(Replies) /\ clientIn \in Seq(Replies) /\ nread \in Nat
      /\ Len(answered) \in Nat /\ Len(clientIn) \in Nat
      /\ \A k \in 1 .. Len(answered) : answered[k].to \in Int
  BY <1>0, ChannelTypes
<1>a. ASSUME UNCHANGED <<answered, nread>>, pc' = "call" => pc = "call",
             UNCHANGED clientIn \/ Len(clientIn') = Len(clientIn) + 1,
             pc' # "closed" => pc # "closed"
      PROVE  Addressed'
  BY <1>0, <1>t, <1>a DEF Addressed
<1>1. CASE Client
  BY <1>1, <1>a DEF Client, ClientSend, ClientClose
<1>2. ASSUME NEW more \in BOOLEAN, ServerAnswer(more) PROVE Addressed'
  <2>1. /\ Len(answered') = Len(answered) + 1
        /\ \A k \in 1 .. Len(answered) : answered'[k] = answered[k]
        /\ answered'[Len(answered) + 1].to = nread
    BY <1>0, <1>2, AnswerFacts
  <2>2. pc = "stream" /\ UNCHANGED <<pc, nread, clientIn>>
    BY <1>0, <1>2, AnswerFacts DEF ServerAnswer
  <2>3. \A k \in 1 .. Len(answered') : k \in 1 .. Len(answered) \/ k = Len(answered) + 1
    BY <1>t, <2>1
  <2>4. ASSUME NEW k \in 1 .. Len(answered')
        PROVE  answered'[k].to <= nread /\ (k > Len(clientIn) => answered'[k].to = nread)
    BY <1>0, <1>t, <2>1, <2>2, <2>3 DEF Addressed
  <2>5. QED
    BY <2>2, <2>4 DEF Addressed
<1>3. CASE ServerGarbles \/ ServerAbsorbs \/ ServerClose
           \/ \E body \in {"full", "rejected"} : ServerExplain(body)
  BY <1>3, <1>a DEF ServerGarbles, ServerAbsorbs, ServerClose, ServerExplain
<1>4. CASE ReadRequest
  <2>1. /\ nread' = nread + 1 /\ pc = "read" /\ UNCHANGED <<answered, clientIn>>
        /\ guard # "original"
    BY <1>0, <1>4 DEF ReadRequest, Control
  <2>2. Len(clientIn) = Len(answered)
    BY <1>0, <1>t, <2>1 DEF Exchanged, Taken
  <2>3. QED
    BY <1>0, <1>t, <2>1, <2>2 DEF Addressed
<1>5. CASE ReadEnds
  <2>1. nread' \in {nread, nread + 1} /\ pc' = "closed" /\ UNCHANGED <<answered, clientIn>>
    BY <1>5 DEF ReadEnds, Close
  <2>2. QED
    BY <1>0, <1>t, <2>1 DEF Addressed
<1>6. CASE CallFails \/ RelayFails \/ StreamFails \/ ReplayFails
  BY <1>6, <1>a DEF CallFails, RelayFails, StreamFails, ReplayFails, Close
<1>7. CASE Call \/ Drain \/ StreamEnds
  BY <1>7, <1>a DEF Call, Drain, StreamEnds
<1>8. CASE Relay
  <2>1. Rewrite(nread, Head(fromServer)) \in Replies
    BY <1>0, <1>8, TakeReply, RewriteFacts DEF Relay, PollNext, ReaderReady
  <2>2. Len(clientIn') = Len(clientIn) + 1
    BY <1>t, <1>8, <2>1, AppendFacts DEF Relay
  <2>3. QED
    BY <1>8, <1>a, <2>2 DEF Relay
<1>9. CASE ExplainCall \/ ExplainCallFails \/ ExplainDrain \/ ExplainStreamFails \/ ExplainEnds
  BY <1>9, <1>a DEF ExplainCall, ExplainCallFails, ExplainDrain, ExplainStreamFails, ExplainEnds
<1>10. CASE Replay
  <2>1. UNCHANGED clientIn \/ Len(clientIn') = Len(clientIn) + 1
    BY <1>0, <1>t, <1>10, TakeBuffered, AppendFacts DEF Replay
  <2>2. QED
    BY <1>10, <1>a, <2>1 DEF Replay
<1>11. CASE UNCHANGED vars
  BY <1>11, <1>a DEF vars
<1>12. QED
  BY <1>1, <1>2, <1>3, <1>4, <1>5, <1>6, <1>7, <1>8, <1>9, <1>10, <1>11
     DEF Next, Server, ServerResponds, Task, Terminated

(* Finished looks only at the replies sent and the current request. *)
LEMMA FinishedStable == ASSUME UNCHANGED <<answered, nread>> PROVE Finished' <=> Finished
  BY DEF Finished, Latest

(* What the upstream owes is unchanged, or less, or a new request with no  *)
(* reply yet.                                                              *)
LEMMA OwingNext == ChannelInv /\ [Next]_vars => Owing'
<1> SUFFICES ASSUME ChannelInv, [Next]_vars PROVE Owing'
  OBVIOUS
<1> USE DEF clientVars, serverVars, explainVars
<1>0. TypeOK /\ Control /\ Outgoing /\ Incoming /\ Addressed /\ Owing
  BY DEF ChannelInv, IInv
<1>a. ASSUME UNCHANGED <<answered, nread>>,
             guard' = "original" => guard = "original" /\ log'[nread] = log[nread],
             pc' # "closed" => pc # "closed",
             \/ UNCHANGED toServer
             \/ toServer' = <<>>
             \/ toServer # <<>> /\ toServer' = Tail(toServer)
      PROVE  Owing'
  <2>1. ASSUME NEW i \in 1 .. Len(toServer'), toServer'[i].kind # "oneway"
        PROVE  \E j \in 1 .. Len(toServer) : toServer[j].kind # "oneway"
    <3>1. CASE UNCHANGED toServer
      BY <2>1, <3>1
    <3>2. CASE toServer' = <<>>
      BY <2>1, <3>2
    <3>3. CASE toServer # <<>> /\ toServer' = Tail(toServer)
      <4>1. /\ Len(toServer) \in Nat /\ Len(toServer') = Len(toServer) - 1
            /\ toServer'[i] = toServer[i + 1]
        BY <1>0, <2>1, <3>3, ChannelTypes, TailFacts
      <4>2. i + 1 \in 1 .. Len(toServer)
        BY <2>1, <4>1
      <4>3. QED
        BY <2>1, <4>1, <4>2
    <3>4. QED
      BY <1>a, <3>1, <3>2, <3>3
  <2>2. QED
    BY <1>0, <1>a, <2>1, FinishedStable DEF Owing
<1>b. ASSUME guard' # "original" PROVE Owing'
  BY <1>b DEF Owing
<1>1. CASE Client
  <2>1. guard = "original" => log'[nread] = log[nread]
    <3>1. ASSUME NEW k \in Kinds, log' = Append(log, k), nread \in 1 .. Len(log)
          PROVE  log'[nread] = log[nread]
      BY <1>0, <3>1, ChannelTypes, AppendFacts
    <3>2. guard = "original" => nread \in 1 .. Len(log)
      BY <1>0, ChannelTypes DEF Control
    <3>3. QED
      BY <1>1, <3>1, <3>2 DEF Client, ClientSend, ClientClose
  <2>2. QED
    BY <1>1, <1>a, <2>1 DEF Client, ClientSend, ClientClose
<1>2. ASSUME NEW more \in BOOLEAN, ServerAnswer(more) PROVE Owing'
  <2>1. UNCHANGED <<log, guard, nread, pc>>
    BY <1>2 DEF ServerAnswer
  <2>2. CASE more
    <3>1. Len(answered') = Len(answered) + 1 /\ answered'[Len(answered) + 1].more
      BY Zenon, <1>0, <1>2, <2>2, AnswerFacts
    <3>2. ~Finished'
      BY <3>1 DEF Finished, Latest
    <3>3. QED
      BY <1>0, <2>1, <3>2 DEF Owing
  <2>3. CASE ~more
    <3>1. toServer' = <<>>
      BY <1>0, <1>2, <2>3, AnswerFacts
    <3>2. QED
      BY <1>0, <2>1, <3>1 DEF Owing
  <2>4. QED
    BY <2>2, <2>3
<1>3. CASE ServerGarbles \/ ServerAbsorbs \/ ServerClose
           \/ \E body \in {"full", "rejected"} : ServerExplain(body)
  BY <1>3, <1>a DEF ServerGarbles, ServerAbsorbs, ServerClose, ServerExplain, ServerWorks
<1>4. CASE ReadRequest
  BY <1>0, <1>4, <1>b DEF ReadRequest, Control
<1>5. CASE ReadEnds \/ CallFails \/ RelayFails \/ StreamFails \/ ReplayFails
  BY <1>5, <1>b DEF ReadEnds, CallFails, RelayFails, StreamFails, ReplayFails, Close
<1>6. CASE Call
  <2>1. /\ pc = "call" /\ UNCHANGED <<answered, nread, log>>
        /\ guard' = "original" => log[nread] # "oneway"
    BY <1>6 DEF Call
  <2>2. answered # <<>> => Latest.to < nread /\ Latest.to \in Int /\ nread \in Int
    <3>1. answered # <<>> => Len(answered) \in 1 .. Len(answered)
      BY <1>0, ChannelTypes
    <3>2. QED
      BY <1>0, <2>1, <3>1, ChannelTypes DEF Addressed, Latest
  <2>3. ~Finished
    BY <2>2 DEF Finished
  <2>4. QED
    BY <2>1, <2>3, FinishedStable DEF Owing
<1>7. CASE Relay \/ Drain
  BY <1>7, <1>a DEF Relay, Drain, PollNext
<1>8. CASE StreamEnds \/ Replay
  BY <1>8, <1>a DEF StreamEnds, Replay
<1>9. CASE ExplainCall \/ ExplainCallFails \/ ExplainDrain \/ ExplainStreamFails \/ ExplainEnds
  BY <1>9, <1>b DEF ExplainCall, ExplainCallFails, ExplainDrain, ExplainStreamFails,
     ExplainEnds, PollNext, PollError
<1>10. CASE UNCHANGED vars
  BY <1>10, <1>a DEF vars
<1>11. QED
  BY <1>1, <1>2, <1>3, <1>4, <1>5, <1>6, <1>7, <1>8, <1>9, <1>10
     DEF Next, Server, ServerResponds, Task, Terminated

(* One reply is taken from the socket for the client: Taken counts it,     *)
(* whether it is relayed or buffered.                                      *)
LEMMA TakesOne ==
  ASSUME TypeOK, Control, Relay \/ Drain
  PROVE  Taken' = Taken + 1 /\ Taken \in Nat
<1>1. Rewrite(nread, Head(fromServer)) \in Replies
  BY TakeReply, RewriteFacts DEF Relay, Drain, PollNext, ReaderReady
<1>2. Len(Append(clientIn, Rewrite(nread, Head(fromServer)))) = Len(clientIn) + 1
      /\ Len(Append(buffer, Rewrite(nread, Head(fromServer)))) = Len(buffer) + 1
  BY <1>1, ChannelTypes, AppendFacts
<1>3. \/ Len(clientIn') = Len(clientIn) + 1 /\ UNCHANGED buffer
      \/ Len(buffer') = Len(buffer) + 1 /\ UNCHANGED clientIn
  BY <1>2 DEF Relay, Drain, explainVars
<1>4. Len(clientIn) \in Nat /\ Len(buffer) \in Nat
  BY ChannelTypes
<1>5. QED
  BY <1>3, <1>4 DEF Taken

(* A terminal reply in the socket is the last one the upstream sent. *)
LEMMA EndingNext == ChannelInv /\ [Next]_vars => Ending'
<1> SUFFICES ASSUME ChannelInv, [Next]_vars PROVE Ending'
  OBVIOUS
<1> USE DEF clientVars, serverVars, explainVars
<1>0. TypeOK /\ Control /\ Outgoing /\ Incoming /\ Pending /\ Ending
  BY DEF ChannelInv, IInv
<1>a. ASSUME UNCHANGED <<answered, clientIn, buffer, guard, reader>>,
             pc' # "closed" => pc # "closed", UNCHANGED fromServer \/ fromServer' = <<>>
      PROVE  Ending'
  BY <1>0, <1>a DEF Ending, Taken
<1>b. ASSUME guard' # "original" PROVE Ending'
  BY <1>b DEF Ending
<1>1. CASE Client
  BY <1>1, <1>a DEF Client, ClientSend, ClientClose
<1>2. ASSUME NEW more \in BOOLEAN, ServerAnswer(more) PROVE Ending'
  <2>1. UNCHANGED <<pc, guard, reader, clientIn, buffer>>
    BY <1>2 DEF ServerAnswer
  <2>2. /\ Len(answered') = Len(answered) + 1 /\ Len(fromServer') = Len(fromServer) + 1
        /\ guard = "original" /\ pc # "closed"
    BY <1>0, <1>2, AnswerFacts
  <2>3. ASSUME reader = "ok" PROVE Len(answered) = Taken + Len(fromServer)
    <3>1. \A i \in 1 .. Len(fromServer) : fromServer[i].more
      BY <1>0, <1>2, <2>3, Owes DEF ServerAnswer
    <3>2. \A i \in 1 .. Len(fromServer) : fromServer[i].body # "garbled"
      BY <1>0, <2>2, <2>3, <3>1 DEF Incoming
    <3>3. fromServer # <<>> => Len(fromServer) \in 1 .. Len(fromServer)
      BY <1>0, ChannelTypes
    <3>4. serverUp
      BY <1>2 DEF ServerAnswer, ServerWorks
    <3>5. QED
      BY <1>0, <2>2, <2>3, <3>2, <3>3, <3>4 DEF Pending
  <2>4. reader = "ok" => Len(answered') = Taken' + Len(fromServer')
    <3>1. Taken' = Taken /\ Taken \in Nat /\ Len(fromServer) \in Nat
      BY <1>0, <2>1, Lengths DEF Taken
    <3>2. QED
      BY <2>2, <2>3, <3>1
  <2>5. QED
    BY <2>1, <2>4 DEF Ending
<1>3. CASE ServerGarbles
  <2>1. [to |-> Head(toServer).id, seq |-> 0, body |-> "garbled", more |-> FALSE] \in Replies
    BY <1>0, <1>3, TakeRequest DEF ServerGarbles, ServerWorks, Replies, Bodies
  <2>2. fromServer'[Len(fromServer')].body = "garbled"
    BY <1>0, <1>3, <2>1, ChannelTypes, AppendFacts DEF ServerGarbles
  <2>3. QED
    BY <2>2 DEF Ending
<1>4. ASSUME NEW body \in {"full", "rejected"}, ServerExplain(body) PROVE Ending'
  <2>1. guard = "explain"
    BY <1>0, <1>4, Owes DEF ServerExplain
  <2>2. QED
    BY <1>4, <1>b, <2>1 DEF ServerExplain
<1>5. CASE ServerAbsorbs \/ ServerClose
  BY <1>5, <1>a DEF ServerAbsorbs, ServerClose
<1>6. CASE ReadRequest
  BY <1>0, <1>6, <1>b DEF ReadRequest, Control
<1>7. CASE ReadEnds \/ CallFails \/ RelayFails \/ StreamFails \/ ReplayFails
  BY <1>7, <1>b DEF ReadEnds, CallFails, RelayFails, StreamFails, ReplayFails, Close
<1>8. CASE Call
  BY <1>0, <1>8 DEF Call, Incoming, Ending
<1>9. CASE Relay \/ Drain
  <2>1. /\ fromServer # <<>> /\ reader = "ok" /\ fromServer' = Tail(fromServer)
        /\ guard = "original" /\ pc = "stream" /\ UNCHANGED <<answered, pc, reader>>
    BY <1>9 DEF Relay, Drain, PollNext, ReaderReady
  <2>2. /\ Len(fromServer) \in Nat \ {0} /\ Len(fromServer') = Len(fromServer) - 1
        /\ \A i \in 1 .. Len(fromServer') : fromServer'[i] = fromServer[i + 1]
    BY <1>0, <2>1, ChannelTypes, TailFacts
  <2>3. fromServer' # <<>> => fromServer'[Len(fromServer')] = fromServer[Len(fromServer)]
    <3>1. fromServer' # <<>> => Len(fromServer') \in 1 .. Len(fromServer')
      BY <1>0, <2>1, <2>2, TakeReply
    <3>2. QED
      BY <2>2, <3>1
  <2>4. Taken' = Taken + 1 /\ Taken \in Nat
    BY <1>0, <1>9, TakesOne
  <2>5. QED
    BY <1>0, <2>1, <2>2, <2>3, <2>4 DEF Ending
<1>10. CASE StreamEnds
  BY <1>10, <1>a DEF StreamEnds
<1>11. CASE ExplainCall \/ ExplainCallFails \/ ExplainDrain \/ ExplainStreamFails \/ ExplainEnds
  BY <1>11, <1>b DEF ExplainCall, ExplainCallFails, ExplainDrain, ExplainStreamFails,
     ExplainEnds, PollNext, PollError
<1>12. CASE Replay
  BY <1>0, <1>12, <1>b DEF Replay, Control
<1>13. CASE UNCHANGED vars
  BY <1>13, <1>a DEF vars
<1>14. QED
  BY <1>1, <1>2, <1>3, <1>4, <1>5, <1>6, <1>7, <1>8, <1>9, <1>10, <1>11, <1>12, <1>13
     DEF Next, Server, ServerResponds, Task, Terminated

(* A terminal reply completes the exchange: it was the last one owed. *)
LEMMA ExchangeCompletes ==
  ASSUME TypeOK, Control, Incoming, Pending, Ending, Relay \/ Drain, guard' # "original"
  PROVE  Len(answered') = Taken' /\ Finished'
<1>1. /\ fromServer # <<>> /\ reader = "ok" /\ guard = "original" /\ pc = "stream"
      /\ ~Head(fromServer).more /\ Head(fromServer).body # "garbled"
      /\ UNCHANGED <<answered, nread>>
  BY DEF Relay, Drain, PollNext, ReaderReady, Garbled, serverVars
<1>2. Len(fromServer) = 1 /\ Head(fromServer) = fromServer[1]
  BY <1>1, LastFrame, TakeReply
<1>3. Len(answered) = Taken + 1
  BY <1>1, <1>2 DEF Ending
<1>4. fromServer[1] = answered[Taken + 1] /\ fromServer[1].to = nread
  BY <1>1, <1>2 DEF Pending
<1>5. Taken' = Taken + 1 /\ Taken \in Nat
  BY TakesOne
<1>6. Finished
  BY <1>1, <1>2, <1>3, <1>4, <1>5 DEF Finished, Latest
<1>7. QED
  BY <1>1, <1>3, <1>5, <1>6, FinishedStable

(* Between two exchanges nothing is outstanding. *)
LEMMA ExchangedNext == ChannelInv /\ [Next]_vars => Exchanged'
<1> SUFFICES ASSUME ChannelInv, [Next]_vars PROVE Exchanged'
  OBVIOUS
<1> USE DEF clientVars, serverVars, explainVars
<1>0. /\ TypeOK /\ Control /\ Outgoing /\ Incoming /\ Pending /\ Ending
      /\ Addressed /\ Exchanged
  BY DEF ChannelInv, IInv
<1>a. ASSUME UNCHANGED <<answered, nread, clientIn, buffer>>,
             nread = 0 \/ log'[nread] = log[nread],
             guard' # "original" => guard # "original",
             pc' = "closed" \/ pc' = pc \/ (pc' \notin {"read", "call"} /\ pc \notin {"call", "closed"})
      PROVE  Exchanged'
  BY <1>0, <1>a, FinishedStable DEF Exchanged, Taken
<1>b. ASSUME pc' = "closed" PROVE Exchanged'
  BY <1>b DEF Exchanged
<1>1. CASE Client
  <2>1. nread = 0 \/ log'[nread] = log[nread]
    <3>1. ASSUME NEW k \in Kinds, log' = Append(log, k), nread \in 1 .. Len(log)
          PROVE  log'[nread] = log[nread]
      BY <1>0, <3>1, ChannelTypes, AppendFacts
    <3>2. nread = 0 \/ nread \in 1 .. Len(log)
      BY <1>0, ChannelTypes
    <3>3. QED
      BY <1>1, <3>1, <3>2 DEF Client, ClientSend, ClientClose
  <2>2. QED
    BY <1>1, <1>a, <2>1 DEF Client, ClientSend, ClientClose
<1>2. ASSUME NEW more \in BOOLEAN, ServerAnswer(more) PROVE Exchanged'
  <2>1. guard = "original" /\ pc = "stream"
    BY <1>0, <1>2, AnswerFacts
  <2>2. QED
    BY <1>2, <2>1 DEF ServerAnswer, Exchanged
<1>3. CASE ServerGarbles \/ ServerAbsorbs \/ ServerClose
           \/ \E body \in {"full", "rejected"} : ServerExplain(body)
  BY <1>3, <1>a DEF ServerGarbles, ServerAbsorbs, ServerClose, ServerExplain
<1>4. CASE ReadRequest
  <2>1. /\ pc = "read" /\ pc' = "call" /\ guard # "original"
        /\ UNCHANGED <<answered, clientIn, buffer>>
    BY <1>0, <1>4 DEF ReadRequest, Control
  <2>2. QED
    BY <1>0, <2>1 DEF Exchanged, Taken
<1>5. CASE ReadEnds \/ CallFails \/ RelayFails \/ StreamFails \/ ReplayFails
  BY <1>5, <1>b DEF ReadEnds, CallFails, RelayFails, StreamFails, ReplayFails, Close
<1>6. CASE Call
  <2>1. /\ pc = "call" /\ pc' = "stream" /\ guard = "free"
        /\ guard' # "original" => log'[nread'] = "oneway"
        /\ UNCHANGED <<answered, clientIn, buffer>>
    BY <1>6 DEF Call
  <2>2. QED
    BY <1>0, <2>1 DEF Exchanged, Taken
<1>7. CASE Relay \/ Drain
  <2>1. pc = "stream" /\ UNCHANGED pc
    BY <1>7 DEF Relay, Drain
  <2>2. guard' # "original" => Len(answered') = Taken' /\ Finished'
    BY <1>0, <1>7, ExchangeCompletes
  <2>3. QED
    BY <2>1, <2>2 DEF Exchanged
<1>8. CASE StreamEnds
  <2>1. CASE pc' \in {"replay", "explainCall"}
    BY <1>8, <1>a, <2>1 DEF StreamEnds
  <2>2. CASE ~ExplainOn /\ pc' = "read"
    <3>1. /\ pc = "stream" /\ guard = "free" /\ buffer = <<>>
          /\ UNCHANGED <<answered, nread, clientIn, buffer, log>>
      BY <1>0, <1>8, <2>2 DEF StreamEnds, Control
    <3>2. QED
      BY <1>0, <2>2, <3>1, FinishedStable DEF Exchanged, Taken
  <2>3. QED
    BY <1>8, <2>1, <2>2 DEF StreamEnds
<1>9. CASE ExplainCall \/ ExplainCallFails \/ ExplainDrain \/ ExplainStreamFails \/ ExplainEnds
  BY <1>9, <1>a DEF ExplainCall, ExplainCallFails, ExplainDrain, ExplainStreamFails,
     ExplainEnds, PollNext, PollError
<1>10. CASE Replay
  <2>1. /\ pc = "replay" /\ guard # "original" /\ UNCHANGED <<answered, nread, log>>
        /\ pc' = "replay" \/ (pc' = "read" /\ buffer' = <<>>)
    BY <1>0, <1>10 DEF Replay, Control
  <2>2. Taken' = Taken
    <3>1. CASE UNCHANGED <<clientIn, buffer>>
      BY <3>1 DEF Taken
    <3>2. CASE /\ buffer # <<>> /\ clientIn' = Append(clientIn, Head(buffer))
               /\ buffer' = Tail(buffer)
      <4>1. Len(clientIn') = Len(clientIn) + 1 /\ Len(buffer') = Len(buffer) - 1
            /\ Len(clientIn) \in Nat /\ Len(buffer) \in Nat
        BY <1>0, <3>2, ChannelTypes, TakeBuffered, TailFacts, AppendFacts
      <4>2. QED
        BY <4>1 DEF Taken
    <3>3. QED
      BY <1>10, <3>1, <3>2 DEF Replay
  <2>3. QED
    BY <1>0, <2>1, <2>2, FinishedStable DEF Exchanged
<1>11. CASE UNCHANGED vars
  BY <1>11, <1>a DEF vars
<1>12. QED
  BY <1>1, <1>2, <1>3, <1>4, <1>5, <1>6, <1>7, <1>8, <1>9, <1>10, <1>11
     DEF Next, Server, ServerResponds, Task, Terminated

-----------------------------------------------------------------------------
(* The invariant holds initially and throughout. *)
LEMMA ChannelAlways == Spec => []ChannelInv
<1>1. Init => ChannelInv
  <2> SUFFICES ASSUME Init PROVE ChannelInv
    OBVIOUS
  <2>1. IInv
    BY InitIInv
  <2>2. Addressed /\ Owing /\ Ending /\ Exchanged
    BY DEF Init, Addressed, Owing, Ending, Exchanged, Taken
  <2>3. QED
    BY <2>1, <2>2 DEF ChannelInv
<1>2. ChannelInv /\ [Next]_vars => ChannelInv'
  <2>1. ChannelInv /\ [Next]_vars => IInv'
    BY NextIInv DEF ChannelInv
  <2>2. QED
    BY <2>1, AddressedNext, OwingNext, EndingNext, ExchangedNext DEF ChannelInv
<1>3. QED
  BY <1>1, <1>2, PTL DEF Spec

(* A step that neither moves a message of the client nor closes does not   *)
(* show in the channel.                                                    *)
LEMMA Hidden ==
  ASSUME UNCHANGED <<log, nread, answered, clientIn>>, pc # "closed" <=> pc' # "closed"
  PROVE  UNCHANGED Channel!vars
  BY DEF Channel!vars

(* The task gives the connection up in the middle of a request. *)
LEMMA Closes ==
  ASSUME UNCHANGED <<log, nread, answered, clientIn>>, pc # "closed", pc' = "closed"
  PROVE  Channel!Next
  BY DEF Channel!Next, Channel!Close

(* When the task waits for a frame the channel has settled. *)
LEMMA Settles ==
  ASSUME ChannelInv, pc = "read"
  PROVE  Channel!Settled
<1>1. TypeOK /\ Control /\ Exchanged
  BY DEF ChannelInv, IInv
<1>2. guard # "original"
  BY <1>1 DEF Control
<1>3. Len(clientIn) = Len(answered)
  BY <1>1, <1>2, ChannelTypes DEF Exchanged, Taken
<1>4. nread = 0 \/ log[nread] = "oneway" \/ Finished
  BY <1>1, <1>2 DEF Exchanged
<1>5. QED
  BY <1>3, <1>4 DEF Channel!Settled, Channel!Begun, Channel!Last, Finished, Latest

(* The next reply in turn is handed to the client in the form Shown gives. *)
LEMMA Delivers ==
  ASSUME TypeOK, pc # "closed", UNCHANGED <<log, nread, answered, pc>>,
         Len(clientIn) < Len(answered),
         clientIn' = Append(clientIn, Rewrite(nread, answered[Len(clientIn) + 1]))
  PROVE  Channel!Next
  BY DEF Channel!Next, Channel!Deliver, Shown, Rewrite

(* Every step of the connection is a step of the channel or does not show. *)
LEMMA Simulates == ChannelInv /\ [Next]_vars => [Channel!Next]_(Channel!vars)
<1> SUFFICES ASSUME ChannelInv, [Next]_vars
             PROVE  Channel!Next \/ UNCHANGED Channel!vars
  OBVIOUS
<1> USE DEF clientVars, serverVars, explainVars
<1>0. /\ TypeOK /\ Control /\ Outgoing /\ Incoming /\ Delivered /\ Pending
      /\ Addressed /\ Owing /\ Exchanged
  BY DEF ChannelInv, IInv
<1>1. ASSUME NEW k \in Kinds, ClientSend(k) PROVE Channel!Next
  <2>1. log' = Append(log, k) /\ UNCHANGED <<nread, answered, clientIn, pc>>
    BY <1>1 DEF ClientSend
  <2>2. QED
    BY <2>1 DEF Channel!Next, Channel!Send
<1>2. CASE ClientClose
  BY <1>2, Hidden DEF ClientClose
<1>3. ASSUME NEW more \in BOOLEAN, ServerAnswer(more) PROVE Channel!Next
  <2>1. /\ guard = "original" /\ pc = "stream" /\ nread \in 1 .. Len(log)
        /\ answered' = Append(answered, Reply(nread, Len(answered) + 1, more))
    BY <1>0, <1>3, AnswerFacts
  <2>2. UNCHANGED <<log, nread, clientIn, pc>>
    BY <1>3 DEF ServerAnswer
  <2>3. log[nread] # "oneway"
    BY <1>0, <2>1 DEF Owing
  <2>4. ~Finished
    <3>1. 1 \in 1 .. Len(toServer) /\ toServer[1].kind # "oneway"
      <4>1. toServer # <<>> /\ Head(toServer).kind # "oneway"
        BY <1>3 DEF ServerAnswer, ServerWorks
      <4>2. QED
        BY <1>0, <4>1, ChannelTypes, TailFacts
    <3>2. QED
      BY <1>0, <2>1, <3>1 DEF Owing
  <2>5. ~Channel!Begun \/ Channel!Last.more
    BY <2>4 DEF Channel!Begun, Channel!Last, Finished, Latest
  <2>6. Channel!Answer
    BY <2>1, <2>2, <2>3, <2>5 DEF Channel!Answer
  <2>7. QED
    BY <2>6 DEF Channel!Next
<1>4. CASE ServerGarbles \/ ServerAbsorbs \/ ServerClose
           \/ \E body \in {"full", "rejected"} : ServerExplain(body)
  BY <1>4, Hidden DEF ServerGarbles, ServerAbsorbs, ServerClose, ServerExplain
<1>5. CASE ReadRequest
  <2>1. /\ pc = "read" /\ pc' = "call" /\ nread < Len(log) /\ nread' = nread + 1
        /\ UNCHANGED <<log, answered, clientIn>>
    BY <1>5 DEF ReadRequest
  <2>2. Channel!Take
    BY <2>1, Settles DEF Channel!Take
  <2>3. QED
    BY <2>2 DEF Channel!Next
<1>6. CASE ReadEnds
  <2>1. /\ pc = "read" /\ pc' = "closed" /\ UNCHANGED <<log, answered, clientIn>>
        /\ nread' = nread \/ (nread < Len(log) /\ nread' = nread + 1)
    BY <1>6 DEF ReadEnds, Close
  <2>2. Channel!Close
    BY <2>1, Settles DEF Channel!Close
  <2>3. QED
    BY <2>2 DEF Channel!Next
<1>7. CASE CallFails \/ RelayFails \/ StreamFails \/ ReplayFails
  BY <1>7, Closes DEF CallFails, RelayFails, StreamFails, ReplayFails, Close
<1>8. CASE Call \/ Drain \/ StreamEnds
  BY <1>8, Hidden DEF Call, Drain, StreamEnds
<1>9. CASE Relay
  <2>1. /\ pc = "stream" /\ guard = "original" /\ ReaderReady /\ ~Garbled /\ buffer = <<>>
        /\ UNCHANGED <<log, nread, answered, pc>>
        /\ clientIn' = Append(clientIn, Rewrite(nread, Head(fromServer)))
    BY <1>0, <1>9 DEF Relay, PollNext, Control
  <2>2. Taken = Len(clientIn) /\ Len(clientIn) \in Nat /\ Len(answered) \in Nat
    BY <1>0, <2>1, ChannelTypes DEF Taken
  <2>3. fromServer # <<>> /\ reader = "ok" /\ Head(fromServer).body # "garbled"
    BY <2>1 DEF ReaderReady, Garbled
  <2>4. Head(fromServer) = fromServer[1] /\ 1 \in 1 .. Len(fromServer)
    BY <1>0, <2>3, ChannelTypes, TailFacts
  <2>5. Taken + 1 <= Len(answered) /\ Head(fromServer) = answered[Taken + 1]
    BY <1>0, <2>1, <2>3, <2>4 DEF Pending
  <2>6. QED
    BY <1>0, <2>1, <2>2, <2>5, Delivers
<1>10. CASE ExplainCall \/ ExplainCallFails \/ ExplainDrain \/ ExplainStreamFails \/ ExplainEnds
  BY <1>10, Hidden DEF ExplainCall, ExplainCallFails, ExplainDrain, ExplainStreamFails, ExplainEnds
<1>11. CASE Replay
  <2>1. CASE buffer = <<>>
    BY <1>11, <2>1, Hidden DEF Replay
  <2>2. CASE buffer # <<>>
    <3>1. /\ pc = "replay" /\ UNCHANGED <<log, nread, answered, pc>>
          /\ clientIn' = Append(clientIn, Head(buffer))
      BY <1>11, <2>2 DEF Replay
    <3>2. Head(buffer) = buffer[1] /\ 1 \in 1 .. Len(buffer)
      BY <1>0, <2>2, ChannelTypes, TailFacts
    <3>3. /\ Len(clientIn) < Len(answered) /\ Len(clientIn) \in Nat /\ Len(answered) \in Nat
          /\ Head(buffer) = Expected(Len(clientIn) + 1)
      BY <1>0, <3>2, ChannelTypes DEF Delivered, Taken
    <3>4. answered[Len(clientIn) + 1].to = nread
      BY <1>0, <3>1, <3>3 DEF Addressed
    <3>5. QED
      BY <1>0, <3>1, <3>3, <3>4, Delivers DEF Expected
  <2>3. QED
    BY <2>1, <2>2
<1>12. CASE UNCHANGED vars
  BY <1>12, Hidden DEF vars
<1>13. QED
  BY <1>1, <1>2, <1>3, <1>4, <1>5, <1>6, <1>7, <1>8, <1>9, <1>10, <1>11, <1>12
     DEF Next, Client, Server, ServerResponds, Task, Terminated

(* accept_client_inner over the whole service stack, with any layers, any  *)
(* number of requests and replies and any failure of either side, is to    *)
(* its client a reply channel: one exchange at a time, answered in order   *)
(* and to the end before the next request is read.                         *)
THEOREM ConnectionIsReplyChannel == Spec => ImplementsChannel
<1>1. Init => Channel!Init
  BY DEF Init, Channel!Init
<1>2. ChannelInv /\ [Next]_vars => [Channel!Next]_(Channel!vars)
  BY Simulates
<1>3. QED
  BY <1>1, <1>2, ChannelAlways, PTL DEF Spec, ImplementsChannel, Channel!Spec
==============================================================================

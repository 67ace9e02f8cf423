------------------------ MODULE ProxyConnectionProofs ------------------------
(***************************************************************************)
(* For any number of requests and replies, with or without an ExplainLayer *)
(* and hello rewriting: the connection's state is well typed, the upstream *)
(* socket is quiet whenever no reply stream holds the guard, and the       *)
(* client receives exactly the upstream's replies in order.                *)
(***************************************************************************)
EXTENDS ProxyConnection, TLAPS

(* Replies taken from the upstream socket and still kept by the proxy or   *)
(* already with the client.                                                *)
Taken == Len(clientIn) + Len(buffer)

(* Where the task stands, who may hold the guard, and what an errored      *)
(* reader excludes.                                                        *)
Control ==
  /\ guard = "original" => pc = "stream"
  /\ guard = "explain" => pc = "explainStream"
  /\ pc \in {"call", "stream"} => nread >= 1
  /\ (pc = "call" /\ log[nread] = "oneway") => plan.outcome = "none"
  /\ ~ExplainOn => buffer = <<>>
  /\ reader = "errored" =>
       /\ pc \notin {"explainCall", "explainStream"}
       /\ (pc = "stream" /\ guard = "free") => plan.outcome = "none"

(* A request that expects a reply is the last one in the socket, is there  *)
(* only while a stream holds the guard, and is that stream's own.          *)
Outgoing ==
  /\ ~serverUp => toServer = <<>>
  /\ pc # "closed" =>
       \A i \in 1 .. Len(toServer) : toServer[i].kind # "oneway" =>
         /\ i = Len(toServer)
         /\ guard # "free"
         /\ guard = "original" =>
              toServer[i].id = nread /\ toServer[i].kind # "explain"
         /\ guard = "explain" => toServer[i].kind = "explain"

(* Only the last frame in the socket may end the exchange, and after it    *)
(* the upstream owes no reply.                                             *)
Incoming ==
  (pc # "closed" /\ reader = "ok") =>
    /\ guard = "free" => fromServer = <<>>
    /\ \A i \in 1 .. Len(fromServer) :
         /\ fromServer[i].more => fromServer[i].body # "garbled"
         /\ guard = "explain" => ~fromServer[i].more
         /\ ~fromServer[i].more =>
              /\ i = Len(fromServer)
              /\ \A j \in 1 .. Len(toServer) : toServer[j].kind = "oneway"

(* The k-th reply sent, as the client is to see it. *)
Expected(k) == Rewrite(answered[k].to, answered[k])

(* What the proxy has taken is a prefix of what the upstream sent. *)
Delivered ==
  /\ \A k \in 1 .. Len(answered) : answered[k].to \in 1 .. Len(log)
  /\ Taken <= Len(answered)
  /\ \A k \in 1 .. Len(clientIn) : clientIn[k] = Expected(k)
  /\ \A k \in 1 .. Len(buffer) : buffer[k] = Expected(Len(clientIn) + k)

(* What is still in the socket continues that prefix, without a gap as     *)
(* long as the upstream is up.                                             *)
Pending ==
  (pc # "closed" /\ reader = "ok") =>
    /\ guard = "original" =>
         \A i \in 1 .. Len(fromServer) : fromServer[i].body # "garbled" =>
           /\ Taken + i <= Len(answered)
           /\ fromServer[i] = answered[Taken + i]
           /\ fromServer[i].to = nread
    /\ serverUp =>
         \/ guard # "original" /\ Len(answered) = Taken
         \/ /\ guard = "original"
            /\ \/ Len(answered) = Taken + Len(fromServer)
               \/ /\ fromServer # <<>>
                  /\ fromServer[Len(fromServer)].body = "garbled"
                  /\ Len(answered) = Taken + Len(fromServer) - 1

(* The inductive invariant. *)
IInv == TypeOK /\ Control /\ Outgoing /\ Incoming /\ Delivered /\ Pending

-----------------------------------------------------------------------------
(* What Head, Tail and Append do to a sequence. *)
LEMMA TailFacts ==
  ASSUME NEW S, NEW s \in Seq(S), s # <<>>
  PROVE  /\ Len(s) \in Nat \ {0} /\ Head(s) = s[1] /\ Head(s) \in S
         /\ Tail(s) \in Seq(S) /\ Len(Tail(s)) = Len(s) - 1
         /\ \A i \in 1 .. Len(Tail(s)) : Tail(s)[i] = s[i + 1]
  OBVIOUS

(* What Append adds to a sequence. *)
LEMMA AppendFacts ==
  ASSUME NEW S, NEW s \in Seq(S), NEW e \in S
  PROVE  /\ Append(s, e) \in Seq(S) /\ Len(Append(s, e)) = Len(s) + 1
         /\ Len(s) \in Nat
         /\ \A i \in 1 .. Len(s) : Append(s, e)[i] = s[i]
         /\ Append(s, e)[Len(s) + 1] = e
  OBVIOUS

(* Rewriting changes nothing but the body. *)
LEMMA RewriteFacts ==
  ASSUME NEW n, NEW r \in Replies
  PROVE  Rewrite(n, r) \in Replies
  BY DEF Rewrite, Replies, Bodies

(* The first request, reply in the socket or buffered reply is taken. *)
LEMMA TakeRequest ==
  ASSUME TypeOK, toServer # <<>>
  PROVE  /\ Head(toServer) = toServer[1] /\ Head(toServer).id \in Int
         /\ Tail(toServer) \in Seq(Requests)
<1>1. toServer \in Seq(Requests)
  BY DEF TypeOK
<1>2. Head(toServer) = toServer[1] /\ Head(toServer) \in Requests
      /\ Tail(toServer) \in Seq(Requests)
  BY <1>1, TailFacts
<1>3. QED
  BY <1>2 DEF Requests

(* The head and the rest of a non-empty sequence of replies from upstream. *)
LEMMA TakeReply ==
  ASSUME TypeOK, fromServer # <<>>
  PROVE  /\ Head(fromServer) = fromServer[1] /\ Head(fromServer) \in Replies
         /\ Tail(fromServer) \in Seq(Replies)
<1>1. fromServer \in Seq(Replies)
  BY DEF TypeOK
<1>2. QED
  BY <1>1, TailFacts

(* The head and the rest of a non-empty replay buffer. *)
LEMMA TakeBuffered ==
  ASSUME TypeOK, buffer # <<>>
  PROVE  /\ Head(buffer) = buffer[1] /\ Head(buffer) \in Replies
         /\ Tail(buffer) \in Seq(Replies)
<1>1. buffer \in Seq(Replies)
  BY DEF TypeOK
<1>2. QED
  BY <1>1, TailFacts

(* A record of the sink is well typed. *)
LEMMA EmitType ==
  ASSUME TypeOK, NEW result \in {"event", "error"}, Emit(result)
  PROVE  sink' \in Seq(Records)
<1>1. [client |-> nread, explain |-> plan.id, result |-> result] \in Records
  BY DEF TypeOK, Records
<1>2. QED
  BY <1>1, AppendFacts DEF TypeOK, Emit

(* Writing a request upstream. *)
LEMMA WriteType ==
  ASSUME TypeOK, NEW m \in Requests, Write(m)
  PROVE  toServer' \in Seq(Requests)
  BY AppendFacts DEF TypeOK, Write

(* Polling the reply stream. *)
LEMMA PollType ==
  ASSUME TypeOK, NEW holder \in {"original", "explain"},
         PollNext(holder) \/ PollError(holder)
  PROVE  /\ fromServer' \in Seq(Replies)
         /\ guard' \in {"free", "original", "explain"}
         /\ reader' \in {"ok", "errored"}
  BY Zenon, TakeReply DEF TypeOK, PollNext, PollError, ReaderReady

(* Every step keeps the state well typed. *)
LEMMA TypeNext == TypeOK /\ Control /\ [Next]_vars => TypeOK'
<1> SUFFICES ASSUME TypeOK, Control, [Next]_vars PROVE TypeOK'
  OBVIOUS
<1> USE DEF clientVars, serverVars, explainVars
<1>1. ASSUME NEW k \in Kinds, ClientSend(k) PROVE TypeOK'
  BY <1>1, AppendFacts DEF TypeOK, ClientSend
<1>2. CASE ClientClose
  BY Zenon, <1>2 DEF TypeOK, ClientClose
<1>3. ASSUME NEW more \in BOOLEAN, ServerAnswer(more) PROVE TypeOK'
  <2>1. Head(toServer).id \in Int /\ Tail(toServer) \in Seq(Requests)
    BY <1>3, TakeRequest DEF ServerAnswer, ServerWorks
  <2> DEFINE r == [to |-> Head(toServer).id, seq |-> Len(answered) + 1,
                   body |-> "full", more |-> more]
  <2>2. r \in Replies
    BY <2>1 DEF TypeOK, Replies, Bodies
  <2>3. fromServer' \in Seq(Replies) /\ answered' \in Seq(Replies)
    BY <1>3, <2>2, AppendFacts DEF TypeOK, ServerAnswer
  <2>4. toServer' \in Seq(Requests) /\ streamed' \in Nat
    BY <1>3, <2>1 DEF TypeOK, ServerAnswer
  <2>5. QED
    BY <1>3, <2>3, <2>4 DEF TypeOK, ServerAnswer
<1>4. ASSUME NEW body \in {"full", "rejected"}, ServerExplain(body) PROVE TypeOK'
  <2>1. Head(toServer).id \in Int /\ Tail(toServer) \in Seq(Requests)
    BY <1>4, TakeRequest DEF ServerExplain, ServerWorks
  <2>2. [to |-> Head(toServer).id, seq |-> 0, body |-> body, more |-> FALSE]
          \in Replies
    BY <2>1 DEF Replies, Bodies
  <2>3. fromServer' \in Seq(Replies)
    BY <1>4, <2>2, AppendFacts DEF TypeOK, ServerExplain
  <2>4. QED
    BY <1>4, <2>1, <2>3 DEF TypeOK, ServerExplain
<1>5. CASE ServerGarbles
  <2>1. Head(toServer).id \in Int /\ Tail(toServer) \in Seq(Requests)
    BY <1>5, TakeRequest DEF ServerGarbles, ServerWorks
  <2>2. [to |-> Head(toServer).id, seq |-> 0, body |-> "garbled", more |-> FALSE]
          \in Replies
    BY <2>1 DEF Replies, Bodies
  <2>3. fromServer' \in Seq(Replies)
    BY <1>5, <2>2, AppendFacts DEF TypeOK, ServerGarbles
  <2>4. QED
    BY <1>5, <2>1, <2>3 DEF TypeOK, ServerGarbles
<1>6. CASE ServerAbsorbs
  BY <1>6, TakeRequest DEF TypeOK, ServerAbsorbs, ServerWorks
<1>7. CASE ServerClose
  <2>1. <<>> \in Seq(Requests) /\ <<>> \in Seq(Replies)
    OBVIOUS
  <2>2. QED
    BY Zenon, <1>7, <2>1 DEF TypeOK, ServerClose
<1>8. CASE ReadRequest
  <2>1. plan' \in [outcome : Outcomes, id : Int]
    BY <1>8, ConnectionAssumption
       DEF TypeOK, ReadRequest, Prepare, NoPlan, NoId, Outcomes
  <2>2. counter' \in MinId .. -1
    BY <1>8, ConnectionAssumption
       DEF TypeOK, ReadRequest, Prepare, CanAlloc, NoPlan, NoId
  <2>3. QED
    BY <1>8, <2>1, <2>2 DEF TypeOK, ReadRequest, Locations
<1>9. CASE ReadEnds
  BY <1>9 DEF TypeOK, ReadEnds, Close, Locations
<1>10. CASE Call
  <2>1. [id |-> nread, kind |-> log[nread]] \in Requests
    BY <1>10 DEF TypeOK, Control, Call, Requests
  <2>2. toServer' \in Seq(Requests)
    BY <1>10, <2>1, WriteType DEF Call
  <2>3. QED
    BY <1>10, <2>2 DEF TypeOK, Call, Locations
<1>11. CASE CallFails
  BY <1>11 DEF TypeOK, CallFails, Close, Locations
<1>12. CASE Relay
  <2>1. clientIn' \in Seq(Replies)
    BY <1>12, TakeReply, RewriteFacts, AppendFacts
       DEF TypeOK, Relay, PollNext, ReaderReady
  <2>2. QED
    BY <1>12, <2>1, PollType DEF TypeOK, Relay
<1>13. CASE RelayFails
  BY <1>13, TakeReply DEF TypeOK, RelayFails, ReaderReady, Close, Locations
<1>14. CASE Drain
  <2>1. buffer' \in Seq(Replies)
    BY <1>14, TakeReply, RewriteFacts, AppendFacts
       DEF TypeOK, Drain, PollNext, ReaderReady
  <2>2. QED
    BY <1>14, <2>1, PollType DEF TypeOK, Drain
<1>15. CASE StreamFails
  BY <1>15, PollType DEF TypeOK, StreamFails, Close, Locations
<1>16. CASE StreamEnds
  <2>1. sink' \in Seq(Records)
    BY <1>16, EmitType DEF TypeOK, StreamEnds
  <2>2. QED
    BY <1>16, <2>1 DEF TypeOK, StreamEnds, Locations
<1>17. CASE ExplainCall
  <2>1. [id |-> plan.id, kind |-> "explain"] \in Requests
    BY <1>17 DEF TypeOK, Requests
  <2>2. toServer' \in Seq(Requests)
    BY <1>17, <2>1, WriteType DEF ExplainCall
  <2>3. QED
    BY <1>17, <2>2 DEF TypeOK, ExplainCall, Locations
<1>18. CASE ExplainCallFails
  <2>1. sink' \in Seq(Records)
    BY <1>18, EmitType DEF ExplainCallFails
  <2>2. QED
    BY <1>18, <2>1 DEF TypeOK, ExplainCallFails, Locations
<1>19. CASE ExplainDrain
  <2>1. explainReplies' \in Seq(Replies)
    BY <1>19, TakeReply, AppendFacts DEF TypeOK, ExplainDrain, PollNext, ReaderReady
  <2>2. QED
    BY <1>19, <2>1, PollType DEF TypeOK, ExplainDrain
<1>20. CASE ExplainStreamFails
  <2>1. sink' \in Seq(Records)
    BY <1>20, EmitType DEF ExplainStreamFails
  <2>2. QED
    BY <1>20, <2>1, PollType DEF TypeOK, ExplainStreamFails, Locations
<1>21. CASE ExplainEnds
  <2>1. sink' \in Seq(Records)
    BY <1>21, EmitType DEF ExplainEnds
  <2>2. QED
    BY <1>21, <2>1 DEF TypeOK, ExplainEnds, Locations
<1>22. CASE Replay
  <2>1. clientIn' \in Seq(Replies) /\ buffer' \in Seq(Replies)
    <3>1. CASE buffer # <<>>
      <4>1. Head(buffer) \in Replies /\ Tail(buffer) \in Seq(Replies)
        BY <3>1, TakeBuffered
      <4>2. clientIn' = Append(clientIn, Head(buffer)) /\ buffer' = Tail(buffer)
        BY <1>22, <3>1 DEF Replay
      <4>3. clientIn \in Seq(Replies)
        BY DEF TypeOK
      <4>4. QED
        BY <4>1, <4>2, <4>3, AppendFacts
    <3>2. CASE buffer = <<>>
      BY <1>22, <3>2 DEF TypeOK, Replay
    <3>3. QED
      BY <3>1, <3>2
  <2>2. QED
    BY <1>22, <2>1 DEF TypeOK, Replay, Locations
<1>23. CASE ReplayFails
  BY <1>23 DEF TypeOK, ReplayFails, Close, Locations
<1>24. CASE UNCHANGED vars
  BY <1>24 DEF TypeOK, vars
<1>25. QED
  BY <1>1, <1>2, <1>3, <1>4, <1>5, <1>6, <1>7, <1>8, <1>9, <1>10, <1>11, <1>12,
     <1>13, <1>14, <1>15, <1>16, <1>17, <1>18, <1>19, <1>20, <1>21, <1>22, <1>23,
     <1>24
     DEF Next, Client, Server, ServerResponds, Task, Terminated

(* Every step keeps the task, the guard and the reader in step. *)
LEMMA ControlNext == TypeOK /\ Control /\ [Next]_vars => Control'
<1> SUFFICES ASSUME TypeOK, Control, [Next]_vars PROVE Control'
  OBVIOUS
<1> USE DEF clientVars, serverVars, explainVars
<1>0. /\ guard \in {"free", "original", "explain"} /\ reader \in {"ok", "errored"}
      /\ nread \in Nat /\ nread <= Len(log) /\ log \in Seq(Kinds)
  BY DEF TypeOK
<1>1. ASSUME NEW k \in Kinds, ClientSend(k) PROVE Control'
  <2>1. \A i \in 1 .. Len(log) : log'[i] = log[i]
    BY <1>0, <1>1, AppendFacts DEF ClientSend
  <2>2. QED
    BY <1>0, <1>1, <2>1 DEF Control, ClientSend
<1>2. CASE ClientClose
  BY <1>2 DEF Control, ClientClose
<1>3. ASSUME NEW more \in BOOLEAN, ServerAnswer(more) PROVE Control'
  BY <1>3 DEF Control, ServerAnswer
<1>4. ASSUME NEW body \in {"full", "rejected"}, ServerExplain(body) PROVE Control'
  BY <1>4 DEF Control, ServerExplain
<1>5. CASE ServerGarbles
  BY <1>5 DEF Control, ServerGarbles
<1>6. CASE ServerAbsorbs
  BY <1>6 DEF Control, ServerAbsorbs
<1>7. CASE ServerClose
  BY <1>7 DEF Control, ServerClose
<1>8. CASE ReadRequest
  BY <1>0, <1>8 DEF Control, ReadRequest, Prepare, NoPlan, Explainable
<1>9. CASE ReadEnds
  BY <1>9 DEF Control, ReadEnds, Close
<1>10. CASE Call
  BY <1>0, <1>10 DEF Control, Call
<1>11. CASE CallFails
  BY <1>11 DEF Control, CallFails, Close
<1>12. CASE Relay
  BY <1>12 DEF Control, Relay, PollNext, ReaderReady
<1>13. CASE RelayFails
  BY <1>13 DEF Control, RelayFails, Close
<1>14. CASE Drain
  BY <1>14 DEF Control, Drain, PollNext, ReaderReady
<1>15. CASE StreamFails
  BY <1>15 DEF Control, StreamFails, PollError, Close
<1>16. CASE StreamEnds
  BY <1>0, <1>16 DEF Control, StreamEnds
<1>17. CASE ExplainCall
  BY <1>17 DEF Control, ExplainCall
<1>18. CASE ExplainCallFails
  BY <1>0, <1>18 DEF Control, ExplainCallFails
<1>19. CASE ExplainDrain
  BY <1>19 DEF Control, ExplainDrain, PollNext, ReaderReady
<1>20. CASE ExplainStreamFails
  BY <1>20 DEF Control, ExplainStreamFails, PollError
<1>21. CASE ExplainEnds
  BY <1>0, <1>21 DEF Control, ExplainEnds
<1>22. CASE Replay
  BY <1>0, <1>22 DEF Control, Replay
<1>23. CASE ReplayFails
  BY <1>23 DEF Control, ReplayFails, Close
<1>24. CASE UNCHANGED vars
  BY <1>24 DEF Control, vars
<1>25. QED
  BY <1>1, <1>2, <1>3, <1>4, <1>5, <1>6, <1>7, <1>8, <1>9, <1>10, <1>11, <1>12,
     <1>13, <1>14, <1>15, <1>16, <1>17, <1>18, <1>19, <1>20, <1>21, <1>22, <1>23,
     <1>24
     DEF Next, Client, Server, ServerResponds, Task, Terminated

(* A frame that ends the exchange, or that cannot be decoded, is the last  *)
(* in the socket, and the upstream owes nothing after it.                  *)
LEMMA LastFrame ==
  ASSUME TypeOK, Incoming, pc # "closed", reader = "ok", fromServer # <<>>,
         ~Head(fromServer).more \/ Head(fromServer).body = "garbled"
  PROVE  /\ Len(fromServer) = 1
         /\ ~Head(fromServer).more
         /\ \A i \in 1 .. Len(toServer) : toServer[i].kind = "oneway"
<1>1. fromServer \in Seq(Replies)
  BY DEF TypeOK
<1>2. Len(fromServer) \in Nat \ {0} /\ Head(fromServer) = fromServer[1]
  BY <1>1, TailFacts
<1>3. 1 \in 1 .. Len(fromServer)
  BY <1>2
<1>4. ~fromServer[1].more
  BY <1>2, <1>3 DEF Incoming
<1>5. QED
  BY Zenon, <1>2, <1>3, <1>4 DEF Incoming

(* Every step leaves at most the current exchange's request in the socket. *)
LEMMA OutgoingNext ==
  TypeOK /\ Control /\ Outgoing /\ Incoming /\ [Next]_vars => Outgoing'
<1> SUFFICES ASSUME TypeOK, Control, Outgoing, Incoming, [Next]_vars
             PROVE  Outgoing'
  OBVIOUS
<1> USE DEF clientVars, serverVars, explainVars
<1>0. /\ guard \in {"free", "original", "explain"} /\ reader \in {"ok", "errored"}
      /\ toServer \in Seq(Requests) /\ serverUp \in BOOLEAN
  BY DEF TypeOK
(* Dropping the first request. *)
<1>a. ASSUME toServer # <<>>, toServer' = Tail(toServer),
             UNCHANGED <<pc, guard, nread, serverUp>>
      PROVE  Outgoing'
  <2>1. /\ Len(toServer') = Len(toServer) - 1 /\ Len(toServer) \in Nat
        /\ \A i \in 1 .. Len(toServer') : toServer'[i] = toServer[i + 1]
    BY <1>0, <1>a, TailFacts
  <2>2. serverUp
    BY <1>0, <1>a DEF Outgoing
  <2>3. ASSUME pc # "closed", NEW i \in 1 .. Len(toServer'),
               toServer'[i].kind # "oneway"
        PROVE  /\ i = Len(toServer')
               /\ guard # "free"
               /\ guard = "original" =>
                    toServer'[i].id = nread /\ toServer'[i].kind # "explain"
               /\ guard = "explain" => toServer'[i].kind = "explain"
    <3>1. i + 1 \in 1 .. Len(toServer) /\ toServer'[i] = toServer[i + 1]
      BY <2>1
    <3>2. QED
      BY <2>1, <2>3, <3>1 DEF Outgoing
  <2>4. QED
    BY <1>a, <2>2, <2>3 DEF Outgoing
(* Freeing the guard once the upstream owes no reply. *)
<1>b. ASSUME \A i \in 1 .. Len(toServer) : toServer[i].kind = "oneway",
             UNCHANGED <<toServer, serverUp>>
      PROVE  Outgoing'
  BY <1>b DEF Outgoing
<1>c. ASSUME pc' = "closed", UNCHANGED <<toServer, serverUp>> PROVE Outgoing'
  BY <1>c DEF Outgoing
<1>d. ASSUME guard = "free", pc # "closed"
      PROVE  \A i \in 1 .. Len(toServer) : toServer[i].kind = "oneway"
  BY <1>d DEF Outgoing
<1>1. ASSUME NEW k \in Kinds, ClientSend(k) PROVE Outgoing'
  BY <1>1 DEF Outgoing, ClientSend
<1>2. CASE ClientClose
  BY <1>2 DEF Outgoing, ClientClose
<1>3. ASSUME NEW more \in BOOLEAN, ServerAnswer(more) PROVE Outgoing'
  <2>1. CASE more
    BY <1>3, <2>1 DEF Outgoing, ServerAnswer
  <2>2. CASE ~more
    BY <1>3, <2>2, <1>a DEF ServerAnswer, ServerWorks
  <2>3. QED
    BY <2>1, <2>2
<1>4. ASSUME NEW body \in {"full", "rejected"}, ServerExplain(body) PROVE Outgoing'
  BY <1>4, <1>a DEF ServerExplain, ServerWorks
<1>5. CASE ServerGarbles
  BY <1>5, <1>a DEF ServerGarbles, ServerWorks
<1>6. CASE ServerAbsorbs
  BY <1>6, <1>a DEF ServerAbsorbs, ServerWorks
<1>7. CASE ServerClose
  BY <1>7 DEF Outgoing, ServerClose
<1>8. CASE ReadRequest
  BY <1>0, <1>8, <1>b, <1>d DEF ReadRequest, Control
<1>9. CASE ReadEnds
  BY <1>9, <1>c DEF ReadEnds, Close
<1>10. CASE Call
  <2> DEFINE m == [id |-> nread, kind |-> log[nread]]
  <2>1. \A i \in 1 .. Len(toServer) : toServer[i].kind = "oneway"
    BY <1>10, <1>d DEF Call
  <2>2. m \in Requests
    BY <1>10 DEF TypeOK, Control, Call, Requests
  <2>3. CASE ~serverUp
    BY <1>10, <2>1, <2>3, <1>b DEF Call, Write
  <2>4. CASE serverUp
    <3>1. toServer' = Append(toServer, m)
      BY <1>10, <2>4 DEF Call, Write
    <3>2. /\ Len(toServer') = Len(toServer) + 1 /\ Len(toServer) \in Nat
          /\ \A i \in 1 .. Len(toServer) : toServer'[i] = toServer[i]
          /\ toServer'[Len(toServer) + 1] = m
      BY <1>0, <2>2, <3>1, AppendFacts
    <3>3. m.kind # "explain"
      <4>1. log[nread] \in Kinds
        BY <1>10 DEF TypeOK, Control, Call
      <4>2. QED
        BY <4>1 DEF Kinds
    <3>4. QED
      BY <1>10, <2>1, <2>4, <3>2, <3>3 DEF Outgoing, Call
  <2>5. QED
    BY <1>0, <2>3, <2>4
<1>11. CASE CallFails
  BY <1>11, <1>c DEF CallFails, Close
<1>13. CASE RelayFails
  BY <1>13, <1>c DEF RelayFails, Close
<1>15. CASE StreamFails
  BY <1>15, <1>c DEF StreamFails, Close
<1>16. CASE StreamEnds
  BY <1>16, <1>b, <1>d DEF StreamEnds
<1>17. CASE ExplainCall
  <2> DEFINE m == [id |-> plan.id, kind |-> "explain"]
  <2>1. \A i \in 1 .. Len(toServer) : toServer[i].kind = "oneway"
    BY <1>17, <1>d DEF ExplainCall
  <2>2. m \in Requests
    BY DEF TypeOK, Requests
  <2>3. CASE ~serverUp
    BY <1>17, <2>1, <2>3, <1>b DEF ExplainCall, Write
  <2>4. CASE serverUp
    <3>1. toServer' = Append(toServer, m)
      BY <1>17, <2>4 DEF ExplainCall, Write
    <3>2. /\ Len(toServer') = Len(toServer) + 1 /\ Len(toServer) \in Nat
          /\ \A i \in 1 .. Len(toServer) : toServer'[i] = toServer[i]
          /\ toServer'[Len(toServer) + 1] = m
      BY <1>0, <2>2, <3>1, AppendFacts
    <3>3. QED
      BY <1>17, <2>1, <2>4, <3>2 DEF Outgoing, ExplainCall
  <2>5. QED
    BY <1>0, <2>3, <2>4
<1>18. CASE ExplainCallFails
  BY <1>18, <1>b, <1>d DEF ExplainCallFails
<1>21. CASE ExplainEnds
  BY <1>21, <1>b, <1>d DEF ExplainEnds
<1>22. CASE Replay
  BY <1>0, <1>22, <1>b, <1>d DEF Replay, Control
<1>23. CASE ReplayFails
  BY <1>23, <1>c DEF ReplayFails, Close
<1>24. CASE UNCHANGED vars
  BY <1>24 DEF Outgoing, vars
<1>12. CASE Relay
  <2>1. CASE Head(fromServer).more
    BY <1>12, <2>1 DEF Relay, PollNext, Outgoing
  <2>2. CASE ~Head(fromServer).more
    BY <1>12, <2>2, <1>b, LastFrame DEF Relay, PollNext, ReaderReady
  <2>3. QED
    BY <2>1, <2>2
<1>14. CASE Drain
  <2>1. CASE Head(fromServer).more
    BY <1>14, <2>1 DEF Drain, PollNext, Outgoing
  <2>2. CASE ~Head(fromServer).more
    BY <1>14, <2>2, <1>b, LastFrame DEF Drain, PollNext, ReaderReady
  <2>3. QED
    BY <2>1, <2>2
<1>19. CASE ExplainDrain
  <2>1. CASE Head(fromServer).more
    BY <1>19, <2>1 DEF ExplainDrain, PollNext, Outgoing
  <2>2. CASE ~Head(fromServer).more
    BY <1>19, <2>2, <1>b, LastFrame DEF ExplainDrain, PollNext, ReaderReady
  <2>3. QED
    BY <2>1, <2>2
<1>20. CASE ExplainStreamFails
  <2>1. reader = "ok" /\ pc # "closed"
    BY <1>0, <1>20 DEF Control, ExplainStreamFails
  <2>2. CASE ReaderEnded
    <3>1. toServer = <<>>
      BY <2>1, <2>2 DEF ReaderEnded, Outgoing
    <3>2. QED
      BY <1>20, <3>1, <1>b DEF ExplainStreamFails
  <2>3. CASE ReaderReady /\ Garbled
    BY <1>20, <2>1, <2>3, <1>b, LastFrame
       DEF ExplainStreamFails, ReaderReady, Garbled
  <2>4. QED
    BY <1>20, <2>2, <2>3 DEF ExplainStreamFails, PollError
<1>25. QED
  BY <1>1, <1>2, <1>3, <1>4, <1>5, <1>6, <1>7, <1>8, <1>9, <1>10, <1>11, <1>12,
     <1>13, <1>14, <1>15, <1>16, <1>17, <1>18, <1>19, <1>20, <1>21, <1>22, <1>23,
     <1>24
     DEF Next, Client, Server, ServerResponds, Task, Terminated

(* While the upstream owes a reply, the request is alone in the socket and *)
(* is the current stream's, and no frame so far ends the exchange.         *)
LEMMA Owes ==
  ASSUME TypeOK, Outgoing, Incoming, ServerWorks, Head(toServer).kind # "oneway"
  PROVE  /\ Len(toServer) = 1 /\ Len(Tail(toServer)) = 0
         /\ guard # "free"
         /\ guard = "original" => Head(toServer).id = nread
         /\ Head(toServer).kind = "explain" <=> guard = "explain"
         /\ reader = "ok" => \A i \in 1 .. Len(fromServer) : fromServer[i].more
         /\ (reader = "ok" /\ guard = "explain") => Len(fromServer) = 0
<1>1. /\ toServer \in Seq(Requests) /\ toServer # <<>> /\ fromServer \in Seq(Replies)
      /\ guard \in {"free", "original", "explain"} /\ pc # "closed"
  BY DEF TypeOK, ServerWorks
<1>2. /\ Len(toServer) \in Nat \ {0} /\ Head(toServer) = toServer[1]
      /\ Len(Tail(toServer)) = Len(toServer) - 1
  BY <1>1, TailFacts
<1>3. 1 \in 1 .. Len(toServer) /\ toServer[1].kind # "oneway"
  BY SMTT(30), <1>2
<1>4. /\ Len(toServer) = 1 /\ guard # "free"
      /\ guard = "original" => toServer[1].id = nread /\ toServer[1].kind # "explain"
      /\ guard = "explain" => toServer[1].kind = "explain"
  BY Zenon, <1>1, <1>2, <1>3 DEF Outgoing
<1>5. reader = "ok" => \A i \in 1 .. Len(fromServer) : fromServer[i].more
  BY <1>1, <1>3 DEF Incoming
<1>6. ASSUME reader = "ok", guard = "explain" PROVE Len(fromServer) = 0
  <2>1. \A i \in 1 .. Len(fromServer) : FALSE
    BY <1>1, <1>5, <1>6 DEF Incoming
  <2>2. Len(fromServer) \in Nat
    BY <1>1
  <2>3. QED
    BY <2>1, <2>2
<1>7. QED
  BY <1>1, <1>2, <1>4, <1>5, <1>6

(* Taking a frame from the socket. *)
LEMMA PollIncoming ==
  ASSUME TypeOK, Incoming, pc # "closed", NEW holder \in {"original", "explain"},
         PollNext(holder), UNCHANGED <<pc, toServer>>
  PROVE  Incoming'
<1>1. /\ fromServer \in Seq(Replies) /\ fromServer # <<>> /\ reader = "ok"
      /\ guard = holder /\ fromServer' = Tail(fromServer) /\ reader' = "ok"
  BY DEF TypeOK, PollNext, ReaderReady
<1>2. /\ Len(fromServer) \in Nat \ {0} /\ Len(fromServer') = Len(fromServer) - 1
      /\ fromServer' \in Seq(Replies)
      /\ \A i \in 1 .. Len(fromServer') : fromServer'[i] = fromServer[i + 1]
  BY <1>1, TailFacts
<1>3. CASE Head(fromServer).more
  <2>1. guard' = guard /\ guard # "free"
    BY <1>3 DEF PollNext
  <2>2. ASSUME NEW i \in 1 .. Len(fromServer')
        PROVE  /\ fromServer'[i].more => fromServer'[i].body # "garbled"
               /\ guard = "explain" => ~fromServer'[i].more
               /\ ~fromServer'[i].more =>
                    /\ i = Len(fromServer')
                    /\ \A j \in 1 .. Len(toServer) : toServer[j].kind = "oneway"
    <3>1. i + 1 \in 1 .. Len(fromServer) /\ fromServer'[i] = fromServer[i + 1]
      BY <1>2
    <3>2. /\ fromServer[i + 1].more => fromServer[i + 1].body # "garbled"
          /\ guard = "explain" => ~fromServer[i + 1].more
          /\ ~fromServer[i + 1].more =>
               /\ i + 1 = Len(fromServer)
               /\ \A j \in 1 .. Len(toServer) : toServer[j].kind = "oneway"
      BY <1>1, <3>1 DEF Incoming
    <3>3. QED
      BY <1>2, <3>1, <3>2
  <2>3. QED
    BY <2>1, <2>2 DEF Incoming
<1>4. CASE ~Head(fromServer).more
  <2>1. Len(fromServer') = 0
    BY <1>1, <1>2, <1>4, LastFrame
  <2>2. fromServer' = <<>>
    BY <1>2, <2>1
  <2>3. QED
    BY <2>1, <2>2 DEF Incoming
<1>5. QED
  BY <1>3, <1>4

(* Every step keeps the frames of one exchange in the socket, its end last. *)
LEMMA IncomingNext ==
  TypeOK /\ Control /\ Outgoing /\ Incoming /\ [Next]_vars => Incoming'
<1> SUFFICES ASSUME TypeOK, Control, Outgoing, Incoming, [Next]_vars
             PROVE  Incoming'
  OBVIOUS
<1> USE DEF clientVars, serverVars, explainVars
<1>0. /\ guard \in {"free", "original", "explain"} /\ reader \in {"ok", "errored"}
      /\ toServer \in Seq(Requests) /\ fromServer \in Seq(Replies)
  BY DEF TypeOK
<1>a. ASSUME pc = "closed" => pc' = "closed",
             UNCHANGED <<guard, reader, fromServer, toServer>>
      PROVE  Incoming'
  BY <1>a DEF Incoming
<1>b. ASSUME pc' = "closed" PROVE Incoming'
  BY <1>b DEF Incoming
<1>c. ASSUME fromServer' = <<>> PROVE Incoming'
  BY <1>c DEF Incoming
(* The upstream sends a frame r: the request is still owed after it, or it *)
(* ends the exchange.                                                      *)
<1>d. ASSUME NEW r \in Replies, ServerWorks, Head(toServer).kind # "oneway",
             fromServer' = Append(fromServer, r),
             UNCHANGED <<pc, guard, reader>>,
             r.more => r.body # "garbled" /\ guard # "explain",
             r.more \in BOOLEAN,
             ~r.more => toServer' = Tail(toServer)
      PROVE  Incoming'
  <2>1. /\ Len(fromServer') = Len(fromServer) + 1 /\ Len(fromServer) \in Nat
        /\ \A i \in 1 .. Len(fromServer) : fromServer'[i] = fromServer[i]
        /\ fromServer'[Len(fromServer) + 1] = r
    BY <1>0, <1>d, AppendFacts
  <2>2. /\ Len(Tail(toServer)) = 0 /\ guard # "free"
        /\ reader = "ok" => \A i \in 1 .. Len(fromServer) : fromServer[i].more
        /\ (reader = "ok" /\ guard = "explain") => Len(fromServer) = 0
    BY <1>d, Owes
  <2>3. ASSUME reader = "ok", NEW i \in 1 .. Len(fromServer')
        PROVE  /\ fromServer'[i].more => fromServer'[i].body # "garbled"
               /\ guard = "explain" => ~fromServer'[i].more
               /\ ~fromServer'[i].more =>
                    /\ i = Len(fromServer')
                    /\ \A j \in 1 .. Len(toServer') : toServer'[j].kind = "oneway"
    <3>1. CASE i \in 1 .. Len(fromServer)
      BY <1>d, <2>1, <2>2, <2>3, <3>1 DEF Incoming, ServerWorks
    <3>2. CASE i = Len(fromServer) + 1
      <4>1. fromServer'[i] = r /\ i = Len(fromServer')
        BY <2>1, <3>2
      <4>2. ~r.more => \A j \in 1 .. Len(toServer') : toServer'[j].kind = "oneway"
        <5>1. ~r.more => Len(toServer') = 0
          BY Zenon, <1>d, <2>2
        <5>2. QED
          BY <5>1
      <4>3. QED
        BY <1>d, <4>1, <4>2
    <3>3. QED
      BY <2>1, <3>1, <3>2
  <2>4. QED
    BY <1>d, <2>2, <2>3 DEF Incoming
<1>1. ASSUME NEW k \in Kinds, ClientSend(k) PROVE Incoming'
  BY <1>1, <1>a DEF ClientSend
<1>2. CASE ClientClose
  BY <1>2, <1>a DEF ClientClose
<1>3. ASSUME NEW more \in BOOLEAN, ServerAnswer(more) PROVE Incoming'
  <2> DEFINE r == [to |-> Head(toServer).id, seq |-> Len(answered) + 1,
                   body |-> "full", more |-> more]
  <2>1. Head(toServer).id \in Int
    BY <1>3, TakeRequest DEF ServerAnswer, ServerWorks
  <2>2. r \in Replies
    BY <2>1 DEF TypeOK, Replies, Bodies
  <2>3. guard # "explain"
    BY <1>3, Owes DEF ServerAnswer
  <2>4. QED
    BY <1>3, <2>2, <2>3, <1>d DEF ServerAnswer
<1>4. ASSUME NEW body \in {"full", "rejected"}, ServerExplain(body) PROVE Incoming'
  <2> DEFINE r == [to |-> Head(toServer).id, seq |-> 0, body |-> body, more |-> FALSE]
  <2>1. Head(toServer).id \in Int
    BY <1>4, TakeRequest DEF ServerExplain, ServerWorks
  <2>2. r \in Replies
    BY <2>1 DEF Replies, Bodies
  <2>3. QED
    BY Zenon, <1>4, <2>2, <1>d DEF ServerExplain
<1>5. CASE ServerGarbles
  <2> DEFINE r == [to |-> Head(toServer).id, seq |-> 0, body |-> "garbled",
                   more |-> FALSE]
  <2>1. Head(toServer).id \in Int
    BY <1>5, TakeRequest DEF ServerGarbles, ServerWorks
  <2>2. r \in Replies
    BY <2>1 DEF Replies, Bodies
  <2>3. QED
    BY Zenon, <1>5, <2>2, <1>d DEF ServerGarbles
<1>6. CASE ServerAbsorbs
  <2>1. /\ Len(Tail(toServer)) = Len(toServer) - 1 /\ Len(toServer) \in Nat
        /\ \A i \in 1 .. Len(Tail(toServer)) : Tail(toServer)[i] = toServer[i + 1]
    BY <1>0, <1>6, TailFacts DEF ServerAbsorbs, ServerWorks
  <2>2. (\A j \in 1 .. Len(toServer) : toServer[j].kind = "oneway") =>
          \A j \in 1 .. Len(toServer') : toServer'[j].kind = "oneway"
    BY <1>6, <2>1 DEF ServerAbsorbs
  <2>3. QED
    BY <1>6, <2>2 DEF ServerAbsorbs, Incoming
<1>7. CASE ServerClose
  <2>1. CASE fromServer' = <<>>
    BY <2>1, <1>c
  <2>2. CASE fromServer' = fromServer
    BY <1>7, <2>2 DEF ServerClose, Incoming
  <2>3. QED
    BY <1>7, <2>1, <2>2 DEF ServerClose
<1>8. CASE ReadRequest
  BY <1>8, <1>a DEF ReadRequest
<1>9. CASE ReadEnds
  BY <1>9, <1>b DEF ReadEnds, Close
<1>10. CASE Call
  <2>1. reader = "ok" => fromServer = <<>>
    BY <1>10 DEF Incoming, Call
  <2>2. CASE reader = "ok"
    BY <1>10, <2>1, <2>2, <1>c DEF Call
  <2>3. CASE reader = "errored"
    BY <1>10, <2>3 DEF Call, Incoming
  <2>4. QED
    BY <1>0, <2>2, <2>3
<1>11. CASE CallFails
  BY <1>11, <1>b DEF CallFails, Close
<1>12. CASE Relay
  BY <1>12, PollIncoming DEF Relay
<1>13. CASE RelayFails
  BY <1>13, <1>b DEF RelayFails, Close
<1>14. CASE Drain
  BY <1>14, PollIncoming DEF Drain
<1>15. CASE StreamFails
  BY <1>15, <1>b DEF StreamFails, Close
<1>16. CASE StreamEnds
  BY <1>16, <1>a DEF StreamEnds
<1>17. CASE ExplainCall
  <2>1. reader = "ok"
    BY SMTT(30), <1>0, <1>17 DEF Control, ExplainCall
  <2>2. fromServer = <<>>
    BY <1>17, <2>1 DEF Incoming, ExplainCall
  <2>3. QED
    BY <1>17, <2>2, <1>c DEF ExplainCall
<1>18. CASE ExplainCallFails
  BY <1>18, <1>a DEF ExplainCallFails
<1>19. CASE ExplainDrain
  BY <1>19, PollIncoming DEF ExplainDrain
<1>20. CASE ExplainStreamFails
  <2>1. reader = "ok"
    BY <1>0, <1>20 DEF Control, ExplainStreamFails
  <2>2. reader' = "errored" \/ fromServer' = <<>>
    BY <1>20, <2>1 DEF ExplainStreamFails, PollError, ReaderEnded
  <2>3. QED
    BY <2>2, <1>c DEF Incoming
<1>21. CASE ExplainEnds
  BY <1>21, <1>a DEF ExplainEnds
<1>22. CASE Replay
  BY <1>22, <1>a DEF Replay
<1>23. CASE ReplayFails
  BY <1>23, <1>b DEF ReplayFails, Close
<1>24. CASE UNCHANGED vars
  BY <1>24, <1>a DEF vars
<1>25. QED
  BY <1>1, <1>2, <1>3, <1>4, <1>5, <1>6, <1>7, <1>8, <1>9, <1>10, <1>11, <1>12,
     <1>13, <1>14, <1>15, <1>16, <1>17, <1>18, <1>19, <1>20, <1>21, <1>22, <1>23,
     <1>24
     DEF Next, Client, Server, ServerResponds, Task, Terminated

(* The next frame of the current exchange is the reply that follows the    *)
(* ones already taken.                                                     *)
LEMMA NextReply ==
  ASSUME TypeOK, Pending, pc # "closed", guard = "original", ReaderReady, ~Garbled
  PROVE  /\ Taken + 1 <= Len(answered)
         /\ Rewrite(nread, Head(fromServer)) = Expected(Taken + 1)
<1>1. fromServer \in Seq(Replies) /\ fromServer # <<>> /\ reader = "ok"
  BY DEF TypeOK, ReaderReady
<1>2. Len(fromServer) \in Nat \ {0} /\ Head(fromServer) = fromServer[1]
  BY <1>1, TailFacts
<1>3. 1 \in 1 .. Len(fromServer) /\ fromServer[1].body # "garbled"
  BY <1>2 DEF Garbled
<1>4. /\ Taken + 1 <= Len(answered) /\ fromServer[1] = answered[Taken + 1]
      /\ fromServer[1].to = nread
  BY <1>1, <1>3 DEF Pending
<1>5. QED
  BY <1>2, <1>4 DEF Expected

(* What has been sent stays sent, and a request's kind does not change. *)
LEMMA ExpectedStable ==
  ASSUME Delivered, NEW k \in 1 .. Len(answered), answered'[k] = answered[k],
         \A n \in 1 .. Len(log) : log'[n] = log[n]
  PROVE  Expected(k)' = Expected(k)
<1>1. answered[k].to \in 1 .. Len(log)
  BY DEF Delivered
<1>2. log'[answered'[k].to] = log[answered[k].to]
  BY <1>1
<1>3. QED
  BY <1>2 DEF Expected, Rewrite

(* Lengths of the sequences. *)
LEMMA Lengths ==
  ASSUME TypeOK
  PROVE  /\ Len(clientIn) \in Nat /\ Len(buffer) \in Nat /\ Len(answered) \in Nat
         /\ Len(fromServer) \in Nat /\ Len(log) \in Nat /\ Taken \in Nat
<1>1. /\ clientIn \in Seq(Replies) /\ buffer \in Seq(Replies)
      /\ answered \in Seq(Replies) /\ fromServer \in Seq(Replies)
      /\ log \in Seq(Kinds)
  BY DEF TypeOK
<1>2. /\ Len(clientIn) \in Nat /\ Len(buffer) \in Nat /\ Len(answered) \in Nat
      /\ Len(fromServer) \in Nat /\ Len(log) \in Nat
  BY <1>1
<1>3. QED
  BY <1>2 DEF Taken

(* A reply to the client's own request carries the current request's id. *)
LEMMA OwesOriginal ==
  ASSUME TypeOK, Control, Outgoing, Incoming, NEW more \in BOOLEAN,
         ServerAnswer(more)
  PROVE  /\ guard = "original" /\ Head(toServer).id = nread
         /\ nread \in 1 .. Len(log)
<1>1. guard # "free" /\ guard # "explain"
      /\ (guard = "original" => Head(toServer).id = nread)
  BY Owes DEF ServerAnswer
<1>2. guard = "original"
  BY <1>1 DEF TypeOK
<1>3. QED
  BY <1>1, <1>2 DEF TypeOK, Control

(* Every step keeps what was taken a prefix of what was sent. *)
LEMMA DeliveredNext ==
  IInv /\ [Next]_vars => Delivered'
<1> SUFFICES ASSUME IInv, [Next]_vars PROVE Delivered'
  OBVIOUS
<1> USE DEF clientVars, serverVars, explainVars
<1>0. /\ TypeOK /\ Control /\ Outgoing /\ Incoming /\ Delivered /\ Pending
      /\ clientIn \in Seq(Replies) /\ buffer \in Seq(Replies)
      /\ answered \in Seq(Replies) /\ fromServer \in Seq(Replies)
      /\ log \in Seq(Kinds)
  BY DEF IInv, TypeOK
<1>z. /\ Len(clientIn) \in Nat /\ Len(buffer) \in Nat /\ Len(answered) \in Nat
      /\ Len(log) \in Nat /\ Taken \in Nat
  BY <1>0, Lengths
(* Steps that take nothing. *)
<1>a. ASSUME UNCHANGED <<log, answered, clientIn, buffer>> PROVE Delivered'
  BY <1>0, <1>a DEF Delivered, Taken, Expected, Rewrite
(* The connection is closed: the buffer is dropped. *)
<1>b. ASSUME UNCHANGED <<log, answered, clientIn>>, buffer' = <<>> PROVE Delivered'
  <2>1. Len(buffer') = 0
    BY <1>b
  <2>2. Taken' <= Len(answered')
    BY <1>0, <1>z, <1>b, <2>1 DEF Delivered, Taken
  <2>3. QED
    BY <1>0, <1>b, <2>1, <2>2 DEF Delivered, Expected, Rewrite
<1>1. ASSUME NEW k \in Kinds, ClientSend(k) PROVE Delivered'
  <2>1. /\ \A n \in 1 .. Len(log) : log'[n] = log[n]
        /\ Len(log') = Len(log) + 1 /\ UNCHANGED <<answered, clientIn, buffer>>
    BY <1>0, <1>1, AppendFacts DEF ClientSend
  <2>2. \A i \in 1 .. Len(answered) : Expected(i)' = Expected(i)
    BY <1>0, <2>1, ExpectedStable
  <2>3. \A i \in 1 .. Len(answered') : answered'[i].to \in 1 .. Len(log')
    BY <1>0, <1>z, <2>1 DEF Delivered
  <2>4. Taken' = Taken /\ Taken <= Len(answered)
    BY <1>0, <2>1 DEF Delivered, Taken
  <2>5. \A i \in 1 .. Len(clientIn') : clientIn'[i] = Expected(i)'
    BY <1>0, <1>z, <2>1, <2>2, <2>4 DEF Delivered, Taken
  <2>6. \A i \in 1 .. Len(buffer') : buffer'[i] = Expected(Len(clientIn) + i)'
    BY <1>0, <1>z, <2>1, <2>2, <2>4 DEF Delivered, Taken
  <2>7. QED
    BY <2>1, <2>3, <2>4, <2>5, <2>6 DEF Delivered
<1>3. ASSUME NEW more \in BOOLEAN, ServerAnswer(more) PROVE Delivered'
  <2> DEFINE r == [to |-> Head(toServer).id, seq |-> Len(answered) + 1,
                   body |-> "full", more |-> more]
  <2>1. Head(toServer).id = nread /\ nread \in 1 .. Len(log)
    BY <1>0, <1>3, OwesOriginal
  <2>2. r \in Replies
    BY <1>z, <2>1 DEF Replies, Bodies
  <2>3. answered' = Append(answered, r) /\ UNCHANGED <<log, clientIn, buffer>>
    BY <1>3 DEF ServerAnswer
  <2>4. /\ Len(answered') = Len(answered) + 1
        /\ \A i \in 1 .. Len(answered) : answered'[i] = answered[i]
        /\ answered'[Len(answered) + 1] = r
    BY <1>0, <2>2, <2>3, AppendFacts
  <2>5. \A i \in 1 .. Len(answered) : Expected(i)' = Expected(i)
    BY <1>0, <2>3, <2>4, ExpectedStable
  <2>6. \A i \in 1 .. Len(answered') : answered'[i].to \in 1 .. Len(log')
    <3>1. ASSUME NEW i \in 1 .. Len(answered') PROVE answered'[i].to \in 1 .. Len(log')
      <4>1. CASE i \in 1 .. Len(answered)
        BY <1>0, <2>3, <2>4, <4>1 DEF Delivered
      <4>2. CASE i = Len(answered) + 1
        BY <2>1, <2>3, <2>4, <4>2
      <4>3. QED
        BY <1>z, <2>4, <4>1, <4>2
    <3>2. QED
      BY <3>1
  <2>7. Taken' = Taken /\ Taken <= Len(answered)
    BY <1>0, <2>3 DEF Delivered, Taken
  <2>8. \A i \in 1 .. Len(clientIn') : clientIn'[i] = Expected(i)'
    BY <1>0, <1>z, <2>3, <2>5, <2>7 DEF Delivered, Taken
  <2>9. \A i \in 1 .. Len(buffer') : buffer'[i] = Expected(Len(clientIn) + i)'
    BY <1>0, <1>z, <2>3, <2>5, <2>7 DEF Delivered, Taken
  <2>10. QED
    BY <1>z, <2>3, <2>4, <2>6, <2>7, <2>8, <2>9 DEF Delivered
<1>12. CASE Relay
  <2> DEFINE x == Rewrite(nread, Head(fromServer))
  <2>1. /\ clientIn' = Append(clientIn, x) /\ buffer = <<>>
        /\ UNCHANGED <<log, answered, buffer>>
    BY <1>0, <1>12 DEF Relay, Control
  <2>2. Taken = Len(clientIn) /\ Len(buffer) = 0
    BY <1>z, <2>1 DEF Taken
  <2>3. Taken + 1 <= Len(answered) /\ x = Expected(Taken + 1)
    BY <1>0, <1>12, NextReply DEF Relay, PollNext
  <2>4. x \in Replies
    BY <1>0, <1>12, TakeReply, RewriteFacts DEF Relay, PollNext, ReaderReady
  <2>5. /\ Len(clientIn') = Len(clientIn) + 1
        /\ \A i \in 1 .. Len(clientIn) : clientIn'[i] = clientIn[i]
        /\ clientIn'[Len(clientIn) + 1] = x
    BY <1>0, <2>1, <2>4, AppendFacts
  <2>6. \A i : Expected(i)' = Expected(i)
    BY <2>1 DEF Expected, Rewrite
  <2>7. \A i \in 1 .. Len(clientIn') : clientIn'[i] = Expected(i)
    BY <1>0, <1>z, <2>2, <2>3, <2>5 DEF Delivered
  <2>8. Taken' <= Len(answered')
    BY <1>z, <2>1, <2>2, <2>3, <2>5 DEF Taken
  <2>9. QED
    BY <1>0, <2>1, <2>2, <2>6, <2>7, <2>8 DEF Delivered
<1>14. CASE Drain
  <2> DEFINE x == Rewrite(nread, Head(fromServer))
  <2>1. buffer' = Append(buffer, x) /\ UNCHANGED <<log, answered, clientIn>>
    BY <1>14 DEF Drain
  <2>3. Taken + 1 <= Len(answered) /\ x = Expected(Taken + 1)
    BY <1>0, <1>14, NextReply DEF Drain, PollNext
  <2>4. x \in Replies
    BY <1>0, <1>14, TakeReply, RewriteFacts DEF Drain, PollNext, ReaderReady
  <2>5. /\ Len(buffer') = Len(buffer) + 1
        /\ \A i \in 1 .. Len(buffer) : buffer'[i] = buffer[i]
        /\ buffer'[Len(buffer) + 1] = x
    BY <1>0, <2>1, <2>4, AppendFacts
  <2>6. \A i : Expected(i)' = Expected(i)
    BY <2>1 DEF Expected, Rewrite
  <2>7. \A i \in 1 .. Len(buffer') : buffer'[i] = Expected(Len(clientIn) + i)
    <3>1. ASSUME NEW i \in 1 .. Len(buffer')
          PROVE  buffer'[i] = Expected(Len(clientIn) + i)
      <4>1. CASE i \in 1 .. Len(buffer)
        BY <1>0, <2>5, <4>1 DEF Delivered
      <4>2. CASE i = Len(buffer) + 1
        <5>1. Len(clientIn) + i = Taken + 1
          BY <1>z, <4>2 DEF Taken
        <5>2. QED
          BY <2>3, <2>5, <4>2, <5>1
      <4>3. QED
        BY <1>z, <2>5, <4>1, <4>2
    <3>2. QED
      BY <3>1
  <2>8. Taken' <= Len(answered')
    BY <1>z, <2>1, <2>3, <2>5 DEF Taken
  <2>9. QED
    BY <1>0, <2>1, <2>6, <2>7, <2>8 DEF Delivered
<1>22. CASE Replay
  <2>1. CASE buffer = <<>>
    BY <1>22, <2>1, <1>a DEF Replay
  <2>2. CASE buffer # <<>>
    <3>1. /\ clientIn' = Append(clientIn, Head(buffer)) /\ buffer' = Tail(buffer)
          /\ UNCHANGED <<log, answered>>
      BY <1>22, <2>2 DEF Replay
    <3>2. /\ Len(buffer) \in Nat \ {0} /\ Head(buffer) = buffer[1]
          /\ Head(buffer) \in Replies /\ Len(buffer') = Len(buffer) - 1
          /\ \A i \in 1 .. Len(buffer') : buffer'[i] = buffer[i + 1]
      BY <1>0, <2>2, <3>1, TailFacts
    <3>3. /\ Len(clientIn') = Len(clientIn) + 1
          /\ \A i \in 1 .. Len(clientIn) : clientIn'[i] = clientIn[i]
          /\ clientIn'[Len(clientIn) + 1] = Head(buffer)
      BY <1>0, <3>1, <3>2, AppendFacts
    <3>4. \A i : Expected(i)' = Expected(i)
      BY <3>1 DEF Expected, Rewrite
    <3>5. Head(buffer) = Expected(Len(clientIn) + 1)
      BY <1>0, <3>2 DEF Delivered
    <3>6. \A i \in 1 .. Len(clientIn') : clientIn'[i] = Expected(i)
      <4>1. ASSUME NEW i \in 1 .. Len(clientIn') PROVE clientIn'[i] = Expected(i)
        <5>1. CASE i \in 1 .. Len(clientIn)
          BY <1>0, <3>3, <5>1 DEF Delivered
        <5>2. CASE i = Len(clientIn) + 1
          BY <3>3, <3>5, <5>2
        <5>3. QED
          BY <1>z, <3>3, <5>1, <5>2
      <4>2. QED
        BY <4>1
    <3>7. \A i \in 1 .. Len(buffer') : buffer'[i] = Expected(Len(clientIn') + i)
      <4>1. ASSUME NEW i \in 1 .. Len(buffer')
            PROVE  buffer'[i] = Expected(Len(clientIn') + i)
        <5>1. i + 1 \in 1 .. Len(buffer) /\ buffer'[i] = buffer[i + 1]
          BY <3>2
        <5>2. buffer[i + 1] = Expected(Len(clientIn) + (i + 1))
          BY <1>0, <5>1 DEF Delivered
        <5>3. Len(clientIn) + (i + 1) = Len(clientIn') + i
          BY <1>z, <3>3
        <5>4. QED
          BY <5>1, <5>2, <5>3
      <4>2. QED
        BY <4>1
    <3>8. Taken' <= Len(answered')
      BY <1>0, <1>z, <3>1, <3>2, <3>3 DEF Taken, Delivered
    <3>9. QED
      BY SMTT(30), <1>0, <3>1, <3>4, <3>6, <3>7, <3>8 DEF Delivered
  <2>3. QED
    BY <2>1, <2>2
<1>30. CASE ClientClose \/ ServerGarbles \/ ServerAbsorbs \/ ServerClose
  BY <1>30, <1>a DEF ClientClose, ServerGarbles, ServerAbsorbs, ServerClose
<1>31. ASSUME NEW body \in {"full", "rejected"}, ServerExplain(body) PROVE Delivered'
  BY <1>31, <1>a DEF ServerExplain
<1>32. CASE ReadRequest \/ Call \/ StreamEnds
  BY <1>32, <1>a DEF ReadRequest, Call, StreamEnds
<1>33. CASE ExplainCall \/ ExplainCallFails \/ ExplainDrain
            \/ ExplainStreamFails \/ ExplainEnds
  BY <1>33, <1>a DEF ExplainCall, ExplainCallFails, ExplainDrain,
                     ExplainStreamFails, ExplainEnds
<1>34. CASE ReadEnds \/ CallFails \/ RelayFails \/ StreamFails \/ ReplayFails
  BY <1>34, <1>b DEF ReadEnds, CallFails, RelayFails, StreamFails, ReplayFails, Close
<1>35. CASE UNCHANGED vars
  BY <1>35, <1>a DEF vars
<1>36. QED
  BY <1>1, <1>3, <1>12, <1>14, <1>22, <1>30, <1>31, <1>32, <1>33, <1>34, <1>35
     DEF Next, Client, Server, ServerResponds, Task, Terminated

(* Every step keeps the frames waiting on the socket in step with what the *)
(* upstream has sent.                                                      *)
LEMMA PendingNext ==
  IInv /\ [Next]_vars => Pending'
<1> SUFFICES ASSUME IInv, [Next]_vars PROVE Pending'
  OBVIOUS
<1> USE DEF clientVars, serverVars, explainVars
<1>0. /\ TypeOK /\ Control /\ Outgoing /\ Incoming /\ Delivered /\ Pending
      /\ clientIn \in Seq(Replies) /\ buffer \in Seq(Replies)
      /\ answered \in Seq(Replies) /\ fromServer \in Seq(Replies)
      /\ log \in Seq(Kinds)
  BY DEF IInv, TypeOK
<1>z. /\ Len(clientIn) \in Nat /\ Len(buffer) \in Nat /\ Len(answered) \in Nat
      /\ Len(fromServer) \in Nat /\ Taken \in Nat
  BY <1>0, Lengths
(* Steps that leave the exchange alone. *)
<1>a. ASSUME UNCHANGED <<answered, clientIn, buffer, guard, reader, fromServer,
                         nread, serverUp>>, pc = "closed" => pc' = "closed"
      PROVE  Pending'
  BY <1>0, <1>a DEF Pending, Taken
(* Steps outside an exchange of the client's own request. *)
<1>b. ASSUME UNCHANGED <<answered, clientIn, buffer, serverUp>>,
             guard # "original", guard' # "original", pc # "closed",
             reader' = "ok" => reader = "ok"
      PROVE  Pending'
  BY <1>0, <1>b DEF Pending, Taken
(* A frame of the exchange is taken. *)
<1>c. ASSUME PollNext("original"), guard = "original", pc # "closed", Taken' = Taken + 1,
             UNCHANGED <<answered, nread, serverUp>>
      PROVE  Pending'
  <2>1. /\ fromServer # <<>> /\ reader = "ok" /\ ~Garbled /\ reader' = reader
        /\ fromServer' = Tail(fromServer)
        /\ guard' = IF Head(fromServer).more THEN guard ELSE "free"
    BY <1>c DEF PollNext, ReaderReady
  <2>2. /\ Len(fromServer) \in Nat \ {0} /\ Head(fromServer) = fromServer[1]
        /\ Len(fromServer') = Len(fromServer) - 1
        /\ \A i \in 1 .. Len(fromServer') : fromServer'[i] = fromServer[i + 1]
    BY <1>0, <2>1, TailFacts
  <2>3. fromServer[1].body # "garbled"
    BY <2>1, <2>2 DEF Garbled
  <2>4. serverUp => \/ Len(answered) = Taken + Len(fromServer)
                    \/ /\ fromServer[Len(fromServer)].body = "garbled"
                       /\ Len(answered) = Taken + Len(fromServer) - 1
    BY <1>0, <1>c, <2>1 DEF Pending
  <2>5. CASE ~Head(fromServer).more
    <3>1. Len(fromServer) = 1
      BY <1>0, <1>c, <2>1, <2>5, LastFrame
    <3>2. serverUp => Len(answered) = Taken + 1
      BY <1>z, <2>3, <2>4, <3>1
    <3>3. QED
      BY <1>c, <2>1, <2>5, <3>2 DEF Pending
  <2>6. CASE Head(fromServer).more
    <3>1. guard' = "original"
      BY <1>c, <2>1, <2>6
    <3>2. ASSUME NEW i \in 1 .. Len(fromServer'), fromServer'[i].body # "garbled"
          PROVE  /\ Taken' + i <= Len(answered)
                 /\ fromServer'[i] = answered[Taken' + i]
                 /\ fromServer'[i].to = nread
      <4>1. i + 1 \in 1 .. Len(fromServer) /\ fromServer'[i] = fromServer[i + 1]
        BY <2>2
      <4>2. /\ Taken + (i + 1) <= Len(answered)
            /\ fromServer[i + 1] = answered[Taken + (i + 1)]
            /\ fromServer[i + 1].to = nread
        BY <1>0, <1>c, <2>1, <3>2, <4>1 DEF Pending
      <4>3. Taken + (i + 1) = Taken' + i
        BY <1>z, <1>c
      <4>4. QED
        BY <4>1, <4>2, <4>3
    <3>3. ASSUME serverUp
          PROVE  \/ Len(answered) = Taken' + Len(fromServer')
                 \/ /\ fromServer' # <<>>
                    /\ fromServer'[Len(fromServer')].body = "garbled"
                    /\ Len(answered) = Taken' + Len(fromServer') - 1
      <4>1. CASE Len(answered) = Taken + Len(fromServer)
        BY <1>z, <1>c, <2>2, <4>1
      <4>2. CASE /\ fromServer[Len(fromServer)].body = "garbled"
                 /\ Len(answered) = Taken + Len(fromServer) - 1
        <5>1. Len(fromServer) # 1
          BY <2>3, <4>2
        <5>2. Len(fromServer') \in 1 .. Len(fromServer')
              /\ Len(fromServer') + 1 = Len(fromServer)
          BY <2>2, <5>1
        <5>3. fromServer'[Len(fromServer')].body = "garbled"
          BY <2>2, <4>2, <5>2
        <5>4. fromServer' # <<>>
          BY <5>2
        <5>5. Len(answered) = Taken' + Len(fromServer') - 1
          BY <1>z, <1>c, <2>2, <4>2
        <5>6. QED
          BY <5>3, <5>4, <5>5
      <4>3. QED
        BY <2>4, <3>3, <4>1, <4>2
    <3>4. QED
      BY <1>c, <3>1, <3>2, <3>3 DEF Pending
  <2>7. QED
    BY <2>5, <2>6
<1>1. ASSUME NEW more \in BOOLEAN, ServerAnswer(more) PROVE Pending'
  <2> DEFINE r == [to |-> Head(toServer).id, seq |-> Len(answered) + 1,
                   body |-> "full", more |-> more]
  <2>1. guard = "original" /\ Head(toServer).id = nread /\ nread \in 1 .. Len(log)
    BY <1>0, <1>1, OwesOriginal
  <2>2. r \in Replies
    BY <1>z, <2>1 DEF Replies, Bodies
  <2>3. /\ answered' = Append(answered, r) /\ fromServer' = Append(fromServer, r)
        /\ serverUp
        /\ UNCHANGED <<clientIn, buffer, guard, reader, nread, serverUp, pc>>
    BY <1>1 DEF ServerAnswer, ServerWorks
  <2>4. /\ Len(answered') = Len(answered) + 1
        /\ \A i \in 1 .. Len(answered) : answered'[i] = answered[i]
        /\ answered'[Len(answered) + 1] = r
    BY <1>0, <2>2, <2>3, AppendFacts
  <2>5. /\ Len(fromServer') = Len(fromServer) + 1
        /\ \A i \in 1 .. Len(fromServer) : fromServer'[i] = fromServer[i]
        /\ fromServer'[Len(fromServer) + 1] = r
    BY <1>0, <2>2, <2>3, AppendFacts
  <2>6. Taken' = Taken
    BY <2>3 DEF Taken
  <2>7. ASSUME pc # "closed", reader = "ok"
        PROVE  Len(answered) = Taken + Len(fromServer)
    <3>1. \A i \in 1 .. Len(fromServer) : fromServer[i].body # "garbled"
      BY <1>0, <1>1, <2>7, Owes DEF ServerAnswer, Incoming
    <3>2. fromServer # <<>> => Len(fromServer) \in 1 .. Len(fromServer)
      BY <1>0, TailFacts
    <3>3. QED
      BY <1>0, <2>1, <2>3, <2>7, <3>1, <3>2 DEF Pending
  <2>8. ASSUME pc # "closed", reader = "ok", NEW i \in 1 .. Len(fromServer'),
               fromServer'[i].body # "garbled"
        PROVE  /\ Taken + i <= Len(answered')
               /\ fromServer'[i] = answered'[Taken + i]
               /\ fromServer'[i].to = nread
    <3>1. CASE i \in 1 .. Len(fromServer)
      <4>1. fromServer'[i] = fromServer[i]
        BY <2>5, <3>1
      <4>2. /\ Taken + i <= Len(answered) /\ fromServer[i] = answered[Taken + i]
            /\ fromServer[i].to = nread
        BY <1>0, <2>1, <2>8, <3>1, <4>1 DEF Pending
      <4>3. Taken + i \in 1 .. Len(answered)
        BY <1>z, <3>1, <4>2
      <4>4. QED
        BY SMTT(30), <1>z, <2>4, <4>1, <4>2, <4>3
    <3>2. CASE i = Len(fromServer) + 1
      <4>1. Taken + i = Len(answered) + 1
        BY <1>z, <2>7, <2>8, <3>2
      <4>2. QED
        BY <1>z, <2>1, <2>4, <2>5, <3>2, <4>1
    <3>3. QED
      BY SMTT(30), <1>z, <2>5, <3>1, <3>2
  <2>9. ASSUME pc # "closed", reader = "ok"
        PROVE  Len(answered') = Taken + Len(fromServer')
    BY <1>z, <2>4, <2>5, <2>7, <2>9
  <2>10. QED
    BY Zenon, <2>1, <2>3, <2>6, <2>8, <2>9 DEF Pending
<1>2. ASSUME NEW body \in {"full", "rejected"}, ServerExplain(body) PROVE Pending'
  <2>1. guard = "explain" /\ UNCHANGED <<answered, clientIn, buffer, guard, reader, pc, serverUp>>
    BY <1>0, <1>2, Owes DEF ServerExplain, TypeOK
  <2>2. QED
    BY <1>0, <2>1 DEF Pending, Taken
<1>3. CASE ServerGarbles
  <2> DEFINE r == [to |-> Head(toServer).id, seq |-> 0, body |-> "garbled",
                   more |-> FALSE]
  <2>1. /\ fromServer' = Append(fromServer, r) /\ serverUp /\ pc # "closed"
        /\ UNCHANGED <<answered, clientIn, buffer, guard, reader, nread, serverUp, pc>>
    BY <1>3 DEF ServerGarbles, ServerWorks
  <2>2. guard # "free" /\ (reader = "ok" => \A i \in 1 .. Len(fromServer) : fromServer[i].more)
    BY <1>0, <1>3, Owes DEF ServerGarbles
  <2>3. CASE guard = "explain"
    BY <1>b, <2>1, <2>3
  <2>4. CASE guard = "original" /\ reader = "ok"
    <3>1. r \in Replies
      BY SMTT(30), <1>0, <1>3, TakeRequest DEF ServerGarbles, ServerWorks, Requests, Replies, Bodies
    <3>2. /\ Len(fromServer') = Len(fromServer) + 1
          /\ \A i \in 1 .. Len(fromServer) : fromServer'[i] = fromServer[i]
          /\ fromServer'[Len(fromServer) + 1] = r
      BY SMTT(30), <1>0, <2>1, <3>1, AppendFacts
    <3>3. fromServer # <<>> => Len(fromServer) \in 1 .. Len(fromServer)
      BY <1>0, TailFacts
    <3>4. Len(answered) = Taken + Len(fromServer)
      BY Zenon, <1>0, <2>1, <2>2, <2>4, <3>3 DEF Pending, Incoming
    <3>5. ASSUME NEW i \in 1 .. Len(fromServer'), fromServer'[i].body # "garbled"
          PROVE  /\ Taken + i <= Len(answered)
                 /\ fromServer'[i] = answered[Taken + i]
                 /\ fromServer'[i].to = nread
      <4>1. i \in 1 .. Len(fromServer)
        BY SMTT(30), <1>z, <3>2, <3>5
      <4>2. QED
        BY Zenon, <1>0, <2>1, <2>4, <3>2, <3>5, <4>1 DEF Pending
    <3>6. /\ fromServer'[Len(fromServer')].body = "garbled"
          /\ Len(answered) = Taken + Len(fromServer') - 1
      BY <1>z, <3>2, <3>4
    <3>7. Taken' = Taken
      BY <2>1 DEF Taken
    <3>8. fromServer' # <<>>
      BY <1>z, <3>2
    <3>9. QED
      BY <2>1, <2>4, <3>5, <3>6, <3>7, <3>8 DEF Pending
  <2>5. CASE reader # "ok"
    BY <2>1, <2>5 DEF Pending
  <2>6. QED
    BY <1>0, <2>2, <2>3, <2>4, <2>5 DEF TypeOK
<1>4. CASE ServerClose
  <2>1. /\ ~serverUp' /\ fromServer' \in {fromServer, <<>>} /\ pc # "closed"
        /\ UNCHANGED <<answered, clientIn, buffer, guard, reader, nread, pc>>
    BY <1>4 DEF ServerClose
  <2>2. Taken' = Taken
    BY <2>1 DEF Taken
  <2>3. CASE fromServer' = fromServer
    BY <1>0, <2>1, <2>2, <2>3 DEF Pending
  <2>4. CASE fromServer' = <<>>
    <3>1. Len(fromServer') = 0
      BY <2>4
    <3>2. QED
      BY <2>1, <3>1 DEF Pending
  <2>5. QED
    BY <2>1, <2>3, <2>4
<1>5. CASE Call
  <2>1. /\ guard = "free" /\ pc # "closed"
        /\ UNCHANGED <<answered, clientIn, buffer, reader, fromServer, nread, serverUp>>
    BY <1>5 DEF Call
  <2>2. CASE guard' # "original"
    BY <1>b, <2>1, <2>2
  <2>3. CASE guard' = "original" /\ reader = "ok"
    <3>1. Len(fromServer) = 0 /\ (serverUp => Len(answered) = Taken)
      BY <1>0, <2>1, <2>3 DEF Incoming, Pending
    <3>2. Taken' = Taken
      BY <2>1 DEF Taken
    <3>3. serverUp => Len(answered) = Taken + Len(fromServer)
      BY <1>z, <3>1
    <3>4. QED
      BY <2>1, <2>3, <3>1, <3>2, <3>3 DEF Pending
  <2>4. CASE reader # "ok"
    BY <2>1, <2>4 DEF Pending
  <2>5. QED
    BY <2>2, <2>3, <2>4
<1>6. CASE Relay
  <2>1. /\ PollNext("original") /\ guard = "original" /\ pc # "closed"
        /\ clientIn' = Append(clientIn, Rewrite(nread, Head(fromServer)))
        /\ UNCHANGED <<answered, nread, serverUp, buffer>>
    BY <1>6 DEF Relay, PollNext
  <2>2. Rewrite(nread, Head(fromServer)) \in Replies
    BY <1>0, <2>1, TakeReply, RewriteFacts DEF PollNext, ReaderReady
  <2>3. Len(clientIn') = Len(clientIn) + 1
    BY <1>0, <2>1, <2>2, AppendFacts
  <2>4. Taken' = Taken + 1
    BY <1>z, <2>1, <2>3 DEF Taken
  <2>5. QED
    BY <1>c, <2>1, <2>4
<1>7. CASE Drain
  <2>1. /\ PollNext("original") /\ guard = "original" /\ pc # "closed"
        /\ buffer' = Append(buffer, Rewrite(nread, Head(fromServer)))
        /\ UNCHANGED <<answered, nread, serverUp, clientIn>>
    BY <1>7 DEF Drain, PollNext
  <2>2. Rewrite(nread, Head(fromServer)) \in Replies
    BY <1>0, <2>1, TakeReply, RewriteFacts DEF PollNext, ReaderReady
  <2>3. Len(buffer') = Len(buffer) + 1
    BY <1>0, <2>1, <2>2, AppendFacts
  <2>4. Taken' = Taken + 1
    BY <1>z, <2>1, <2>3 DEF Taken
  <2>5. QED
    BY <1>c, <2>1, <2>4
<1>8. CASE Replay
  <2>1. /\ guard' = guard /\ guard = "free" /\ pc # "closed"
        /\ UNCHANGED <<answered, reader, serverUp>>
    BY <1>0, <1>8 DEF Replay, Control, TypeOK
  <2>2. Taken' = Taken
    <3>1. CASE buffer = <<>>
      BY <1>8, <3>1 DEF Replay, Taken
    <3>2. CASE buffer # <<>>
      <4>1. clientIn' = Append(clientIn, Head(buffer)) /\ buffer' = Tail(buffer)
        BY <1>8, <3>2 DEF Replay
      <4>2. Head(buffer) \in Replies /\ Len(buffer') = Len(buffer) - 1
        BY <1>0, <3>2, <4>1, TailFacts
      <4>3. Len(clientIn') = Len(clientIn) + 1
        BY <1>0, <4>1, <4>2, AppendFacts
      <4>4. QED
        BY <1>z, <4>2, <4>3 DEF Taken
    <3>3. QED
      BY <3>1, <3>2
  <2>3. QED
    BY <1>0, <2>1, <2>2 DEF Pending
<1>9. ASSUME NEW k \in Kinds, ClientSend(k) PROVE Pending'
  BY <1>9, <1>a DEF ClientSend
<1>10. CASE ClientClose \/ ServerAbsorbs \/ StreamEnds \/ UNCHANGED vars
  BY <1>10, <1>a DEF ClientClose, ServerAbsorbs, StreamEnds, vars
<1>11. CASE ExplainCallFails \/ ExplainEnds
  BY <1>11, <1>a DEF ExplainCallFails, ExplainEnds
<1>12. CASE ReadRequest
  BY <1>0, <1>12, <1>b DEF ReadRequest, Control
<1>13. CASE ExplainCall
  BY <1>13, <1>b DEF ExplainCall
<1>14. CASE ExplainDrain
  BY <1>14, <1>b DEF ExplainDrain, PollNext
<1>15. CASE ExplainStreamFails
  <2>1. reader = "ok" /\ pc = "explainStream"
    BY <1>0, <1>15 DEF ExplainStreamFails, Control, TypeOK
  <2>2. QED
    BY <1>15, <1>b, <2>1 DEF ExplainStreamFails, PollError
<1>16. CASE ReadEnds \/ CallFails \/ RelayFails \/ StreamFails \/ ReplayFails
  BY <1>16 DEF ReadEnds, CallFails, RelayFails, StreamFails, ReplayFails, Close, Pending
<1>17. QED
  BY <1>1, <1>2, <1>3, <1>4, <1>5, <1>6, <1>7, <1>8, <1>9, <1>10, <1>11, <1>12,
     <1>13, <1>14, <1>15, <1>16
     DEF Next, Client, Server, ServerResponds, Task, Terminated

-----------------------------------------------------------------------------
(* A connection starts with empty sockets, and the invariant holds of it. *)
LEMMA InitIInv ==
  Init => IInv
<1> SUFFICES ASSUME Init PROVE IInv
  OBVIOUS
<1>1. TypeOK
  BY ConnectionAssumption DEF Init, TypeOK, NoPlan, NoId, Outcomes, Locations
<1>2. Control /\ Outgoing /\ Incoming
  BY DEF Init, Control, Outgoing, Incoming
<1>3. Delivered /\ Pending
  BY DEF Init, Delivered, Pending, Taken
<1>4. QED
  BY <1>1, <1>2, <1>3 DEF IInv

(* Every step of the client, the upstream or the task keeps it. *)
LEMMA NextIInv ==
  IInv /\ [Next]_vars => IInv'
<1> SUFFICES ASSUME IInv, [Next]_vars PROVE IInv'
  OBVIOUS
<1>1. TypeOK /\ Control /\ Outgoing /\ Incoming
  BY DEF IInv
<1>2. TypeOK' /\ Control'
  BY <1>1, TypeNext, ControlNext
<1>3. Outgoing' /\ Incoming'
  BY <1>1, OutgoingNext, IncomingNext
<1>4. Delivered' /\ Pending'
  BY DeliveredNext, PendingNext
<1>5. QED
  BY <1>2, <1>3, <1>4 DEF IInv

(* The invariant holds throughout every connection. *)
LEMMA AlwaysIInv ==
  Spec => []IInv
BY InitIInv, NextIInv, PTL DEF Spec

-----------------------------------------------------------------------------
(* Type correctness of the connection task, for every number of requests   *)
(* and replies and every stack of layers.                                  *)
THEOREM ConnectionTypeCorrect ==
  Spec => []TypeOK
<1>1. IInv => TypeOK
  BY DEF IInv
<1>2. QED
  BY <1>1, AlwaysIInv, PTL

(* Whenever ProxyClient's socket mutex is free and the decoder has not     *)
(* failed, no reply and no request that will be answered is left in the    *)
(* upstream socket: the next `call` starts on a quiet socket.              *)
THEOREM SocketQuiet ==
  Spec => []QuietWhenFree
<1>1. IInv => QuietWhenFree
  BY DEF IInv, Outgoing, Incoming, QuietWhenFree
<1>2. QED
  BY <1>1, AlwaysIInv, PTL

(* Every message accept_client_inner writes to the client is the reply the *)
(* upstream sent at that position, rewritten exactly when the request it   *)
(* answers was a hello: none is lost, repeated, reordered or swapped with  *)
(* an explain's reply.                                                     *)
THEOREM RepliesCorrelated ==
  Spec => []ReplyCorrelation
<1>1. IInv => ReplyCorrelation
  <2>1. IInv => Taken = Len(clientIn) + Len(buffer)
                /\ Len(clientIn) \in Nat /\ Len(buffer) \in Nat /\ Len(answered) \in Nat
    BY Lengths DEF IInv, Taken
  <2>2. QED
    BY <2>1 DEF IInv, ReplyCorrelation, Delivered, Expected
<1>2. QED
  BY <1>1, AlwaysIInv, PTL
=============================================================================

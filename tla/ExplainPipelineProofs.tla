----------------------- MODULE ExplainPipelineProofs ------------------------
(***************************************************************************)
(* Proofs about ExplainPipeline, for any number of connections, any        *)
(* capacity and whatever the explains and their replies say: the sink is   *)
(* never overfilled, and its consumer is given every connection's events   *)
(* in the order of the requests, each under the request it explains.       *)
(***************************************************************************)
EXTENDS ExplainPipeline, SequenceTheorems, FiniteSetTheorems, TLAPS

-----------------------------------------------------------------------------
(* The inductive invariant *)

States == {"idle", "forward", "explain", "closed"}
AllRequests == UNION {Scenes[s].requests : s \in DOMAIN Scenes}
AllReplies == UNION {Scenes[s].replies : s \in DOMAIN Scenes}
Plans == UNION {PlanFor(m) : m \in AllRequests}
Explain ==
  [command : {plan.command : plan \in Plans}, client_request_id : Nat,
   explain_request_id : SUBSET Int,
   msg : {Build(plan, id) : plan \in Plans, id \in Int} \cup {Err("RequestIdExhausted")}]
Event == {ExplainEvent(p, ReadReply(replies).ok) : p \in Explain, replies \in AllReplies}
Entry == [conn : Connections, event : Event]

Shape ==
  /\ scene \in DOMAIN Scenes
  /\ sink \in Sinks
  /\ channel \in Seq(Entry)
  /\ receiverUp \in BOOLEAN
  /\ received \in Seq(Entry)
  /\ pc \in [Connections -> States]
  /\ sent \in [Connections -> Seq(AllRequests)]
  /\ prepared \in [Connections -> SUBSET Explain]
  /\ counter \in [Connections -> Int]
  /\ DOMAIN last = Connections

\* The channel of a sink that is not one stays empty, and the other is bounded.
Bounded ==
  /\ sink = "Sender" => Len(channel) <= Capacity
  /\ sink \in {"Fn", "TracingOnly"} => channel = <<>>

\* An option has at most one member.
Option(S) == \A x, y \in S : x = y
Options == \A c \in Connections : Option(prepared[c]) /\ Option(last[c])

Counted ==
  \A c \in Connections :
    /\ Len(sent[c]) <= Scenes[scene].most
    /\ counter[c] \in MinId .. -1
    /\ \A p \in prepared[c] : p.explain_request_id \subseteq MinId .. -1

\* An explain that is under way is about the last request and has the last id, or
\* there was none left and it was not built; what is sent was built.
Active == {"forward", "explain"}
CurrentFor(state, requests, explains, count) ==
  /\ state = "explain" => explains # {} /\ \A p \in explains : ~IsErr(p.msg)
  /\ state \in Active =>
       /\ Len(requests) > 0
       /\ \A p \in explains :
            /\ p.client_request_id = Len(requests)
            /\ p.explain_request_id = {count} \/ (p.explain_request_id = {} /\ IsErr(p.msg))
            /\ \E plan \in PlanFor(requests[Len(requests)]) : plan.command = p.command
Current == \A c \in Connections : CurrentFor(pc[c], sent[c], prepared[c], counter[c])

\* Ids of the first option were given out before those of the second.
Above(first, second) == \A x \in first, y \in second : x > y

\* An event that was recorded is about a request of its connection that is done
\* with, and its id was given out before.
CorrelatedFor(event, state, requests, explains, count) ==
  /\ event.client_request_id \in 1 .. Len(requests)
  /\ \E plan \in PlanFor(requests[event.client_request_id]) : plan.command = event.command
  /\ event.explain_request_id # {}
  /\ \A id \in event.explain_request_id : id >= count
  /\ state \in Active =>
       /\ event.client_request_id < Len(requests)
       /\ \A p \in explains : Above(event.explain_request_id, p.explain_request_id)
Correlated(entry) ==
  LET c == entry.conn IN CorrelatedFor(entry.event, pc[c], sent[c], prepared[c], counter[c])

\* Of two events of a connection the first has the earlier request and id.
Before(first, second) ==
  first.conn = second.conn =>
    /\ first.event.client_request_id < second.event.client_request_id
    /\ Above(first.event.explain_request_id, second.event.explain_request_id)

InOrder(entries) ==
  /\ \A i \in 1 .. Len(entries) : Correlated(entries[i])
  /\ \A i, j \in 1 .. Len(entries) : i < j => Before(entries[i], entries[j])

Recorded == received \o channel

PipelineInv == Shape /\ Bounded /\ Options /\ Counted /\ Current /\ InOrder(Recorded)

-----------------------------------------------------------------------------
(* Sequences and options *)

\* Appending to the second of two sequences appends to both.
LEMMA AppendToConcat ==
  ASSUME NEW S, NEW s \in Seq(S), NEW t \in Seq(S), NEW e \in S
  PROVE  s \o Append(t, e) = Append(s \o t, e)
OBVIOUS

\* What leaves the front of a channel for the consumer is still in its place.
LEMMA MoveHead ==
  ASSUME NEW S, NEW s \in Seq(S), NEW t \in Seq(S), t # <<>>
  PROVE  Append(s, Head(t)) \o Tail(t) = s \o t
OBVIOUS

\* An option has zero or one elements.
LEMMA OptionCardinality ==
  ASSUME NEW S, Option(S)
  PROVE  Cardinality(S) <= 1
<1>1. CASE S = {}
  BY <1>1, FS_EmptySet
<1>2. CASE S # {}
  <2>1. PICK x : x \in S
    BY <1>2
  <2>2. S = {x}
    BY <2>1 DEF Option
  <2>3. Cardinality({x}) = 1
    BY FS_Singleton
  <2> QED BY <2>2, <2>3
<1> QED BY <1>1, <1>2

\* Any element of an option is the one the code unwraps.
LEMMA SoleIn ==
  ASSUME NEW S, S # {}
  PROVE  Sole(S) \in S
BY DEF Sole

-----------------------------------------------------------------------------
(* The order of the recorded events *)

\* The fields of an event that name its request.
LEMMA EventFields ==
  ASSUME NEW e \in Entry
  PROVE  /\ e.conn \in Connections
         /\ e.event.client_request_id \in Nat
         /\ e.event.explain_request_id \subseteq Int
<1>1. PICK p \in Explain, replies \in AllReplies : e.event = ExplainEvent(p, ReadReply(replies).ok)
  BY DEF Entry, Event
<1>2. p.client_request_id \in Nat /\ p.explain_request_id \subseteq Int
  BY DEF Explain
<1> QED BY <1>1, <1>2 DEF ExplainEvent, Entry

\* Nothing was recorded; something may have been lost at the end.
LEMMA OrderKept ==
  ASSUME InOrder(Recorded), Recorded \in Seq(Entry), Recorded' \in Seq(Entry),
         Len(Recorded') <= Len(Recorded),
         \A i \in 1 .. Len(Recorded') : Recorded'[i] = Recorded[i],
         \A e \in Entry : Correlated(e) => Correlated(e)'
  PROVE  InOrder(Recorded)'
<1>1. ASSUME NEW i \in 1 .. Len(Recorded')
      PROVE  Correlated(Recorded[i])'
  <2>1. Recorded[i] \in Entry /\ Correlated(Recorded[i])
    BY DEF InOrder
  <2>2. PICK e \in Entry : e = Recorded[i] /\ e = Recorded'[i]
    BY <2>1
  <2>3. Correlated(e)'
    BY <2>1, <2>2
  <2> QED BY <2>2, <2>3 DEF Correlated
<1>2. ASSUME NEW i \in 1 .. Len(Recorded'), NEW j \in 1 .. Len(Recorded'), i < j
      PROVE  Before(Recorded'[i], Recorded'[j])
  BY <1>2 DEF InOrder
<1> QED BY <1>1, <1>2 DEF InOrder, Before

\* One event was recorded, after all the others.
LEMMA OrderExtended ==
  ASSUME InOrder(Recorded), Recorded \in Seq(Entry), NEW CONSTANT e \in Entry,
         Recorded' = Append(Recorded, e),
         Correlated(e)', \A i \in 1 .. Len(Recorded) : Before(Recorded[i], e),
         \A x \in Entry : Correlated(x) => Correlated(x)'
  PROVE  InOrder(Recorded)'
<1> DEFINE n == Len(Recorded)
<1>0. n \in Nat /\ Len(Recorded') = n + 1 /\ Recorded'[n + 1] = e
      /\ \A i \in 1 .. n : Recorded'[i] = Recorded[i]
  OBVIOUS
<1>1. ASSUME NEW i \in 1 .. n
      PROVE  Correlated(Recorded[i])'
  <2>1. Recorded[i] \in Entry /\ Correlated(Recorded[i])
    BY DEF InOrder
  <2>2. PICK x \in Entry : x = Recorded[i] /\ x = Recorded'[i]
    BY <1>0, <2>1
  <2>3. Correlated(x)'
    BY <2>1, <2>2
  <2> QED BY <2>2, <2>3 DEF Correlated
<1>2. ASSUME NEW i \in 1 .. n + 1, NEW j \in 1 .. n + 1, i < j
      PROVE  Before(Recorded'[i], Recorded'[j])
  BY <1>0, <1>2 DEF InOrder
<1> QED BY <1>0, <1>1, <1>2 DEF InOrder, Before

-----------------------------------------------------------------------------
(* The invariant is inductive *)

\* Before the first request nothing is recorded, queued or under way.
LEMMA InitInv == Init => PipelineInv
<1> SUFFICES ASSUME Init
             PROVE  PipelineInv
  OBVIOUS
<1>0. PICK s \in DOMAIN Scenes : scene = s
  BY DEF Init
<1>1. Shape
  BY <1>0 DEF Init, Shape, States
<1>2. Bounded /\ Options /\ Current
  BY PipelineAssumption DEF Init, Bounded, Options, Option, Current, CurrentFor, Active
<1>3. Counted
  BY <1>0, PipelineAssumption DEF Init, Counted
<1>4. Recorded = <<>>
  BY DEF Init, Recorded
<1>5. InOrder(Recorded)
  BY <1>4 DEF InOrder
<1> QED BY <1>1, <1>2, <1>3, <1>5 DEF PipelineInv

\* A request: the events recorded so far are about earlier ones.
LEMMA RequestInv ==
  ASSUME PipelineInv, NEW c \in Connections, NEW m \in Scenes[scene].requests, Request(c, m)
  PROVE  PipelineInv'
<1> USE DEF PipelineInv
<1>0. /\ m \in AllRequests /\ PlanFor(m) \subseteq Plans /\ Option(PlanFor(m))
      /\ Scenes[scene].most \in Nat
  BY PipelineAssumption DEF Shape, AllRequests, Plans, Option
<1> DEFINE ids == AllocRequestId(counter[c])
           explain(plan) == Prepare(plan, Len(sent[c]) + 1, ids)
<1>1. /\ sent[c] \in Seq(AllRequests) /\ Len(sent[c]) \in Nat /\ counter[c] \in Int
      /\ pc[c] = "idle"
  BY DEF Shape, Request
<1>2. /\ sent' \in [Connections -> Seq(AllRequests)] /\ sent'[c] = Append(sent[c], m)
      /\ \A d \in Connections \ {c} : sent'[d] = sent[d]
  BY <1>0, <1>1 DEF Shape, Request
<1>3. Len(sent'[c]) = Len(sent[c]) + 1 /\ sent'[c][Len(sent[c]) + 1] = m
      /\ \A i \in 1 .. Len(sent[c]) : sent'[c][i] = sent[c][i]
  BY <1>0, <1>1, <1>2
<1>4. prepared'[c] = {explain(plan) : plan \in PlanFor(m)}
      /\ \A d \in Connections \ {c} : prepared'[d] = prepared[d]
  BY DEF Request, Shape
<1>5. {explain(plan) : plan \in PlanFor(m)} \subseteq Explain
  <2>1. ids \in SUBSET Int
    BY <1>1 DEF AllocRequestId, NextId
  <2>2. ids # {} => Sole(ids) \in Int
    BY <2>1, SoleIn
  <2> HIDE DEF ids
  <2>3. ASSUME NEW plan \in PlanFor(m)
        PROVE  explain(plan) \in Explain
    BY <1>0, <1>1, <2>1, <2>2 DEF Explain, Prepare
  <2> QED BY <2>3
<1>6. prepared' \in [Connections -> SUBSET Explain]
  BY <1>4, <1>5 DEF Request, Shape
<1>7. /\ counter'[c] \in Int
      /\ counter'[c] = counter[c] \/ (counter'[c] = counter[c] - 1 /\ CanAlloc(counter[c]))
      /\ PlanFor(m) # {} => \/ ids = {} /\ counter'[c] = counter[c]
                            \/ ids = {counter'[c]} /\ counter'[c] = counter[c] - 1
      /\ counter' \in [Connections -> Int]
      /\ \A d \in Connections \ {c} : counter'[d] = counter[d]
  BY <1>1 DEF Request, Shape, NextId, AllocRequestId
<1> HIDE DEF ids
<1>8. /\ pc' \in [Connections -> States] /\ pc'[c] = "forward"
      /\ \A d \in Connections \ {c} : pc'[d] = pc[d]
  BY DEF Request, Shape, States
<1>9. UNCHANGED <<scene, sink, channel, receiverUp, received, last>>
  BY DEF Request, sinkVars
<1>10. Shape'
  BY <1>2, <1>6, <1>7, <1>8, <1>9 DEF Shape
<1>11. Bounded'
  BY <1>9 DEF Bounded
<1>12. Options'
  BY <1>0, <1>4, <1>9 DEF Options, Option
<1>13. \A p \in prepared'[c] : /\ p.client_request_id = Len(sent[c]) + 1
                               /\ p.explain_request_id = ids
                               /\ ids = {} => IsErr(p.msg)
                               /\ \E plan \in PlanFor(m) : plan.command = p.command
  <2>1. IsErr(Err("RequestIdExhausted"))
    BY DEF IsErr, Err
  <2>2. ASSUME NEW plan \in PlanFor(m), NEW p, p = explain(plan)
        PROVE  /\ p.client_request_id = Len(sent[c]) + 1
               /\ p.explain_request_id = ids
               /\ ids = {} => p.msg = Err("RequestIdExhausted")
               /\ p.command = plan.command
    BY <2>2 DEF Prepare
  <2>3. ASSUME NEW p \in prepared'[c]
        PROVE  \E plan \in PlanFor(m) : p = explain(plan)
    BY <1>4
  <2> HIDE DEF explain
  <2> QED BY <2>1, <2>2, <2>3
<1>14. Counted'
  <2> SUFFICES ASSUME NEW d \in Connections
               PROVE  /\ Len(sent'[d]) <= Scenes[scene'].most
                      /\ counter'[d] \in MinId .. -1
                      /\ \A p \in prepared'[d] : p.explain_request_id \subseteq MinId .. -1
    BY DEF Counted
  <2>1. CASE d # c
    BY <2>1, <1>2, <1>4, <1>7, <1>9 DEF Counted
  <2>2. CASE d = c
    <3>1. counter'[c] \in MinId .. -1
      BY <1>1, <1>7, PipelineAssumption DEF Counted, CanAlloc
    <3>2. Len(sent'[c]) <= Scenes[scene'].most
      BY <1>0, <1>1, <1>3, <1>9 DEF Request
    <3>3. ASSUME NEW p \in prepared'[c]
          PROVE  p.explain_request_id \subseteq MinId .. -1
      <4>1. PlanFor(m) # {} /\ p.explain_request_id = ids
        BY <1>13
      <4> QED BY <1>7, <3>1, <4>1
    <3> QED BY <2>2, <3>1, <3>2, <3>3
  <2> QED BY <2>1, <2>2
<1>15. Current'
  <2> SUFFICES ASSUME NEW d \in Connections
               PROVE  CurrentFor(pc'[d], sent'[d], prepared'[d], counter'[d])
    BY DEF Current
  <2>1. CASE d # c
    BY <2>1, <1>2, <1>4, <1>7, <1>8 DEF Current
  <2>2. CASE d = c
    <3>1. ASSUME NEW p \in prepared'[c]
          PROVE  p.explain_request_id = {counter'[c]} \/ (p.explain_request_id = {} /\ IsErr(p.msg))
      BY <1>7, <1>13
    <3> QED BY <2>2, <1>1, <1>3, <1>8, <1>13, <3>1 DEF CurrentFor, Active
  <2> QED BY <2>1, <2>2
<1>16. ASSUME NEW e \in Entry, Correlated(e)
       PROVE  Correlated(e)'
  <2>1. CASE e.conn # c
    BY <2>1, <1>16, <1>2, <1>4, <1>7, <1>8, EventFields DEF Correlated
  <2>2. CASE e.conn = c
    <3> DEFINE id == e.event.client_request_id
    <3>1. CorrelatedFor(e.event, pc[c], sent[c], prepared[c], counter[c])
      BY <2>2, <1>16 DEF Correlated
    <3>2. id \in 1 .. Len(sent[c]) /\ sent'[c][id] = sent[c][id]
      BY <3>1, <1>3 DEF CorrelatedFor
    <3>3. \E plan \in PlanFor(sent'[c][id]) : plan.command = e.event.command
      BY <3>1, <3>2 DEF CorrelatedFor
    <3>4. /\ e.event.explain_request_id # {}
          /\ \A x \in e.event.explain_request_id : x \in Int /\ x >= counter[c]
      BY <3>1, EventFields DEF CorrelatedFor
    <3>7. \A x \in e.event.explain_request_id : x >= counter'[c]
      BY <3>4, <1>1, <1>7
    <3>8. ASSUME NEW p \in prepared'[c]
          PROVE  Above(e.event.explain_request_id, p.explain_request_id)
      <4>1. PlanFor(m) # {} /\ p.explain_request_id = ids
        BY <1>13
      <4> QED BY <3>4, <4>1, <1>1, <1>7 DEF Above
    <3>5. id \in 1 .. Len(sent'[c]) /\ id < Len(sent'[c])
      BY <3>2, <1>1, <1>3
    <3>6. CorrelatedFor(e.event, pc'[c], sent'[c], prepared'[c], counter'[c])
      BY <3>3, <3>4, <3>5, <3>7, <3>8 DEF CorrelatedFor
    <3> QED BY <2>2, <3>6 DEF Correlated
  <2> QED BY <2>1, <2>2
<1>17. Recorded \in Seq(Entry) /\ Recorded' = Recorded
  BY <1>9 DEF Shape, Recorded
<1>18. InOrder(Recorded)'
  BY <1>16, <1>17, OrderKept
<1> QED BY <1>10, <1>11, <1>12, <1>14, <1>15, <1>18

\* A connection goes on with its request, or is done with it.
LEMMA GoesOn ==
  ASSUME PipelineInv, NEW c \in Connections, NEW state \in States,
         pc' = [pc EXCEPT ![c] = state], UNCHANGED <<scene, sink, sent, prepared, counter>>,
         state \in Active => pc[c] \in Active,
         state = "explain" => prepared[c] # {} /\ \A p \in prepared[c] : ~IsErr(p.msg)
  PROVE  /\ pc' \in [Connections -> States]
         /\ Counted' /\ Current'
         /\ \A e \in Entry : Correlated(e) => Correlated(e)'
<1>1. /\ pc' \in [Connections -> States] /\ pc'[c] = state
      /\ \A d \in Connections \ {c} : pc'[d] = pc[d]
  BY DEF PipelineInv, Shape
<1>2. Counted'
  BY DEF PipelineInv, Counted
<1>3. Current'
  <2> SUFFICES ASSUME NEW d \in Connections
               PROVE  CurrentFor(pc'[d], sent[d], prepared[d], counter[d])
    BY DEF Current
  <2>1. CurrentFor(pc[d], sent[d], prepared[d], counter[d])
    BY DEF PipelineInv, Current
  <2>2. CASE d # c
    BY <1>1, <2>1, <2>2
  <2>3. CASE d = c
    BY <1>1, <2>1, <2>3 DEF CurrentFor
  <2> QED BY <2>2, <2>3
<1>4. ASSUME NEW e \in Entry, Correlated(e)
      PROVE  Correlated(e)'
  <2> DEFINE d == e.conn
  <2>0. d \in Connections
    BY EventFields
  <2>1. CorrelatedFor(e.event, pc[d], sent[d], prepared[d], counter[d])
    BY <1>4 DEF Correlated
  <2>2. CorrelatedFor(e.event, pc'[d], sent[d], prepared[d], counter[d])
    <3>1. CASE d # c
      BY <1>1, <2>0, <2>1, <3>1
    <3>2. CASE d = c
      BY <1>1, <2>1, <3>2 DEF CorrelatedFor
    <3> QED BY <3>1, <3>2
  <2> QED BY <2>2 DEF Correlated
<1> QED BY <1>1, <1>2, <1>3, <1>4

\* The sink is left alone.
LEMMA SinkKept ==
  ASSUME PipelineInv, UNCHANGED <<sink, sinkVars>>,
         \A e \in Entry : Correlated(e) => Correlated(e)'
  PROVE  Bounded' /\ InOrder(Recorded)'
<1>1. Recorded \in Seq(Entry) /\ Recorded' = Recorded
  BY DEF PipelineInv, Shape, Recorded, sinkVars
<1>2. InOrder(Recorded)'
  BY <1>1, OrderKept DEF PipelineInv
<1> QED BY <1>2 DEF PipelineInv, Bounded, sinkVars

\* The client's request is answered, or its exchange fails; nothing is recorded
\* yet.
LEMMA ForwardInv ==
  ASSUME PipelineInv, NEW c \in Connections, Forwarded(c) \/ ForwardFails(c)
  PROVE  PipelineInv'
<1>1. PICK state \in States :
        /\ pc' = [pc EXCEPT ![c] = state]
        /\ state = "explain" => prepared[c] # {} /\ \A p \in prepared[c] : ~IsErr(p.msg)
  <2>1. Option(prepared[c])
    BY DEF PipelineInv, Options
  <2>2. (\E p \in prepared[c] : ~IsErr(p.msg))
          => prepared[c] # {} /\ \A p \in prepared[c] : ~IsErr(p.msg)
    BY <2>1, Zenon DEF Option
  <2> QED BY <2>2 DEF Forwarded, ForwardFails, States
<1>2. UNCHANGED <<scene, sink, sinkVars, sent, prepared, counter, last>> /\ pc[c] \in Active
  BY DEF Forwarded, ForwardFails, Active
<1>3. /\ pc' \in [Connections -> States] /\ Counted' /\ Current'
      /\ \A e \in Entry : Correlated(e) => Correlated(e)'
  BY <1>1, <1>2, GoesOn
<1>4. Shape' /\ Options'
  BY <1>2, <1>3 DEF PipelineInv, Shape, Options, sinkVars
<1>5. Bounded' /\ InOrder(Recorded)'
  BY <1>2, <1>3, SinkKept
<1> QED BY <1>3, <1>4, <1>5 DEF PipelineInv

\* What the last explain came to is kept as an option.
LEMMA LastKept ==
  ASSUME PipelineInv, NEW c \in Connections, NEW l, last' = [last EXCEPT ![c] = {l}],
         UNCHANGED prepared
  PROVE  DOMAIN last' = Connections /\ Options'
BY DEF PipelineInv, Shape, Options, Option

\* An explain whose exchange fails leaves no event.
LEMMA ExplainFailsInv ==
  ASSUME PipelineInv, NEW c \in Connections, ExplainFails(c)
  PROVE  PipelineInv'
<1>1. /\ pc' = [pc EXCEPT ![c] = "idle"]
      /\ UNCHANGED <<scene, sink, sinkVars, sent, prepared, counter>>
      /\ last' = [last EXCEPT ![c] = {[replies |-> <<>>, result |-> Err("InnerService")]}]
  BY DEF ExplainFails
<1>2. "idle" \in States /\ "idle" \notin Active
  BY DEF States, Active
<1>3. /\ pc' \in [Connections -> States] /\ Counted' /\ Current'
      /\ \A e \in Entry : Correlated(e) => Correlated(e)'
  BY <1>1, <1>2, GoesOn
<1>4. DOMAIN last' = Connections /\ Options'
  BY <1>1, LastKept
<1>5. Shape'
  BY <1>1, <1>3, <1>4 DEF PipelineInv, Shape, sinkVars
<1>6. Bounded' /\ InOrder(Recorded)'
  BY <1>1, <1>3, SinkKept
<1> QED BY <1>3, <1>4, <1>5, <1>6 DEF PipelineInv

\* The event of an explain that was understood comes after every other event of
\* its connection, and names the connection's last request.
LEMMA NewEntry ==
  ASSUME PipelineInv, NEW c \in Connections, pc[c] = "explain",
         NEW replies \in AllReplies,
         pc'[c] = "idle", UNCHANGED <<sent, prepared, counter>>,
         NEW e, e = [conn |-> c, event |-> ExplainEvent(Sole(prepared[c]), ReadReply(replies).ok)]
  PROVE  /\ e \in Entry
         /\ CorrelatedFor(e.event, pc'[c], sent[c], prepared[c], counter[c])
         /\ \A i \in 1 .. Len(Recorded) : Before(Recorded[i], e)
<1> DEFINE p == Sole(prepared[c])
<1>1. CurrentFor(pc[c], sent[c], prepared[c], counter[c])
  BY DEF PipelineInv, Current
<1>2. p \in prepared[c] /\ p \in Explain
  <2>1. p \in prepared[c]
    BY <1>1, SoleIn DEF CurrentFor
  <2> QED BY <2>1 DEF PipelineInv, Shape
<1>3. /\ Len(sent[c]) > 0
      /\ p.client_request_id = Len(sent[c])
      /\ p.explain_request_id = {counter[c]}
      /\ \E plan \in PlanFor(sent[c][Len(sent[c])]) : plan.command = p.command
  BY <1>1, <1>2 DEF CurrentFor, Active
<1>4. e \in Entry
  <2>1. e.event \in Event /\ e = [conn |-> c, event |-> e.event]
    BY <1>2 DEF Event
  <2> QED BY <2>1 DEF Entry
<1>5. /\ e.conn = c
      /\ e.event.client_request_id = p.client_request_id
      /\ e.event.explain_request_id = p.explain_request_id
      /\ e.event.command = p.command
  BY DEF ExplainEvent
<1>6. Len(sent[c]) \in Nat /\ counter[c] \in Int
  BY DEF PipelineInv, Shape
<1>7. CorrelatedFor(e.event, pc'[c], sent[c], prepared[c], counter[c])
  <2> HIDE DEF p
  <2>1. \E plan \in PlanFor(sent[c][e.event.client_request_id]) : plan.command = e.event.command
    BY <1>3, <1>5
  <2>2. /\ e.event.client_request_id \in 1 .. Len(sent[c])
        /\ e.event.explain_request_id = {counter[c]}
        /\ counter[c] >= counter[c]
    BY <1>3, <1>5, <1>6
  <2>3. pc'[c] \notin Active
    BY DEF Active
  <2> QED BY <2>1, <2>2, <2>3, Zenon DEF CorrelatedFor
<1>8. ASSUME NEW i \in 1 .. Len(Recorded)
      PROVE  Before(Recorded[i], e)
  <2>1. SUFFICES ASSUME Recorded[i].conn = c
                 PROVE  Before(Recorded[i], e)
    BY <1>5 DEF Before
  <2>2. Recorded[i] \in Entry
    BY DEF PipelineInv, Shape, Recorded
  <2>3. Correlated(Recorded[i])
    BY DEF PipelineInv, InOrder
  <2>4. CorrelatedFor(Recorded[i].event, pc[c], sent[c], prepared[c], counter[c])
    BY <2>1, <2>3 DEF Correlated
  <2>5. /\ Recorded[i].event.client_request_id < Len(sent[c])
        /\ Above(Recorded[i].event.explain_request_id, p.explain_request_id)
    BY <1>2, <2>4 DEF CorrelatedFor, Active
  <2> HIDE DEF p
  <2> QED BY <1>3, <1>5, <1>6, <2>2, <2>5, EventFields DEF Before
<1> QED BY <1>4, <1>7, <1>8

\* Recording keeps the bound of the channel, and adds the event at the end of
\* what is recorded or loses it.
LEMMA RecordKeeps ==
  ASSUME PipelineInv, NEW e \in Entry, Record(e), UNCHANGED sink
  PROVE  /\ channel' \in Seq(Entry) /\ received' \in Seq(Entry) /\ receiverUp' \in BOOLEAN
         /\ Bounded'
         /\ Recorded' = Recorded \/ Recorded' = Append(Recorded, e)
<1>0. /\ channel \in Seq(Entry) /\ received \in Seq(Entry)
      /\ receiverUp' = receiverUp /\ receiverUp \in BOOLEAN
      /\ Capacity \in Nat
  BY PipelineAssumption DEF PipelineInv, Shape, Record
<1>1. CASE channel' = channel /\ received' = received
  BY <1>0, <1>1 DEF PipelineInv, Bounded, Recorded
<1>2. CASE channel' = channel /\ received' = Append(received, e) /\ sink = "Fn"
  <2>1. channel = <<>>
    BY <1>2 DEF PipelineInv, Bounded
  <2>2. Recorded' = Append(Recorded, e)
    BY <1>0, <1>2, <2>1 DEF Recorded
  <2> QED BY <1>0, <1>2, <2>1, <2>2 DEF Bounded
<1>3. CASE /\ channel' = Append(channel, e) /\ received' = received
           /\ sink = "UnboundedSender" \/ (sink = "Sender" /\ Len(channel) < Capacity)
  <2>1. Recorded' = Append(Recorded, e)
    BY <1>0, <1>3, AppendToConcat DEF Recorded
  <2>2. Len(channel') = Len(channel) + 1 /\ Len(channel) \in Nat
    BY <1>0, <1>3
  <2>3. Bounded'
    BY <1>0, <1>3, <2>2 DEF Bounded
  <2> QED BY <1>0, <1>3, <2>1, <2>3
<1> QED BY <1>1, <1>2, <1>3 DEF Record, Room

\* An explain that was answered is read and recorded.
LEMMA ExplainedInv ==
  ASSUME PipelineInv, NEW c \in Connections, NEW replies \in Scenes[scene].replies,
         Explained(c, replies)
  PROVE  PipelineInv'
<1> DEFINE read == ReadReply(replies)
           result == RunExplain(Sole(prepared[c]), read)
<1>0. replies \in AllReplies
  BY DEF PipelineInv, Shape, AllReplies
<1>1. /\ pc[c] = "explain" /\ pc' = [pc EXCEPT ![c] = "idle"]
      /\ UNCHANGED <<scene, sink, sent, prepared, counter>>
      /\ last' = [last EXCEPT ![c] = {[replies |-> replies, result |-> result]}]
      /\ IF IsErr(result) THEN UNCHANGED sinkVars
         ELSE Record([conn |-> c, event |-> result.ok])
  BY DEF Explained
<1>2. "idle" \in States /\ "idle" \notin Active
  BY DEF States, Active
<1>3. /\ pc' \in [Connections -> States] /\ Counted' /\ Current'
      /\ \A e \in Entry : Correlated(e) => Correlated(e)'
  BY <1>1, <1>2, GoesOn
<1>4. DOMAIN last' = Connections /\ Options'
  BY <1>1, LastKept
<1>5. CASE IsErr(result)
  <2>1. Bounded' /\ InOrder(Recorded)'
    BY <1>1, <1>3, <1>5, SinkKept
  <2>2. Shape'
    BY <1>1, <1>3, <1>4, <1>5 DEF PipelineInv, Shape, sinkVars
  <2> QED BY <1>3, <1>4, <2>1, <2>2 DEF PipelineInv
<1>6. CASE ~IsErr(result)
  <2>1. result.ok = ExplainEvent(Sole(prepared[c]), read.ok)
    BY <1>6 DEF RunExplain, Ok
  <2>2. PICK e : e = [conn |-> c, event |-> ExplainEvent(Sole(prepared[c]), ReadReply(replies).ok)]
    OBVIOUS
  <2>3. Record(e)
    BY <1>1, <1>6, <2>1, <2>2
  <2>4. pc'[c] = "idle"
    BY <1>1 DEF PipelineInv, Shape
  <2>5. /\ e \in Entry
        /\ CorrelatedFor(e.event, pc'[c], sent[c], prepared[c], counter[c])
        /\ \A i \in 1 .. Len(Recorded) : Before(Recorded[i], e)
    BY <1>0, <1>1, <2>2, <2>4, NewEntry
  <2>6. Correlated(e)'
    BY <1>1, <2>2, <2>5 DEF Correlated
  <2>7. /\ channel' \in Seq(Entry) /\ received' \in Seq(Entry) /\ receiverUp' \in BOOLEAN
        /\ Bounded'
        /\ Recorded' = Recorded \/ Recorded' = Append(Recorded, e)
    BY <1>1, <2>3, <2>5, RecordKeeps
  <2>8. InOrder(Recorded) /\ Recorded \in Seq(Entry)
    BY DEF PipelineInv, Shape, Recorded
  <2>9. InOrder(Recorded)'
    <3>1. CASE Recorded' = Recorded
      BY <1>3, <2>8, <3>1, OrderKept
    <3>2. CASE Recorded' = Append(Recorded, e)
      BY <1>3, <2>5, <2>6, <2>8, <3>2, OrderExtended
    <3> QED BY <2>7, <3>1, <3>2
  <2>10. Shape'
    BY <1>1, <1>3, <1>4, <2>7 DEF PipelineInv, Shape
  <2> QED BY <1>3, <1>4, <2>7, <2>9, <2>10 DEF PipelineInv
<1> QED BY <1>5, <1>6

\* The consumer takes the first event, or drops the channel with all it holds.
LEMMA ConsumerInv ==
  ASSUME PipelineInv, Consume \/ DropReceiver
  PROVE  PipelineInv'
<1>0. UNCHANGED <<scene, sink, pc, sent, prepared, counter, last>>
  BY DEF Consume, DropReceiver
<1>1. channel \in Seq(Entry) /\ received \in Seq(Entry)
  BY DEF PipelineInv, Shape
<1>2. \A e \in Entry : Correlated(e) => Correlated(e)'
  BY <1>0 DEF Correlated
<1>3. Options' /\ Counted' /\ Current'
  BY <1>0 DEF PipelineInv, Options, Counted, Current
<1>4. /\ channel' \in Seq(Entry) /\ received' \in Seq(Entry)
      /\ receiverUp' \in BOOLEAN /\ Bounded'
      /\ Len(Recorded') <= Len(Recorded)
      /\ \A i \in 1 .. Len(Recorded') : Recorded'[i] = Recorded[i]
  <2>1. CASE Consume
    <3>1. channel # <<>> /\ channel' = Tail(channel) /\ received' = Append(received, Head(channel))
      BY <2>1 DEF Consume
    <3>2. /\ channel' \in Seq(Entry) /\ received' \in Seq(Entry)
          /\ Len(channel') = Len(channel) - 1
      BY <1>1, <3>1
    <3>3. Recorded' = Recorded
      BY <1>1, <3>1, MoveHead DEF Recorded
    <3>4. Bounded'
      BY <1>0, <1>1, <3>1, <3>2, PipelineAssumption DEF PipelineInv, Bounded
    <3>5. Recorded \in Seq(Entry) /\ receiverUp' \in BOOLEAN
      BY <1>1, <2>1 DEF Recorded, Consume, PipelineInv, Shape
    <3> QED BY <3>2, <3>3, <3>4, <3>5
  <2>2. CASE DropReceiver
    <3>1. channel' = <<>> /\ received' = received /\ receiverUp' = FALSE
      BY <2>2 DEF DropReceiver
    <3>2. Recorded' = received
      BY <1>1, <3>1 DEF Recorded
    <3>3. Bounded'
      BY <3>1, PipelineAssumption DEF Bounded
    <3>4. /\ Len(received) <= Len(Recorded)
          /\ \A i \in 1 .. Len(received) : received[i] = Recorded[i]
      BY <1>1 DEF Recorded
    <3>5. channel' \in Seq(Entry) /\ received' \in Seq(Entry)
      BY <1>1, <3>1
    <3>6. receiverUp' \in BOOLEAN
      BY <3>1, Zenon
    <3> QED BY <3>2, <3>3, <3>4, <3>5, <3>6
  <2> QED BY <2>1, <2>2
<1>5. Shape'
  BY <1>0, <1>4 DEF PipelineInv, Shape
<1>6. Recorded \in Seq(Entry) /\ Recorded' \in Seq(Entry) /\ InOrder(Recorded)
  BY <1>1, <1>4 DEF Recorded, PipelineInv
<1>7. InOrder(Recorded)'
  BY <1>2, <1>4, <1>6, OrderKept
<1> QED BY <1>3, <1>4, <1>5, <1>7 DEF PipelineInv

\* Every step of the pipeline preserves the invariant.
LEMMA NextInv == PipelineInv /\ [Next]_vars => PipelineInv'
<1> SUFFICES ASSUME PipelineInv, [Next]_vars
             PROVE  PipelineInv'
  OBVIOUS
<1>1. ASSUME NEW c \in Connections, Step(c)
      PROVE  PipelineInv'
  <2>1. CASE \E m \in Scenes[scene].requests : Request(c, m)
    BY <2>1, RequestInv
  <2>2. CASE Forwarded(c) \/ ForwardFails(c)
    BY <2>2, ForwardInv
  <2>3. CASE \E replies \in Scenes[scene].replies : Explained(c, replies)
    BY <2>3, ExplainedInv
  <2>4. CASE ExplainFails(c)
    BY <2>4, ExplainFailsInv
  <2> QED BY <1>1, <2>1, <2>2, <2>3, <2>4 DEF Step
<1>2. CASE Consume \/ DropReceiver
  BY <1>2, ConsumerInv
<1>3. CASE UNCHANGED vars
  BY <1>3 DEF vars, PipelineInv, Shape, Bounded, Options, Counted, Current, InOrder, Correlated, Recorded
<1> QED BY <1>1, <1>2, <1>3 DEF Next, Terminated

-----------------------------------------------------------------------------
(* Results *)

\* The strengthened invariant holds in every reachable state of the explain
\* layers and the sink they share (handle_request, run_explain, ExplainSink).
THEOREM PipelineInvariant == Spec => []PipelineInv
BY InitInv, NextInv, PTL DEF Spec

\* A bounded channel never holds more than its capacity and a sink that is no
\* channel holds nothing; no connection prepares two explains; explain ids stay
\* strictly negative and above i32::MIN - 1 however long a connection lives, so
\* none can be a client's (the mpsc sinks, alloc_request_id).
THEOREM PipelineTypes == Spec => []TypeOK
<1>1. PipelineInv => TypeOK
  <2> SUFFICES ASSUME PipelineInv
               PROVE  TypeOK
    OBVIOUS
  <2>1. ASSUME NEW c \in Connections
        PROVE  Cardinality(prepared[c]) <= 1 /\ Cardinality(last[c]) <= 1
    BY OptionCardinality DEF PipelineInv, Options
  <2> QED BY <2>1 DEF PipelineInv, Shape, Bounded, Counted, States, TypeOK
<1> QED BY <1>1, PipelineInvariant, PTL

\* Whatever the connections do at the same time, whatever a full channel or a
\* dropped receiver loses: the consumer is given the events of a connection in
\* the order of its requests, each names the request it was made for, has an
\* explain id, and no two share one (handle_request, alloc_request_id and the mpsc sinks).
THEOREM PipelineOrder == Spec => []CorrelatedInOrder
<1>1. PipelineInv => CorrelatedInOrder
  <2> SUFFICES ASSUME PipelineInv,
                      NEW i \in DOMAIN Recorded
               PROVE  /\ \E plan \in PlanFor(sent[Recorded[i].conn][Recorded[i].event.client_request_id]) :
                           plan.command = Recorded[i].event.command
                      /\ \A j \in i + 1 .. Len(Recorded) : Recorded[j].conn = Recorded[i].conn =>
                           /\ Recorded[i].event.client_request_id < Recorded[j].event.client_request_id
                           /\ Recorded[i].event.explain_request_id
                                \cap Recorded[j].event.explain_request_id = {}
                      /\ Recorded[i].event.explain_request_id # {}
    BY DEF CorrelatedInOrder, Recorded
  <2>0. Recorded \in Seq(Entry) /\ i \in 1 .. Len(Recorded) /\ Len(Recorded) \in Nat
    BY DEF PipelineInv, Shape, Recorded
  <2>1. Correlated(Recorded[i])
    BY <2>0 DEF PipelineInv, InOrder
  <2>2. /\ \E plan \in PlanFor(sent[Recorded[i].conn][Recorded[i].event.client_request_id]) :
            plan.command = Recorded[i].event.command
        /\ Recorded[i].event.explain_request_id # {}
    BY <2>1 DEF Correlated, CorrelatedFor
  <2>3. ASSUME NEW j \in i + 1 .. Len(Recorded), Recorded[j].conn = Recorded[i].conn
        PROVE  /\ Recorded[i].event.client_request_id < Recorded[j].event.client_request_id
               /\ Recorded[i].event.explain_request_id
                    \cap Recorded[j].event.explain_request_id = {}
    <3>1. j \in 1 .. Len(Recorded) /\ i < j
      BY <2>0
    <3>2. Before(Recorded[i], Recorded[j])
      BY <2>0, <3>1 DEF PipelineInv, InOrder
    <3>3. Recorded[i] \in Entry /\ Recorded[j] \in Entry
      BY <2>0, <3>1
    <3>4. \A x \in Int : ~(x > x)
      OBVIOUS
    <3> QED BY <2>3, <3>2, <3>3, <3>4, EventFields DEF Before, Above
  <2> QED BY <2>2, <2>3
<1> QED BY <1>1, PipelineInvariant, PTL
=============================================================================

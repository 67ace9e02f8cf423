-------------------------- MODULE ExplainPipeline ---------------------------
(***************************************************************************)
(* The explain layers of several connections and the sink they share.      *)
(*                                                                         *)
(* Each connection prepares the explain before it forwards the request,    *)
(* runs it once the request is answered, reads the reply and records the   *)
(* event.  The sink is a bounded or unbounded channel whose receiver       *)
(* drains it at its own pace and may be dropped, a closure, or nothing.    *)
(* How the frames of one exchange travel is ProxyConnection's subject, and *)
(* what the explains and the plans say is ExplainModel's.                  *)
(***************************************************************************)
EXTENDS Integers, Sequences, FiniteSets, Results

CONSTANTS
  PlanFor(_),   \* Classify: what a request is explained with, an option
  Build(_, _),  \* BuildExplain: the explain of a plan under an id, or an error
  ReadReply(_), \* ReadExplain: what the replies to an explain say, or an error
  Connections,
  Sinks,        \* of "Sender", "UnboundedSender", "Fn", "TracingOnly"
  Capacity,     \* of the bounded channel
  MinId,        \* i32::MIN
  Scenes        \* bounds, by name: the connections, requests and replies of a behaviour

\* A channel has room for something, the least id is negative and a request has
\* one plan at most.
ASSUME PipelineAssumption ==
  /\ Capacity \in Nat \ {0}
  /\ MinId \in Int /\ MinId < 0
  /\ \A s \in DOMAIN Scenes :
       /\ Scenes[s].most \in Nat
       /\ \A m \in Scenes[s].requests : \A plan, other \in PlanFor(m) : plan = other

VARIABLES
  scene,        \* the name of the bounds in force
  sink,         \* the kind of sink
  channel,      \* what the channel holds
  receiverUp,   \* the receiver is not dropped
  received,     \* what the consumer was given
  pc,           \* per connection: "idle", "forward", "explain" or "closed"
  sent,         \* per connection: the requests received; the last one's request_id
  prepared,     \* per connection: the explain prepared for the request, if any
  counter,      \* per connection: the last explain request id given out, or -1
  last          \* per connection: the last explain, what was read and the result

vars == <<scene, sink, channel, receiverUp, received, pc, sent, prepared, counter, last>>
sinkVars == <<channel, receiverUp, received>>

Init ==
  /\ scene \in DOMAIN Scenes
  /\ sink \in Sinks
  /\ channel = <<>>
  /\ receiverUp = TRUE
  /\ received = <<>>
  /\ pc = [c \in Connections |-> IF c \in Scenes[scene].connections THEN "idle" ELSE "closed"]
  /\ sent = [c \in Connections |-> <<>>]
  /\ prepared = [c \in Connections |-> {}]
  /\ counter = [c \in Connections |-> -1]
  /\ last = [c \in Connections |-> {}]

-----------------------------------------------------------------------------
(* ExplainSink::record *)

Room == Len(channel) < Capacity

Record(entry) ==
  LET taken == receiverUp /\ (sink = "UnboundedSender" \/ (sink = "Sender" /\ Room))
  IN  /\ channel' = IF taken THEN Append(channel, entry) ELSE channel
      /\ received' = IF sink = "Fn" THEN Append(received, entry) ELSE received
      /\ UNCHANGED receiverUp

\* Mutation: a full channel is waited for.
MayRecordAwaiting == sink = "Sender" /\ receiverUp => Room
\* try_send, send and a call of the closure all return at once.
MayRecord == TRUE

-----------------------------------------------------------------------------
(* handle_request *)

\* Mutation: the guard looks only for the sign, which i32::MIN - 1 would change.
CanAllocBelow(id) == id < 0
CanAlloc(id) == id < 0 /\ id # MinId

\* Mutation: the counter is not moved on.
NextIdSame(id) == id
NextId(id) == id - 1

\* alloc_request_id: an option, none once the ids are exhausted.
AllocRequestId(id) == IF CanAlloc(id) THEN {NextId(id)} ELSE {}

\* Phase 1 for a request that has a plan: allocate an id, build.
Prepare(plan, request, ids) ==
  [command |-> plan.command, client_request_id |-> request, explain_request_id |-> ids,
   msg |-> IF ids = {} THEN Err("RequestIdExhausted") ELSE Build(plan, Sole(ids))]

\* Classify and prepare; then the request goes out.
Request(c, m) ==
  /\ pc[c] = "idle"
  /\ Len(sent[c]) < Scenes[scene].most
  /\ pc' = [pc EXCEPT ![c] = "forward"]
  /\ sent' = [sent EXCEPT ![c] = Append(@, m)]
  /\ prepared' = [prepared EXCEPT ![c] =
       {Prepare(plan, Len(sent[c]) + 1, AllocRequestId(counter[c])) : plan \in PlanFor(m)}]
  /\ counter' = [counter EXCEPT ![c] = IF PlanFor(m) # {} /\ CanAlloc(@) THEN NextId(@) ELSE @]
  /\ UNCHANGED <<scene, sink, sinkVars, last>>

\* The replies are drained: the explain is next, unless none was prepared or
\* its preparation failed, which no built-in sink records.
Forwarded(c) ==
  /\ pc[c] = "forward"
  /\ pc' = [pc EXCEPT ![c] = IF \E p \in prepared[c] : ~IsErr(p.msg) THEN "explain" ELSE "idle"]
  /\ UNCHANGED <<scene, sink, sinkVars, sent, prepared, counter, last>>

\* The inner service fails: the connection ends without an explain.
ForwardFails(c) ==
  /\ pc[c] = "forward"
  /\ pc' = [pc EXCEPT ![c] = "closed"]
  /\ UNCHANGED <<scene, sink, sinkVars, sent, prepared, counter, last>>

\* What run_explain returns: the plan and the totals of the replies under the
\* names of the request they are about.
ExplainEvent(request, read) ==
  [command |-> request.command, namespace |-> read.namespace, plan |-> read.plan,
   total |-> read.total, client_request_id |-> request.client_request_id,
   explain_request_id |-> request.explain_request_id]
RunExplain(request, read) == IF IsErr(read) THEN read ELSE Ok(ExplainEvent(request, read.ok))

\* run_explain and emit_or_log: no await between reading the reply and
\* recording the event.
Explained(c, replies) ==
  /\ pc[c] = "explain"
  /\ MayRecord
  /\ \E result \in {RunExplain(Sole(prepared[c]), ReadReply(replies))} :
       /\ last' = [last EXCEPT ![c] = {[replies |-> replies, result |-> result]}]
       /\ IF IsErr(result) THEN UNCHANGED sinkVars
          ELSE Record([conn |-> c, event |-> result.ok])
  /\ pc' = [pc EXCEPT ![c] = "idle"]
  /\ UNCHANGED <<scene, sink, sent, prepared, counter>>

\* The explain fails in the inner service; the client's replies are kept.
ExplainFails(c) ==
  /\ pc[c] = "explain"
  /\ last' = [last EXCEPT ![c] = {[replies |-> <<>>, result |-> Err("InnerService")]}]
  /\ pc' = [pc EXCEPT ![c] = "idle"]
  /\ UNCHANGED <<scene, sink, sinkVars, sent, prepared, counter>>

-----------------------------------------------------------------------------
(* The consumer of the channel *)

Consume ==
  /\ channel # <<>>
  /\ channel' = Tail(channel)
  /\ received' = Append(received, Head(channel))
  /\ UNCHANGED <<scene, sink, receiverUp, pc, sent, prepared, counter, last>>

\* What the channel still holds goes with the receiver.
DropReceiver ==
  /\ sink \in {"Sender", "UnboundedSender"}
  /\ receiverUp
  /\ receiverUp' = FALSE
  /\ channel' = <<>>
  /\ UNCHANGED <<scene, sink, received, pc, sent, prepared, counter, last>>

Terminated ==
  /\ channel = <<>>
  /\ \A c \in Connections : pc[c] = "closed" \/ (pc[c] = "idle" /\ Len(sent[c]) = Scenes[scene].most)
  /\ UNCHANGED vars

Step(c) ==
  \/ \E m \in Scenes[scene].requests : Request(c, m)
  \/ Forwarded(c)
  \/ ForwardFails(c)
  \/ \E replies \in Scenes[scene].replies : Explained(c, replies)
  \/ ExplainFails(c)

Next == (\E c \in Connections : Step(c)) \/ Consume \/ DropReceiver \/ Terminated

Spec == Init /\ [][Next]_vars

\* The task of a connection is polled and the server answers it or fails;
\* nothing is assumed of the consumer.
FairSpec ==
  Spec /\ \A c \in Connections : /\ WF_vars(Forwarded(c) \/ ForwardFails(c))
                                 /\ WF_vars(\E replies \in Scenes[scene].replies : Explained(c, replies))

-----------------------------------------------------------------------------
(* Properties *)

\* Explain ids stay strictly negative and do not fall below i32::MIN however many
\* requests a connection has, the channel never holds more than its capacity and a
\* connection prepares at most one explain (the state of ExplainService,
\* alloc_request_id and the mpsc sinks).
TypeOK ==
  /\ scene \in DOMAIN Scenes /\ sink \in Sinks
  /\ sink = "Sender" => Len(channel) <= Capacity
  /\ sink \in {"Fn", "TracingOnly"} => channel = <<>>
  /\ receiverUp \in BOOLEAN
  /\ \A c \in Connections :
       /\ pc[c] \in {"idle", "forward", "explain", "closed"}
       /\ Len(sent[c]) <= Scenes[scene].most
       /\ Cardinality(prepared[c]) <= 1 /\ Cardinality(last[c]) <= 1
       /\ \A p \in prepared[c] : p.explain_request_id \subseteq MinId .. -1
       /\ counter[c] \in MinId .. -1

\* The consumer sees the events of one connection in the order of its requests,
\* whatever the other connections do, whatever was dropped and although the ids
\* may run out; each is about the request it names, and has an explain id of its
\* own (handle_request, alloc_request_id and the mpsc sinks).
CorrelatedInOrder ==
  LET entries == received \o channel IN
  \A i \in DOMAIN entries :
    LET e == entries[i].event
        c == entries[i].conn
    IN  /\ \E plan \in PlanFor(sent[c][e.client_request_id]) : plan.command = e.command
        /\ e.explain_request_id # {}
        /\ \A j \in i + 1 .. Len(entries) : entries[j].conn = c =>
             /\ e.client_request_id < entries[j].event.client_request_id
             /\ e.explain_request_id \cap entries[j].event.explain_request_id = {}

\* Recording never holds a connection up: a request that was received is
\* done with, although nobody may ever drain the channel (ExplainSink: "record
\* is non-blocking").
NeverBlocked ==
  \A c \in Connections : pc[c] = "forward" ~> pc[c] \in {"idle", "closed"}
=============================================================================

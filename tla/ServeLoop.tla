------------------------------ MODULE ServeLoop ------------------------------
(***************************************************************************)
(* Serve::run_until: the accept loop, the JoinSet of connection tasks, the *)
(* shutdown future and the drain.  A connection task is reduced to the     *)
(* phases the loop's guarantees depend on; what it forwards is modelled by *)
(* ProxyConnection.                                                        *)
(***************************************************************************)
EXTENDS Integers

CONSTANT Clients   \* the clients that may connect, each once

VARIABLES
  loop,         \* where run_until stands
  shutdown,     \* the shutdown future has resolved
  task,         \* per client: its connection, from the backlog to its end
  connections,  \* the JoinSet
  aborting      \* tasks aborted by the drop of the JoinSet

vars == <<loop, shutdown, task, connections, aborting>>

Running == {"dialing", "open", "busy"}
TaskStates == {"none", "backlog", "refused", "done", "aborted"} \cup Running
Returned == {"ok", "failed", "dropped"}
InFlight == {c \in Clients : task[c] \in Running}

Init ==
  /\ loop = "accepting" /\ shutdown = FALSE
  /\ task = [c \in Clients |-> "none"]
  /\ connections = {} /\ aborting = {}

Move(c, from, to) == task[c] = from /\ task' = [task EXCEPT ![c] = to]

(* The listener is dropped: connections nobody accepted are reset. *)
CloseListener ==
  task' = [c \in Clients |-> IF task[c] = "backlog" THEN "refused" ELSE task[c]]

-----------------------------------------------------------------------------
(* Clients, and the future handed to run_until. *)

Arrive(c) ==
  /\ loop \notin Returned
  /\ Move(c, "none", "backlog")
  /\ UNCHANGED <<loop, shutdown, connections, aborting>>

ShutdownResolves ==
  /\ ~shutdown
  /\ shutdown' = TRUE
  /\ UNCHANGED <<loop, task, connections, aborting>>

-----------------------------------------------------------------------------
(* run_until: select! takes any branch that is ready. *)

(* Mutation: the connection's task is spawned outside the JoinSet. *)
AcceptDetached(c) ==
  /\ loop = "accepting"
  /\ Move(c, "backlog", "dialing")
  /\ UNCHANGED <<loop, shutdown, connections, aborting>>

(* accept() yields a connection and its task is spawned; the upstream is   *)
(* dialled in that task, not in the loop.                                  *)
Accept(c) ==
  /\ loop = "accepting"
  /\ Move(c, "backlog", "dialing")
  /\ connections' = connections \cup {c}
  /\ UNCHANGED <<loop, shutdown, aborting>>

(* accept() fails: the error is returned, which drops the JoinSet. *)
AcceptFails ==
  /\ loop = "accepting"
  /\ loop' = "failed"
  /\ CloseListener
  /\ aborting' = InFlight \cap connections /\ connections' = {}
  /\ UNCHANGED shutdown

(* The shutdown future is seen to have resolved. *)
Break ==
  /\ loop = "accepting" /\ shutdown
  /\ loop' = "draining"
  /\ UNCHANGED <<shutdown, task, connections, aborting>>

(* Mutation: finished tasks are only joined by the drain. *)
ReapInDrain(c) ==
  /\ loop = "draining"
  /\ c \in connections /\ task[c] = "done"
  /\ connections' = connections \ {c}
  /\ UNCHANGED <<loop, shutdown, task, aborting>>

(* Mutation: the drain does not join. *)
ReapWhileAccepting(c) ==
  /\ loop = "accepting"
  /\ c \in connections /\ task[c] = "done"
  /\ connections' = connections \ {c}
  /\ UNCHANGED <<loop, shutdown, task, aborting>>

(* join_next() yields a finished task, in the loop or in the drain. *)
Reap(c) ==
  /\ loop \in {"accepting", "draining"}
  /\ c \in connections /\ task[c] = "done"
  /\ connections' = connections \ {c}
  /\ UNCHANGED <<loop, shutdown, task, aborting>>

(* Mutation: run_until returns after one join, and drops the others. *)
ReturnEarly ==
  /\ loop = "draining" /\ \A c \in connections : task[c] # "done"
  /\ loop' = "ok"
  /\ CloseListener
  /\ aborting' = InFlight \cap connections /\ connections' = {}
  /\ UNCHANGED shutdown

(* join_next() yields None: Ok(()) is returned. *)
Return ==
  /\ loop = "draining" /\ connections = {}
  /\ loop' = "ok"
  /\ CloseListener
  /\ UNCHANGED <<shutdown, connections, aborting>>

(* The owner drops the Serve future. *)
Drop ==
  /\ loop \notin Returned
  /\ loop' = "dropped"
  /\ CloseListener
  /\ aborting' = InFlight \cap connections /\ connections' = {}
  /\ UNCHANGED shutdown

-----------------------------------------------------------------------------
(* A connection task: accept_client after the upstream is dialled.  An     *)
(* aborted task runs on to its next await, then it is cancelled.           *)

Step(c, from, to) ==
  Move(c, from, to) /\ UNCHANGED <<loop, shutdown, connections, aborting>>

Dialled(c) == Step(c, "dialing", "open")
DialFails(c) == Step(c, "dialing", "done")
Request(c) == Step(c, "open", "busy")
Answered(c) == Step(c, "busy", "open")
ExchangeFails(c) == Step(c, "busy", "done")
Leave(c) == Step(c, "open", "done")

Cancelled(c) ==
  /\ c \in aborting /\ task[c] \in Running
  /\ task' = [task EXCEPT ![c] = "aborted"]
  /\ UNCHANGED <<loop, shutdown, connections, aborting>>

Dial(c) == Dialled(c) \/ DialFails(c)
Exchange(c) == Answered(c) \/ ExchangeFails(c)
Task(c) == Dial(c) \/ Request(c) \/ Exchange(c) \/ Leave(c) \/ Cancelled(c)

-----------------------------------------------------------------------------
(* run_until has returned and no task runs. *)
Terminated == loop \in Returned /\ InFlight = {} /\ UNCHANGED vars

Next ==
  \/ ShutdownResolves \/ AcceptFails \/ Break \/ Return \/ Drop \/ Terminated
  \/ \E c \in Clients : Arrive(c) \/ Accept(c) \/ Reap(c) \/ Task(c)

Spec == Init /\ [][Next]_vars

(* select! polls its branches in random order, so a branch that stays      *)
(* ready is taken; a cancelled task is dropped at its next await.          *)
FairSpec ==
  /\ Spec /\ WF_vars(Break) /\ WF_vars(Return)
  /\ \A c \in Clients : WF_vars(Reap(c)) /\ WF_vars(Cancelled(c))

(* Beyond the loop's power: every dial and exchange ends, and a client     *)
(* that can leave again and again does in the end.                         *)
PeersFinish ==
  \A c \in Clients :
    WF_vars(Dial(c)) /\ WF_vars(Exchange(c)) /\ SF_vars(Leave(c))

-----------------------------------------------------------------------------
(* Type invariant of the accept loop's state: the JoinSet holds tasks that *)
(* were spawned.                                                           *)
TypeOK ==
  /\ loop \in {"accepting", "draining"} \cup Returned
  /\ shutdown \in BOOLEAN
  /\ task \in [Clients -> TaskStates]
  /\ connections \subseteq {c \in Clients : task[c] \in Running \cup {"done"}}
  /\ aborting \subseteq Clients

(* When run_until returns Ok every connection it ever accepted has run to  *)
(* its own end: none is in flight and none was aborted, whether it was     *)
(* accepted before the shutdown resolved or in the race with it.           *)
DrainedOnOk ==
  loop = "ok" => \A c \in Clients : task[c] \in {"none", "refused", "done"}

(* No connection task escapes the server: while it runs it is in the       *)
(* JoinSet, or the JoinSet is gone and it is being aborted.                *)
NoOrphan ==
  \A c \in InFlight :
    IF loop \in Returned THEN c \in aborting ELSE c \in connections

(* A finished connection leaves the JoinSet while the server goes on, so   *)
(* the set does not grow with the connections ever served.                 *)
FinishedReaped ==
  \A c \in Clients : (task[c] = "done") ~> (c \notin connections)

(* A resolved shutdown ends the accept loop without any help of a client,  *)
(* and is complete when the connected clients leave in the end and the     *)
(* upstream lets every dial and exchange end.                              *)
ShutdownReturns ==
  /\ shutdown ~> (loop # "accepting")
  /\ PeersFinish => (shutdown ~> (loop \in Returned))

(* run_until drains the connections in flight however the loop ends.       *)
DrainedOnReturn ==
  loop \in {"ok", "failed"} =>
    \A c \in Clients : task[c] \in {"none", "refused", "done"}
=============================================================================

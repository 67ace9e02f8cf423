---------------------------- MODULE ProxyProcess ----------------------------
(***************************************************************************)
(* A proxy process: the Proxy built by from_srv or from_seed_list with its *)
(* background loop (Failover), handed to serve (ServeLoop).                *)
(*                                                                         *)
(* The two meet at the watch channel: run_until reads the target when it   *)
(* accepts a connection, the connection's task dials it later, the loop    *)
(* may swap it in between; and run_until owns the Proxy, so the loop ends  *)
(* with the server.  A client may connect again and again.                 *)
(***************************************************************************)
EXTENDS Integers, Sequences

CONSTANTS Hosts, None, Candidates, MaxElections, Reprobe, MaxFaults, Clients

ASSUME ProcessAssumption ==
  /\ None \notin Hosts
  /\ Candidates \subseteq Seq(Hosts) \ {<<>>}
  /\ MaxElections \in Nat /\ MaxFaults \in Nat
  /\ Reprobe \in BOOLEAN

VARIABLES
  claims, elections, hosts, probes, rejected, racing, winner,
  everClaimed, everDenied, stage, due, target, alive, faults,  \* see Failover
  loop, shutdown, task, connections, aborting,                 \* see ServeLoop
  destination,  \* per client: the upstream its connection was given, None if it has none
  primaries     \* the hosts that ever claimed to be the primary

Fo == INSTANCE Failover
Srv == INSTANCE ServeLoop

raceVars == <<claims, elections, hosts, probes, rejected, racing, winner, everClaimed, everDenied>>
failoverVars == <<raceVars, stage, due, target, alive, faults>>
serveVars == <<loop, shutdown, task, connections, aborting>>
vars == <<failoverVars, serveVars, destination, primaries>>

Init ==
  /\ Fo!Init /\ Srv!Init
  /\ destination = [c \in Clients |-> None]
  /\ primaries = claims

-----------------------------------------------------------------------------
(* The background task and the replica set *)

LoopTask == Fo!Task /\ UNCHANGED <<serveVars, destination, primaries>>
Timer == Fo!TimerFires /\ UNCHANGED <<serveVars, destination, primaries>>
Replies == Fo!Replies /\ UNCHANGED <<serveVars, destination, primaries>>
Faults ==
  /\ \E i \in DOMAIN probes : Fo!ProbeFaults(i)
  /\ UNCHANGED <<serveVars, destination, primaries>>
Elections ==
  /\ Fo!Elections
  /\ primaries' = primaries \cup claims'
  /\ UNCHANGED <<serveVars, destination>>

-----------------------------------------------------------------------------
(* serve, which runs once the Proxy is built *)

Built == target # None

\* Mutation: the listener is served before the Proxy has its target.
AcceptUnbuilt(c) ==
  /\ Srv!Accept(c)
  /\ destination' = [destination EXCEPT ![c] = target]
  /\ UNCHANGED <<failoverVars, primaries>>
\* Mutation: the target is cached by the first connection.
AcceptCached(c) ==
  /\ Built /\ Srv!Accept(c)
  /\ destination' = [destination EXCEPT ![c] = IF @ = None THEN target ELSE @]
  /\ UNCHANGED <<failoverVars, primaries>>
\* Proxy::call reads the target while the connection is accepted.
Accept(c) ==
  /\ Built /\ Srv!Accept(c)
  /\ destination' = [destination EXCEPT ![c] = target]
  /\ UNCHANGED <<failoverVars, primaries>>

\* forward_to opens the socket, to the name it was given.
Dials(c) ==
  /\ Srv!Dialled(c)
  /\ UNCHANGED <<failoverVars, destination, primaries>>

\* The rest of a connection's life; the last destination is kept in view.
Connection(c) ==
  /\ \/ Srv!Arrive(c) \/ Srv!DialFails(c) \/ Srv!Request(c) \/ Srv!Exchange(c)
     \/ Srv!Leave(c) \/ Srv!Cancelled(c) \/ (Built /\ Srv!Reap(c))
  /\ UNCHANGED <<failoverVars, destination, primaries>>

\* The client's connection is over and it comes back with another one.
Reconnect(c) ==
  /\ loop \notin Srv!Returned
  /\ task[c] = "done" /\ c \notin connections
  /\ task' = [task EXCEPT ![c] = "backlog"]
  /\ UNCHANGED <<failoverVars, loop, shutdown, connections, aborting, destination, primaries>>

Shutdown ==
  /\ Srv!ShutdownResolves \/ (Built /\ Srv!Break)
  /\ UNCHANGED <<failoverVars, destination, primaries>>

\* Mutation: a clone of the Proxy stays behind.
ReturnsKeepingProxy ==
  /\ Built /\ (Srv!Return \/ Srv!AcceptFails \/ Srv!Drop)
  /\ UNCHANGED <<failoverVars, destination, primaries>>
\* run_until ends, however it ends, and drops the Proxy it owns.
Returns ==
  /\ Built /\ (Srv!Return \/ Srv!AcceptFails \/ Srv!Drop)
  /\ alive' = FALSE
  /\ UNCHANGED <<raceVars, stage, due, target, faults, destination, primaries>>

\* The constructor failed, or server and loop are gone.
Terminated ==
  /\ stage = "refused" \/ (loop \in Srv!Returned /\ Srv!InFlight = {} /\ stage = "stopped")
  /\ UNCHANGED vars

Next ==
  \/ LoopTask \/ Timer \/ Replies \/ Faults \/ Elections
  \/ Shutdown \/ Returns \/ Terminated
  \/ \E c \in Clients : Accept(c) \/ Dials(c) \/ Connection(c) \/ Reconnect(c)

Spec == Init /\ [][Next]_vars

\* The runtime polls the loop's task and fires its timers, and probes end.
FairSpec == Spec /\ WF_vars(LoopTask) /\ WF_vars(Timer) /\ WF_vars(Replies)

-----------------------------------------------------------------------------
(* Properties *)

\* Type invariant of the process: a connection that was accepted has a
\* destination (Proxy::call).
TypeOK ==
  /\ Fo!TypeOK /\ Srv!TypeOK
  /\ destination \in [Clients -> Hosts \cup {None}]
  /\ \A c \in Clients : task[c] \in Srv!Running => destination[c] # None
  /\ primaries \subseteq Hosts

\* A client is only ever connected to a host that has claimed to be the
\* primary, through failed lookups, failed probes and rounds without a primary.
DialsOnlyClaimants == \A c \in Clients : destination[c] \in primaries \cup {None}

\* Once the replica set has settled on one primary the connections accepted
\* are, from some time on, all sent to it.
NewConnectionsFollow ==
  \A h \in {g \in Hosts : \A list \in Candidates : \E i \in DOMAIN list : list[i] = g} :
    <>[](claims = {h}) =>
      <>[][\A c \in Clients : task[c] = "backlog" /\ task'[c] = "dialing" => destination'[c] = h]_vars

\* When the server has returned, been dropped or failed, the background loop
\* stops, although nobody tells it (spawn_reprobe_loop, closed()).
LoopStopsWithServer == (loop \in Srv!Returned) ~> (stage = "stopped")
=============================================================================

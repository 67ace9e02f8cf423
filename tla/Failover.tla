------------------------------- MODULE Failover -------------------------------
(***************************************************************************)
(* The upstream target of a Proxy built by from_srv or from_seed_list: the *)
(* one-shot selection at startup, then the background loop of              *)
(* spawn_reprobe_loop, which re-selects the primary on an interval until   *)
(* the Proxy is dropped.  The race between the probes is SelectPrimary's.  *)
(***************************************************************************)
EXTENDS Integers, Sequences

CONSTANTS
  Hosts, None, Candidates, MaxElections,  \* see SelectPrimary
  Reprobe,     \* FailoverConfig::reprobe_interval is Some
  MaxFaults    \* bound: failed lookups, failed probes and timeouts

ASSUME FailoverAssumption ==
  /\ None \notin Hosts
  /\ Candidates \subseteq Seq(Hosts) \ {<<>>}
  /\ MaxElections \in Nat /\ MaxFaults \in Nat
  /\ Reprobe \in BOOLEAN

VARIABLES
  claims, elections, hosts, probes, rejected, racing, winner,
  everClaimed, everDenied,  \* see SelectPrimary
  stage,    \* where the constructor, then the loop, stands
  due,      \* the interval sleep has elapsed
  target,   \* the watch channel's value; None until the Proxy is built
  alive,    \* the Proxy, and with it the receiver half, exists
  faults    \* faults so far

Race == INSTANCE SelectPrimary

raceVars == <<claims, elections, hosts, probes, rejected, racing, winner,
              everClaimed, everDenied>>
loopVars == <<stage, due, target, alive>>
vars == <<raceVars, loopVars, faults>>

Stages == {"resolve", "select", "sleep", "stopped", "refused"}

Init ==
  /\ Race!Init
  /\ stage = "resolve" /\ due = FALSE
  /\ target = None /\ alive = FALSE /\ faults = 0

(* resolve_with_service_name answers, or the seed list is cloned; then the *)
(* probes start.                                                           *)
Resolve(list) ==
  /\ stage = "resolve"
  /\ Race!Start(list)
  /\ stage' = "select"
  /\ UNCHANGED <<due, target, alive, faults>>

(* The top of the loop: select! polls closed() and a fresh sleep at once,  *)
(* so a Proxy dropped during the round stops the loop here.                *)
Rest == stage' = IF alive THEN "sleep" ELSE "stopped"

(* The lookup fails: from_srv returns the error, the loop keeps its target. *)
ResolveFails ==
  /\ stage = "resolve" /\ faults < MaxFaults
  /\ faults' = faults + 1
  /\ IF target = None THEN stage' = "refused" ELSE Rest
  /\ UNCHANGED <<raceVars, due, target, alive>>

(* select_target: the constructor refuses to build a Proxy without a       *)
(* primary, and otherwise spawns the loop when re-probing is enabled.      *)
Construct ==
  /\ stage = "select" /\ ~racing /\ target = None
  /\ \/ /\ winner = None
        /\ stage' = "refused"
        /\ UNCHANGED <<target, alive>>
     \/ /\ winner # None
        /\ target' = winner /\ alive' = TRUE
        /\ stage' = IF Reprobe THEN "sleep" ELSE "stopped"
  /\ UNCHANGED <<raceVars, due, faults>>

(* Mutation: the first candidate is the fall-back when no primary is found. *)
ApplyFallback ==
  /\ stage = "select" /\ ~racing /\ target # None
  /\ target' = IF winner = None THEN hosts[1] ELSE winner
  /\ Rest
  /\ UNCHANGED <<raceVars, due, alive, faults>>

(* Mutation: the target is only replaced once its host has been rejected. *)
ApplyWhenRejected ==
  /\ stage = "select" /\ ~racing /\ target # None
  /\ target' = IF winner # None /\ \E k \in DOMAIN rejected : rejected[k].host = target
               THEN winner ELSE target
  /\ Rest
  /\ UNCHANGED <<raceVars, due, alive, faults>>

(* apply_primary: a selected primary replaces the target, even when the    *)
(* Proxy was dropped meanwhile; without one the target stays.              *)
Apply ==
  /\ stage = "select" /\ ~racing /\ target # None
  /\ target' = IF winner = None THEN target ELSE winner
  /\ Rest
  /\ UNCHANGED <<raceVars, due, alive, faults>>

(* The interval timer fires: the sleep branch of select! is ready. *)
TimerFires ==
  /\ stage = "sleep" /\ ~due
  /\ due' = TRUE
  /\ UNCHANGED <<raceVars, stage, target, alive, faults>>

(* select! takes a branch that is ready, at random when both are. *)
Wake ==
  /\ stage = "sleep"
  /\ \/ due /\ stage' = "resolve"
     \/ ~alive /\ stage' = "stopped"
  /\ due' = FALSE
  /\ UNCHANGED <<raceVars, target, alive, faults>>

(* The owner of the Proxy drops it: the watch channel has no receiver left. *)
DropProxy ==
  /\ alive
  /\ alive' = FALSE
  /\ UNCHANGED <<raceVars, stage, due, target, faults>>

Elections ==
  \E S \in Race!Claimants : Race!Elect(S) /\ UNCHANGED <<loopVars, faults>>

ProbeAnswers(i) == Race!Answer(i) /\ UNCHANGED <<loopVars, faults>>

ProbeFaults(i) ==
  /\ faults < MaxFaults
  /\ faults' = faults + 1
  /\ Race!Fail(i) \/ Race!Elapse(i)
  /\ UNCHANGED loopVars

Gathers == Race!Loop /\ UNCHANGED <<loopVars, faults>>

(* One step of the constructor's or the loop's task. *)
Task ==
  \/ \E list \in Candidates : Resolve(list)
  \/ ResolveFails \/ Construct \/ Apply \/ Wake \/ Gathers

Replies == \E i \in DOMAIN probes : ProbeAnswers(i)

(* The constructor has failed, or the Proxy and its loop are gone. *)
Terminated == stage \in {"stopped", "refused"} /\ UNCHANGED vars

Next ==
  \/ Task \/ Replies \/ TimerFires \/ DropProxy \/ Elections \/ Terminated
  \/ \E i \in DOMAIN probes : ProbeFaults(i)

Spec == Init /\ [][Next]_vars

(* The runtime polls ready tasks and fires timers; every probe completes,  *)
(* by its answer, a failure or its timeout.                                *)
FairSpec ==
  Spec /\ WF_vars(Task) /\ WF_vars(TimerFires) /\ WF_vars(Replies)

-----------------------------------------------------------------------------
(* Type invariant of the loop's state, the race's included. *)
TypeOK ==
  /\ Race!TypeOK
  /\ stage \in Stages /\ due \in BOOLEAN /\ alive \in BOOLEAN
  /\ target \in Hosts \cup {None} /\ faults \in 0 .. MaxFaults

(* The target only ever moves to a host that claimed to be the primary     *)
(* during the round that moves it: neither a failed lookup, nor a round    *)
(* without a primary, nor the result of an earlier round retargets the     *)
(* Proxy or leaves it without an upstream.                                 *)
MovesToClaimant == [][target' # target => target' \in everClaimed]_vars

(* A round in which one host claimed throughout, no other claimed at all   *)
(* and its own probes neither failed nor timed out ends with that host as  *)
(* the target: no faster answer of a secondary keeps a stale primary.      *)
FindsPrimary ==
  (Construct \/ Apply) =>
    \A h \in Hosts :
      (/\ everClaimed = {h} /\ h \notin everDenied
       /\ \E i \in DOMAIN hosts : hosts[i] = h
       /\ ~\E k \in DOMAIN rejected : rejected[k].host = h)
      => target' = h
RoundFindsPrimary == [][FindsPrimary]_vars

(* Once the replica set has settled on one primary, listed by every lookup *)
(* or seed list, and faults have ceased, a Proxy with re-probing comes to  *)
(* target that primary for good.                                           *)
Converges ==
  \A h \in {g \in Hosts : \A list \in Candidates : \E i \in DOMAIN list : list[i] = g} :
    <>[](claims = {h}) =>
      <>[](target = h \/ ~alive \/ stage = "refused")
=============================================================================

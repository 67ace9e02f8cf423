---------------------------- MODULE SelectPrimary ----------------------------
(***************************************************************************)
(* select_primary: every candidate host is probed with a hello, all probes *)
(* race, each under its own timeout, and the first that reports itself     *)
(* primary wins.  The replica set may hold elections while the race runs,  *)
(* so that an answer may be out of date when the loop looks at it.         *)
(***************************************************************************)
EXTENDS Integers, Sequences

CONSTANTS
  Hosts,         \* the members of the replica set
  None,          \* Option::None
  Candidates,    \* the host lists a race may be started with, in SRV order
  MaxElections   \* bound: changes of the set of claimants

ASSUME SelectAssumption ==
  /\ None \notin Hosts
  /\ Candidates \subseteq Seq(Hosts) \ {<<>>}
  /\ MaxElections \in Nat

VARIABLES
  claims,      \* the hosts whose hello says isWritablePrimary
  elections,   \* changes of claims so far
  hosts,       \* the list being probed
  probes,      \* one probe per entry of hosts
  rejected,    \* the rejections gathered so far, in completion order
  racing,      \* the select loop has not returned
  winner,      \* Selection::Primary's host
  everClaimed, \* history: hosts that claimed at some moment of the race
  everDenied   \* history: hosts that did not claim at some moment of it

raceVars == <<hosts, probes, rejected, racing, winner>>
vars == <<claims, elections, hosts, probes, rejected, racing, winner,
          everClaimed, everDenied>>

Settled == {"NotPrimary", "Failed", "TimedOut"}
ProbeStates == {"pending", "primary", "gathered"} \cup Settled

(* None, one or two hosts (a deposed primary that has not noticed yet)     *)
(* claim to be the primary.                                                *)
Claimants == {S \in SUBSET Hosts : \A a, b, c \in S : a = b \/ b = c \/ a = c}

Init ==
  /\ claims \in Claimants /\ elections = 0
  /\ hosts = <<>> /\ probes = <<>> /\ rejected = <<>>
  /\ racing = FALSE /\ winner = None
  /\ everClaimed = {} /\ everDenied = {}

(* The probes are built and collected; none has been polled to completion. *)
Start(list) ==
  /\ ~racing
  /\ hosts' = list
  /\ probes' = [i \in 1 .. Len(list) |-> "pending"]
  /\ rejected' = <<>> /\ racing' = TRUE /\ winner' = None
  /\ everClaimed' = claims /\ everDenied' = Hosts \ claims
  /\ UNCHANGED <<claims, elections>>

(* The replica set holds an election, or a member notices its outcome. *)
Elect(S) ==
  /\ elections < MaxElections /\ S # claims
  /\ claims' = S /\ elections' = elections + 1
  /\ everClaimed' = everClaimed \cup S
  /\ everDenied' = everDenied \cup (Hosts \ S)
  /\ UNCHANGED raceVars

Complete(i, outcome) ==
  /\ racing /\ i \in DOMAIN probes /\ probes[i] = "pending"
  /\ probes' = [probes EXCEPT ![i] = outcome]
  /\ UNCHANGED <<claims, elections, hosts, rejected, racing, winner,
                 everClaimed, everDenied>>

(* HelloProbe::is_primary: the host answers with its role of the moment. *)
Answer(i) ==
  Complete(i, IF hosts[i] \in claims THEN "primary" ELSE "NotPrimary")

(* Connect, request, response or malformed reply: ProbeError. *)
Fail(i) == Complete(i, "Failed")

(* The per-host timer elapses before the probe completes. *)
Elapse(i) == Complete(i, "TimedOut")

(* Mutation: the loop gives up at the first probe that is not a primary. *)
GatherEarly(i) ==
  /\ racing /\ i \in DOMAIN probes
  /\ \/ /\ probes[i] = "primary"
        /\ winner' = hosts[i] /\ racing' = FALSE
        /\ UNCHANGED <<probes, rejected>>
     \/ /\ probes[i] \in Settled
        /\ rejected' = Append(rejected, [host |-> hosts[i], reason |-> probes[i]])
        /\ probes' = [probes EXCEPT ![i] = "gathered"]
        /\ racing' = FALSE
        /\ UNCHANGED winner
  /\ UNCHANGED <<claims, elections, hosts, everClaimed, everDenied>>

(* Mutation: the loop waits for every probe before it looks for a winner. *)
GatherAll(i) ==
  /\ racing /\ i \in DOMAIN probes
  /\ \A j \in DOMAIN probes : probes[j] # "pending"
  /\ \/ /\ probes[i] = "primary"
        /\ winner' = hosts[i] /\ racing' = FALSE
        /\ UNCHANGED <<probes, rejected>>
     \/ /\ probes[i] \in Settled
        /\ rejected' = Append(rejected, [host |-> hosts[i], reason |-> probes[i]])
        /\ probes' = [probes EXCEPT ![i] = "gathered"]
        /\ racing' = (\E j \in DOMAIN probes : probes'[j] # "gathered")
        /\ UNCHANGED winner
  /\ UNCHANGED <<claims, elections, hosts, everClaimed, everDenied>>

(* probes.next() yields a completed probe: a primary ends the race and     *)
(* drops the other probes; a rejection is gathered, the last one ends the  *)
(* race without a primary.                                                 *)
Gather(i) ==
  /\ racing /\ i \in DOMAIN probes
  /\ \/ /\ probes[i] = "primary"
        /\ winner' = hosts[i] /\ racing' = FALSE
        /\ UNCHANGED <<probes, rejected>>
     \/ /\ probes[i] \in Settled
        /\ rejected' = Append(rejected, [host |-> hosts[i], reason |-> probes[i]])
        /\ probes' = [probes EXCEPT ![i] = "gathered"]
        /\ racing' = (\E j \in DOMAIN probes : probes'[j] # "gathered")
        /\ UNCHANGED winner
  /\ UNCHANGED <<claims, elections, hosts, everClaimed, everDenied>>

Network ==
  \/ \E S \in Claimants : Elect(S)
  \/ \E i \in DOMAIN probes : Answer(i) \/ Fail(i)
Timer == \E i \in DOMAIN probes : Elapse(i)
Loop == \E i \in DOMAIN probes : Gather(i)

Next == (\E list \in Candidates : Start(list)) \/ Network \/ Timer \/ Loop

Spec == Init /\ [][Next]_vars

(* The select loop is polled when a probe has completed.  No host is       *)
(* obliged to answer.                                                      *)
FairSpec == Spec /\ WF_vars(Loop)

-----------------------------------------------------------------------------
(* Type invariant of the race's state. *)
TypeOK ==
  /\ claims \subseteq Hosts /\ elections \in 0 .. MaxElections
  /\ hosts \in Seq(Hosts)
  /\ probes \in [1 .. Len(hosts) -> ProbeStates]
  /\ rejected \in Seq([host : Hosts, reason : Settled])
  /\ racing \in BOOLEAN /\ winner \in Hosts \cup {None}
  /\ everClaimed \subseteq Hosts /\ everDenied \subseteq Hosts

(* Selection::Primary names a candidate that really claimed to be the      *)
(* primary while this race ran, however the elections fell: the answer of  *)
(* an earlier race or of another host is never used.                       *)
WinnerClaimed ==
  winner # None => winner \in everClaimed /\ \E i \in DOMAIN hosts : hosts[i] = winner

(* Selection::NoPrimary is justified: every probe has been gathered, and   *)
(* each candidate either was not the primary at some moment of the race or *)
(* its probe failed or ran out of time.  A steady, reachable primary is    *)
(* never missed because another host answered first.                       *)
NoPrimaryJustified ==
  (hosts # <<>> /\ ~racing /\ winner = None) =>
    /\ \A i \in DOMAIN probes : probes[i] = "gathered"
    /\ Len(rejected) = Len(hosts)
    /\ \A i \in DOMAIN hosts :
         \/ hosts[i] \in everDenied
         \/ \E k \in DOMAIN rejected :
              /\ rejected[k].host = hosts[i]
              /\ rejected[k].reason \in {"Failed", "TimedOut"}

(* Whatever select_primary returns is justified by what the hosts were     *)
(* while it ran: a primary by its own claim, NoPrimary by every candidate. *)
SelectionJustified == WinnerClaimed /\ NoPrimaryJustified

(* Once a primary has answered, the selection converges on a primary       *)
(* without waiting for the slow hosts or for any timer; and with the       *)
(* runtime's timers firing the race always ends, even when no host ever    *)
(* answers: each probe has its own timeout.                                *)
RaceEnds ==
  /\ (racing /\ \E i \in DOMAIN probes : probes[i] = "primary")
       ~> (~racing /\ winner # None)
  /\ WF_vars(Timer) => (racing ~> ~racing)

(* The first host in SRV order is the one the proxy uses. *)
FirstRecordUsed == winner # None => winner = hosts[1]
=============================================================================

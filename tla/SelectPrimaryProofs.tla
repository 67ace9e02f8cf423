------------------------- MODULE SelectPrimaryProofs -------------------------
(***************************************************************************)
(* For any replica set, any candidate lists and any number of elections:   *)
(* whatever select_primary returns is justified by what the hosts were     *)
(* while it ran (SelectionJustified).  The steps of the race are proved    *)
(* one lemma each, so that the modules that run races can cite them.       *)
(***************************************************************************)
EXTENDS SelectPrimary, FiniteSetTheorems, TLAPS

(* The entries of hosts whose rejection the loop has gathered. *)
Gathered == {i \in DOMAIN probes : probes[i] = "gathered"}

(* The history variables cover the present of a running race. *)
HistoryCurrent ==
  racing => claims \subseteq everClaimed /\ Hosts \ claims \subseteq everDenied

(* A completed probe reports a role its host had during this race. *)
AnswersTrue ==
  \A i \in DOMAIN probes :
    /\ probes[i] = "primary" => hosts[i] \in everClaimed
    /\ probes[i] = "NotPrimary" => hosts[i] \in everDenied

(* A gathered probe has its reason: the host denied, or the rejection kept *)
(* for it is a failure or a timeout.                                       *)
Reasoned(i) ==
  \/ hosts[i] \in everDenied
  \/ \E k \in DOMAIN rejected :
       rejected[k].host = hosts[i] /\ rejected[k].reason \in {"Failed", "TimedOut"}
GatheredReasoned == \A i \in Gathered : Reasoned(i)

(* One rejection is kept per gathered probe. *)
RejectedCounted == Cardinality(Gathered) = Len(rejected)

(* The race ends with a winner or with every probe gathered. *)
EndsForAReason ==
  /\ winner # None => ~racing
  /\ ~racing /\ winner = None => Gathered = DOMAIN probes

(* The inductive invariant. *)
RaceInv ==
  /\ TypeOK /\ HistoryCurrent /\ AnswersTrue /\ GatheredReasoned
  /\ RejectedCounted /\ EndsForAReason /\ WinnerClaimed

-----------------------------------------------------------------------------
(* Before the first race nothing is probed and nothing is rejected. *)
LEMMA InitRace == Init => RaceInv
<1> SUFFICES ASSUME Init PROVE RaceInv
  OBVIOUS
<1>1. TypeOK
  <2>1. probes \in [1 .. Len(hosts) -> ProbeStates]
    BY DEF Init
  <2>2. claims \subseteq Hosts /\ elections \in 0 .. MaxElections
    BY SelectAssumption DEF Init, Claimants
  <2>3. hosts \in Seq(Hosts) /\ rejected \in Seq([host : Hosts, reason : Settled])
    BY DEF Init
  <2>4. QED
    BY Zenon, <2>1, <2>2, <2>3 DEF Init, TypeOK
<1>2. DOMAIN probes = {} /\ Gathered = {}
  BY DEF Init, Gathered
<1>3. RejectedCounted
  BY <1>2, FS_EmptySet DEF Init, RejectedCounted
<1>4. QED
  BY <1>1, <1>2, <1>3 DEF Init, RaceInv, HistoryCurrent, AnswersTrue,
     GatheredReasoned, EndsForAReason, WinnerClaimed

(* A new race starts with every probe pending and a fresh history. *)
LEMMA StartRace ==
  ASSUME RaceInv, NEW list \in Candidates, Start(list)
  PROVE  RaceInv' /\ hosts' # <<>>
<1>1. list \in Seq(Hosts) /\ list # <<>>
  BY SelectAssumption
<1>2. TypeOK'
  BY <1>1 DEF Start, RaceInv, TypeOK, ProbeStates
<1>3. Gathered' = {}
  BY DEF Start, Gathered
<1>4. RejectedCounted'
  BY <1>3, FS_EmptySet DEF Start, RejectedCounted
<1>5. HistoryCurrent' /\ AnswersTrue' /\ EndsForAReason' /\ WinnerClaimed'
  BY DEF Start, HistoryCurrent, AnswersTrue, EndsForAReason, WinnerClaimed
<1>6. GatheredReasoned'
  BY <1>3 DEF GatheredReasoned
<1>7. QED
  BY <1>1, <1>2, <1>4, <1>5, <1>6 DEF RaceInv, Start

(* An election only adds to the histories. *)
LEMMA ElectRace ==
  ASSUME RaceInv, NEW S \in Claimants, Elect(S)
  PROVE  RaceInv'
<1>1. S \subseteq Hosts
  BY DEF Claimants
<1>2. TypeOK'
  BY <1>1, SelectAssumption DEF Elect, RaceInv, TypeOK, raceVars
<1>3. UNCHANGED <<hosts, probes, rejected, racing, winner, Gathered>>
  BY DEF Elect, raceVars, Gathered
<1>4. everClaimed \subseteq everClaimed' /\ everDenied \subseteq everDenied'
  BY DEF Elect
<1>5. HistoryCurrent'
  BY DEF Elect, HistoryCurrent
<1>6. AnswersTrue' /\ WinnerClaimed'
  BY <1>3, <1>4 DEF RaceInv, AnswersTrue, WinnerClaimed
<1>7. GatheredReasoned'
  BY <1>3, <1>4 DEF RaceInv, GatheredReasoned, Reasoned
<1>8. RejectedCounted' /\ EndsForAReason'
  BY <1>3 DEF RaceInv, RejectedCounted, EndsForAReason
<1>9. QED
  BY <1>2, <1>5, <1>6, <1>7, <1>8 DEF RaceInv

(* A probe completes with an outcome that its host's role of the moment    *)
(* bears out.                                                              *)
LEMMA CompleteRace ==
  ASSUME RaceInv, NEW i \in DOMAIN probes, Answer(i) \/ Fail(i) \/ Elapse(i)
  PROVE  RaceInv'
<1>1. PICK outcome \in Settled \cup {"primary"} :
        /\ Complete(i, outcome)
        /\ outcome = "primary" => hosts[i] \in claims
        /\ outcome = "NotPrimary" => hosts[i] \notin claims
  BY DEF Answer, Fail, Elapse, Settled
<1>2. hosts[i] \in Hosts
  BY DEF RaceInv, TypeOK
<1>3. TypeOK'
  BY <1>1 DEF Complete, RaceInv, TypeOK, ProbeStates
<1>4. Gathered' = Gathered
  BY <1>1 DEF Complete, Gathered, Settled, RaceInv, TypeOK
<1>5. AnswersTrue'
  BY <1>1, <1>2 DEF Complete, RaceInv, TypeOK, HistoryCurrent, AnswersTrue
<1>6. HistoryCurrent' /\ WinnerClaimed' /\ RejectedCounted'
  BY <1>1, <1>4 DEF Complete, RaceInv, HistoryCurrent, WinnerClaimed, RejectedCounted
<1>7. GatheredReasoned'
  BY <1>1, <1>4 DEF Complete, RaceInv, GatheredReasoned, Reasoned
<1>8. EndsForAReason'
  BY <1>1, <1>4 DEF Complete, RaceInv, EndsForAReason
<1>9. QED
  BY <1>3, <1>5, <1>6, <1>7, <1>8 DEF RaceInv

(* The loop takes a completed probe: a winner is a true claimant, and a    *)
(* rejection moves one probe and one reason to the gathered ones.          *)
LEMMA GatherRace ==
  ASSUME RaceInv, NEW i \in DOMAIN probes, Gather(i)
  PROVE  RaceInv'
<1>1. CASE probes[i] = "primary"
  <2>1. /\ winner' = hosts[i] /\ racing' = FALSE
        /\ UNCHANGED <<claims, elections, hosts, probes, rejected, everClaimed,
                       everDenied, Gathered>>
    BY <1>1 DEF Gather, Settled, Gathered
  <2>2. hosts[i] \in Hosts /\ i \in DOMAIN hosts
    BY DEF RaceInv, TypeOK
  <2>3. TypeOK'
    BY Zenon, <2>1, <2>2 DEF RaceInv, TypeOK
  <2>4. WinnerClaimed'
    BY <1>1, <2>1, <2>2 DEF RaceInv, AnswersTrue, WinnerClaimed
  <2>5. winner' # None
    BY <2>1, <2>2, SelectAssumption
  <2>6. GatheredReasoned'
    BY <2>1 DEF RaceInv, GatheredReasoned, Reasoned
  <2>7. QED
    BY <2>1, <2>3, <2>4, <2>5, <2>6 DEF RaceInv, HistoryCurrent, AnswersTrue,
       RejectedCounted, EndsForAReason
<1>2. CASE probes[i] \in Settled
  <2> DEFINE r == [host |-> hosts[i], reason |-> probes[i]]
  <2>1. /\ rejected' = Append(rejected, r)
        /\ probes' = [probes EXCEPT ![i] = "gathered"]
        /\ racing' = (\E j \in DOMAIN probes : probes'[j] # "gathered")
        /\ racing
        /\ UNCHANGED <<winner, claims, elections, hosts, everClaimed, everDenied>>
    BY Zenon, <1>2 DEF Gather, Settled
  <2>2. r \in [host : Hosts, reason : Settled] /\ i \in 1 .. Len(hosts)
    BY <1>2 DEF RaceInv, TypeOK
  <2>3. TypeOK'
    BY <2>1, <2>2 DEF RaceInv, TypeOK, ProbeStates
  <2>4. Gathered' = Gathered \cup {i} /\ i \notin Gathered /\ DOMAIN probes' = DOMAIN probes
    BY <1>2, <2>1 DEF RaceInv, TypeOK, Gathered, Settled
  <2>5. RejectedCounted'
    <3>1. IsFiniteSet(DOMAIN probes)
      BY FS_Interval DEF RaceInv, TypeOK
    <3>2. IsFiniteSet(Gathered)
      BY <3>1, FS_Subset DEF Gathered
    <3>3. Cardinality(Gathered') = Cardinality(Gathered) + 1
      BY <2>4, <3>2, FS_AddElement
    <3>4. Len(rejected') = Len(rejected) + 1
      BY <2>1 DEF RaceInv, TypeOK
    <3>5. QED
      BY <3>3, <3>4 DEF RaceInv, RejectedCounted
  <2>6. GatheredReasoned'
    <3>1. ASSUME NEW j \in Gathered PROVE Reasoned(j)'
      <4>1. \A k \in DOMAIN rejected : k \in DOMAIN rejected' /\ rejected'[k] = rejected[k]
        BY <2>1, <2>2 DEF RaceInv, TypeOK
      <4>2. Reasoned(j)
        BY DEF RaceInv, GatheredReasoned
      <4>3. QED
        BY <2>1, <4>1, <4>2 DEF Reasoned
    <3>2. Reasoned(i)'
      <4>1. CASE probes[i] = "NotPrimary"
        BY <2>1, <4>1 DEF RaceInv, AnswersTrue, Reasoned
      <4>2. CASE probes[i] \in {"Failed", "TimedOut"}
        <5>1. Len(rejected') \in DOMAIN rejected' /\ rejected'[Len(rejected')] = r
          BY <2>1, <2>2 DEF RaceInv, TypeOK
        <5>2. QED
          BY <2>1, <4>2, <5>1 DEF Reasoned
      <4>3. QED
        BY <1>2, <4>1, <4>2 DEF Settled
    <3>3. QED
      BY <2>4, <3>1, <3>2 DEF GatheredReasoned
  <2>7. AnswersTrue'
    BY <2>1, <2>2 DEF RaceInv, TypeOK, AnswersTrue
  <2>8. EndsForAReason'
    BY Zenon, <2>1, <2>4 DEF RaceInv, EndsForAReason, Gathered
  <2>9. HistoryCurrent' /\ WinnerClaimed'
    BY <2>1 DEF RaceInv, HistoryCurrent, WinnerClaimed
  <2>10. QED
    BY <2>3, <2>5, <2>6, <2>7, <2>8, <2>9 DEF RaceInv
<1>3. QED
  BY Zenon, <1>1, <1>2 DEF Gather

(* Nothing the race's invariant speaks of changes in a stuttering step. *)
LEMMA StutterRace == RaceInv /\ UNCHANGED vars => RaceInv'
BY DEF vars, RaceInv, TypeOK, HistoryCurrent, AnswersTrue, GatheredReasoned,
       Reasoned, Gathered, RejectedCounted, EndsForAReason, WinnerClaimed

(* The invariant is what select_primary's answer needs. *)
LEMMA RaceJustifies == RaceInv => SelectionJustified
<1> SUFFICES ASSUME RaceInv, hosts # <<>>, ~racing, winner = None
             PROVE  /\ \A i \in DOMAIN probes : probes[i] = "gathered"
                    /\ Len(rejected) = Len(hosts)
                    /\ \A i \in DOMAIN hosts : Reasoned(i)
  BY DEF RaceInv, SelectionJustified, NoPrimaryJustified, Reasoned
<1>1. Gathered = DOMAIN probes /\ DOMAIN probes = 1 .. Len(hosts)
      /\ DOMAIN hosts = 1 .. Len(hosts) /\ Len(hosts) \in Nat
  BY DEF RaceInv, TypeOK, EndsForAReason
<1>2. Cardinality(1 .. Len(hosts)) = Len(hosts)
  BY <1>1, FS_Interval
<1>3. QED
  BY Zenon, <1>1, <1>2 DEF RaceInv, RejectedCounted, GatheredReasoned, Gathered

-----------------------------------------------------------------------------
(* Every step of the selection preserves the race's invariant. *)
LEMMA NextRace == RaceInv /\ [Next]_vars => RaceInv'
<1> SUFFICES ASSUME RaceInv, [Next]_vars PROVE RaceInv'
  OBVIOUS
<1>1. ASSUME NEW list \in Candidates, Start(list) PROVE RaceInv'
  BY <1>1, StartRace
<1>2. CASE Network
  BY <1>2, ElectRace, CompleteRace DEF Network
<1>3. CASE Timer
  BY <1>3, CompleteRace DEF Timer
<1>4. CASE Loop
  BY <1>4, GatherRace DEF Loop
<1>5. CASE UNCHANGED vars
  BY <1>5, StutterRace
<1>6. QED
  BY <1>1, <1>2, <1>3, <1>4, <1>5 DEF Next

(* The race's invariant holds throughout. *)
LEMMA RaceAlways == Spec => []RaceInv
BY InitRace, NextRace, PTL DEF Spec

(* select_primary returns only what the hosts justify, for every replica   *)
(* set and every interleaving of answers, failures, timeouts and           *)
(* elections: a winner is a candidate that claimed to be the primary while *)
(* the race ran, and NoPrimary comes with exactly one rejection per        *)
(* candidate, each with its reason.                                        *)
THEOREM SelectionIsJustified == Spec => []SelectionJustified
BY RaceAlways, RaceJustifies, PTL
=============================================================================

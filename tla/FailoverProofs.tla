---------------------------- MODULE FailoverProofs ----------------------------
(***************************************************************************)
(* For any replica set, any candidate lists and any number of elections    *)
(* and faults: the target only moves to a claimant of the round that moves *)
(* it (MovesToClaimant), and a round in which one reachable host claimed   *)
(* throughout ends with that host as the target (RoundFindsPrimary).       *)
(***************************************************************************)
EXTENDS Failover, TLAPS

(* The race's invariant and the lemmas on its steps. *)
Proofs == INSTANCE SelectPrimaryProofs

(* A round whose result is awaited probes at least one candidate. *)
SelectProbes == stage = "select" => hosts # <<>>

(* The types of the loop's own state. *)
LoopTyped ==
  /\ stage \in Stages /\ due \in BOOLEAN /\ alive \in BOOLEAN
  /\ target \in Hosts \cup {None} /\ faults \in 0 .. MaxFaults

(* The inductive invariant. *)
FailoverInv == Proofs!RaceInv /\ LoopTyped /\ SelectProbes

-----------------------------------------------------------------------------
(* The race is run with constants it allows. *)
LEMMA RaceAssumed == Proofs!SelectAssumption
BY FailoverAssumption DEF Proofs!SelectAssumption

(* The race's own steps, as the constructor and the loop take them. *)
LEMMA RaceSteps ==
  /\ Race!Init => Proofs!Init
  /\ \A list : Race!Start(list) => Proofs!Start(list)
  /\ Race!Claimants = Proofs!Claimants
  /\ \A S : Race!Elect(S) => Proofs!Elect(S)
  /\ \A i : Race!Answer(i) \/ Race!Fail(i) \/ Race!Elapse(i)
            => Proofs!Answer(i) \/ Proofs!Fail(i) \/ Proofs!Elapse(i)
  /\ \A i : Race!Gather(i) => Proofs!Gather(i)
  /\ UNCHANGED raceVars => UNCHANGED Proofs!vars
<1>1. Race!Init => Proofs!Init
  BY DEF Race!Init, Proofs!Init, Race!Claimants, Proofs!Claimants
<1>2. \A list : Race!Start(list) => Proofs!Start(list)
  BY DEF Race!Start, Proofs!Start
<1>3. Race!Claimants = Proofs!Claimants
  BY DEF Race!Claimants, Proofs!Claimants
<1>4. \A S : Race!Elect(S) => Proofs!Elect(S)
  BY DEF Race!Elect, Proofs!Elect, Race!raceVars, Proofs!raceVars
<1>5. \A i : Race!Answer(i) \/ Race!Fail(i) \/ Race!Elapse(i)
             => Proofs!Answer(i) \/ Proofs!Fail(i) \/ Proofs!Elapse(i)
  BY DEF Race!Answer, Race!Fail, Race!Elapse, Race!Complete,
         Proofs!Answer, Proofs!Fail, Proofs!Elapse, Proofs!Complete
<1>6. \A i : Race!Gather(i) => Proofs!Gather(i)
  BY Zenon DEF Race!Gather, Proofs!Gather, Race!Settled, Proofs!Settled
<1>7. UNCHANGED raceVars => UNCHANGED Proofs!vars
  BY DEF raceVars, Proofs!vars
<1>8. QED
  BY <1>1, <1>2, <1>3, <1>4, <1>5, <1>6, <1>7

(* The state before the first lookup satisfies the invariant. *)
LEMMA InitFailover == Init => FailoverInv
<1> SUFFICES ASSUME Init PROVE FailoverInv
  OBVIOUS
<1>1. Proofs!RaceInv
  BY RaceAssumed, RaceSteps, Proofs!InitRace DEF Init
<1>2. faults \in 0 .. MaxFaults
  BY FailoverAssumption DEF Init
<1>3. QED
  BY Zenon, <1>1, <1>2 DEF Init, FailoverInv, LoopTyped, SelectProbes, Stages

(* A step that leaves the race alone keeps its invariant. *)
LEMMA RaceUntouched ==
  ASSUME FailoverInv, UNCHANGED raceVars
  PROVE  Proofs!RaceInv' /\ UNCHANGED hosts
<1>1. Proofs!RaceInv'
  BY RaceAssumed, RaceSteps, Proofs!StutterRace DEF FailoverInv
<1>2. QED
  BY <1>1 DEF raceVars

(* The steps of the constructor's and the loop's task. *)
LEMMA TaskFailover == ASSUME FailoverInv, Task PROVE FailoverInv'
<1>1. ASSUME NEW list \in Candidates, Resolve(list) PROVE FailoverInv'
  <2>1. Proofs!RaceInv' /\ hosts' # <<>>
    BY <1>1, RaceAssumed, RaceSteps, Proofs!StartRace DEF Resolve, FailoverInv
  <2>2. QED
    BY <1>1, <2>1 DEF Resolve, FailoverInv, LoopTyped, SelectProbes, Stages
<1>2. CASE ResolveFails
  <2>1. Proofs!RaceInv' /\ UNCHANGED hosts
    BY <1>2, RaceUntouched DEF ResolveFails
  <2>2. faults' \in 0 .. MaxFaults
    BY <1>2, FailoverAssumption DEF ResolveFails, FailoverInv, LoopTyped
  <2>3. QED
    BY <1>2, <2>1, <2>2 DEF ResolveFails, Rest, FailoverInv, LoopTyped, SelectProbes, Stages
<1>3. CASE Construct
  <2>1. Proofs!RaceInv' /\ UNCHANGED hosts
    BY <1>3, RaceUntouched DEF Construct
  <2>2. winner \in Hosts \cup {None}
    BY DEF FailoverInv, Proofs!RaceInv, Proofs!TypeOK
  <2>3. QED
    BY Zenon, <1>3, <2>1, <2>2 DEF Construct, FailoverInv, LoopTyped, SelectProbes, Stages
<1>4. CASE Apply
  <2>1. Proofs!RaceInv' /\ UNCHANGED hosts
    BY <1>4, RaceUntouched DEF Apply
  <2>2. winner \in Hosts \cup {None}
    BY DEF FailoverInv, Proofs!RaceInv, Proofs!TypeOK
  <2>3. QED
    BY <1>4, <2>1, <2>2 DEF Apply, Rest, FailoverInv, LoopTyped, SelectProbes, Stages
<1>5. CASE Wake
  <2>1. Proofs!RaceInv' /\ UNCHANGED hosts
    BY <1>5, RaceUntouched DEF Wake
  <2>2. QED
    BY Zenon, <1>5, <2>1 DEF Wake, FailoverInv, LoopTyped, SelectProbes, Stages
<1>6. CASE Gathers
  <2>1. PICK i \in DOMAIN probes : Race!Gather(i)
    BY <1>6 DEF Gathers, Race!Loop
  <2>2. Proofs!RaceInv'
    BY <2>1, RaceAssumed, RaceSteps, Proofs!GatherRace DEF FailoverInv
  <2>3. UNCHANGED hosts
    BY <2>1 DEF Race!Gather
  <2>4. QED
    BY <1>6, <2>2, <2>3 DEF Gathers, loopVars, FailoverInv, LoopTyped, SelectProbes
<1>7. QED
  BY <1>1, <1>2, <1>3, <1>4, <1>5, <1>6 DEF Task

(* The steps of the probed hosts and of the replica set. *)
LEMMA NetworkFailover ==
  ASSUME FailoverInv,
         Replies \/ Elections \/ \E i \in DOMAIN probes : ProbeFaults(i)
  PROVE  FailoverInv'
<1>1. ASSUME NEW i \in DOMAIN probes, ProbeAnswers(i) \/ ProbeFaults(i) PROVE FailoverInv'
  <2>1. Race!Answer(i) \/ Race!Fail(i) \/ Race!Elapse(i)
    BY <1>1 DEF ProbeAnswers, ProbeFaults
  <2>2. Proofs!RaceInv'
    BY <2>1, RaceAssumed, RaceSteps, Proofs!CompleteRace DEF FailoverInv
  <2>3. UNCHANGED hosts
    BY <2>1 DEF Race!Answer, Race!Fail, Race!Elapse, Race!Complete
  <2>4. faults' \in 0 .. MaxFaults
    BY <1>1, FailoverAssumption DEF ProbeAnswers, ProbeFaults, FailoverInv, LoopTyped
  <2>5. QED
    BY <1>1, <2>2, <2>3, <2>4 DEF ProbeAnswers, ProbeFaults, loopVars,
       FailoverInv, LoopTyped, SelectProbes
<1>2. CASE Elections
  <2>1. PICK S \in Race!Claimants : Race!Elect(S)
    BY <1>2 DEF Elections
  <2>2. Proofs!RaceInv'
    BY <2>1, RaceAssumed, RaceSteps, Proofs!ElectRace DEF FailoverInv
  <2>3. UNCHANGED hosts
    BY <2>1 DEF Race!Elect, Race!raceVars
  <2>4. QED
    BY <1>2, <2>2, <2>3 DEF Elections, loopVars, FailoverInv, LoopTyped, SelectProbes
<1>3. QED
  BY <1>1, <1>2 DEF Replies

(* The owner of the Proxy, the timer and the stuttering steps. *)
LEMMA OwnerFailover ==
  ASSUME FailoverInv, TimerFires \/ DropProxy \/ UNCHANGED vars
  PROVE  FailoverInv'
<1>1. Proofs!RaceInv' /\ UNCHANGED hosts
  BY RaceUntouched DEF TimerFires, DropProxy, vars
<1>2. QED
  BY Zenon, <1>1 DEF TimerFires, DropProxy, vars, loopVars, FailoverInv, LoopTyped, SelectProbes

(* Every step preserves the invariant. *)
LEMMA NextFailover == FailoverInv /\ [Next]_vars => FailoverInv'
BY TaskFailover, NetworkFailover, OwnerFailover DEF Next, Terminated

(* The invariant holds throughout. *)
LEMMA FailoverAlways == Spec => []FailoverInv
BY InitFailover, NextFailover, PTL DEF Spec

-----------------------------------------------------------------------------
(* Type correctness of the constructor, the loop and the race they run. *)
THEOREM FailoverTypeCorrect == Spec => []TypeOK
<1>1. FailoverInv => TypeOK
  BY DEF FailoverInv, LoopTyped, TypeOK, Proofs!RaceInv, Proofs!TypeOK, Race!TypeOK,
         Race!Settled, Proofs!Settled, Race!ProbeStates, Proofs!ProbeStates
<1>2. QED
  BY <1>1, FailoverAlways, PTL

(* Only Construct and Apply move the target, and they move it to the       *)
(* round's winner.                                                         *)
LEMMA TargetMoves ==
  ASSUME [Next]_vars, target' # target
  PROVE  target' = winner /\ winner # None
<1>1. Construct \/ Apply
  BY DEF Next, Task, Replies, Elections, Terminated, Resolve, ResolveFails, Wake, Gathers,
         TimerFires, DropProxy, ProbeAnswers, ProbeFaults, loopVars, vars
<1>2. QED
  BY <1>1 DEF Construct, Apply

(* The Proxy's target, for any replica set and any history of elections,   *)
(* failed lookups, failed probes and timeouts, only ever moves to a host   *)
(* that claimed to be the primary during the round that moves it, and is   *)
(* never unset.                                                            *)
THEOREM TargetMovesToClaimant == Spec => MovesToClaimant
<1>1. FailoverInv /\ [Next]_vars => [target' # target => target' \in everClaimed]_vars
  <2> SUFFICES ASSUME FailoverInv, [Next]_vars, target' # target
               PROVE  target' \in everClaimed
    OBVIOUS
  <2>1. target' = winner /\ winner # None
    BY TargetMoves
  <2>2. QED
    BY <2>1 DEF FailoverInv, Proofs!RaceInv, Proofs!WinnerClaimed
<1>2. QED
  BY <1>1, FailoverAlways, PTL DEF Spec, MovesToClaimant

(* A round in which one candidate claimed throughout, nobody else claimed  *)
(* and its own probes neither failed nor timed out ends, for any replica   *)
(* set, with that candidate as the target: the justification of NoPrimary  *)
(* excludes the other outcome.                                             *)
THEOREM RoundsFindPrimary == Spec => RoundFindsPrimary
<1>1. FailoverInv => FindsPrimary
  <2> SUFFICES ASSUME FailoverInv, Construct \/ Apply, NEW h \in Hosts,
                      everClaimed = {h}, h \notin everDenied,
                      \E i \in DOMAIN hosts : hosts[i] = h,
                      ~\E k \in DOMAIN rejected : rejected[k].host = h
               PROVE  target' = h
    BY DEF FindsPrimary
  <2>1. ~racing /\ hosts # <<>>
    BY DEF Construct, Apply, FailoverInv, SelectProbes
  <2>2. Proofs!WinnerClaimed /\ Proofs!NoPrimaryJustified
    BY RaceAssumed, Proofs!RaceJustifies DEF FailoverInv, Proofs!SelectionJustified
  <2>3. winner # None
    BY <2>1, <2>2 DEF Proofs!NoPrimaryJustified
  <2>4. winner = h
    BY <2>2, <2>3 DEF Proofs!WinnerClaimed
  <2>5. QED
    BY <2>3, <2>4 DEF Construct, Apply
<1>2. QED
  BY <1>1, FailoverAlways, PTL DEF Spec, RoundFindsPrimary
=============================================================================

-------------------------- MODULE ProxyProcessProofs --------------------------
(***************************************************************************)
(* For any replica set and any set of clients that come and go: a client   *)
(* is only ever connected to a host that claimed to be the primary         *)
(* (DialsOnlyClaimants), and what holds of the loop alone (FailoverProofs) *)
(* and of the server alone (below: every connection task stays in the      *)
(* JoinSet or is aborted with it, and run_until returns Ok only after      *)
(* every connection has run to its own end) holds of the two running       *)
(* together, with clients that connect again.                              *)
(***************************************************************************)
EXTENDS ProxyProcess, TLAPS

-----------------------------------------------------------------------------
(* ServeLoop, for any set of clients *)

(* Tasks are aborted only by an accept error or a dropped future. *)
AbortsOnlyOnLoss ==
  loop \notin {"failed", "dropped"} =>
    aborting = {} /\ \A c \in Clients : task[c] # "aborted"

(* Once run_until is over, nobody waits in the backlog and the JoinSet is  *)
(* gone.                                                                   *)
BacklogClosed ==
  loop \in Srv!Returned =>
    connections = {} /\ \A c \in Clients : task[c] # "backlog"

(* The inductive invariant. *)
ServeInv == Srv!TypeOK /\ Srv!NoOrphan /\ AbortsOnlyOnLoss /\ BacklogClosed

(* The initial state of run_until satisfies the inductive invariant. *)
LEMMA InitServe == Srv!Init => ServeInv
BY Zenon DEF Srv!Init, ServeInv, Srv!TypeOK, Srv!NoOrphan, AbortsOnlyOnLoss, BacklogClosed, Srv!InFlight,
       Srv!Running, Srv!Returned, Srv!TaskStates

(* A connection task's own steps: it may end, never start again. *)
LEMMA TaskServe ==
  ASSUME ServeInv, NEW c \in Clients, Srv!Task(c) PROVE ServeInv'
<1>1. /\ UNCHANGED <<loop, shutdown, connections, aborting>>
      /\ \E s \in {"open", "busy", "done", "aborted"} :
           /\ task' = [task EXCEPT ![c] = s]
           /\ s = "aborted" => c \in aborting
      /\ task[c] \in Srv!Running
  BY DEF Srv!Task, Srv!Dial, Srv!Exchange, Srv!Dialled, Srv!DialFails, Srv!Request, Srv!Answered,
         Srv!ExchangeFails, Srv!Leave, Srv!Step, Srv!Move, Srv!Cancelled, Srv!Running
<1>2. Srv!TypeOK'
  BY <1>1 DEF ServeInv, Srv!TypeOK, AbortsOnlyOnLoss, BacklogClosed, Srv!TaskStates,
              Srv!Running, Srv!Returned
<1>3. Srv!NoOrphan'
  BY <1>1 DEF ServeInv, Srv!TypeOK, Srv!NoOrphan, Srv!InFlight, Srv!Running, Srv!Returned
<1>4. AbortsOnlyOnLoss'
  BY <1>1 DEF ServeInv, Srv!TypeOK, AbortsOnlyOnLoss
<1>5. BacklogClosed'
  BY <1>1 DEF ServeInv, Srv!TypeOK, BacklogClosed
<1>6. QED
  BY <1>2, <1>3, <1>4, <1>5 DEF ServeInv

(* Every step of the server preserves the inductive invariant. *)
LEMMA NextServe == ServeInv /\ [Srv!Next]_(Srv!vars) => ServeInv'
<1> SUFFICES ASSUME ServeInv, [Srv!Next]_(Srv!vars) PROVE ServeInv'
  OBVIOUS
<1> USE DEF ServeInv, Srv!TypeOK, Srv!NoOrphan, AbortsOnlyOnLoss, BacklogClosed, Srv!InFlight,
            Srv!Running, Srv!Returned, Srv!TaskStates
<1>1. CASE Srv!ShutdownResolves
  BY <1>1 DEF Srv!ShutdownResolves
<1>2. CASE Srv!AcceptFails
  BY <1>2 DEF Srv!AcceptFails, Srv!CloseListener
<1>3. CASE Srv!Break
  BY <1>3 DEF Srv!Break
<1>4. CASE Srv!Return
  BY <1>4 DEF Srv!Return, Srv!CloseListener
<1>5. CASE Srv!Drop
  BY <1>5 DEF Srv!Drop, Srv!CloseListener
<1>6. ASSUME NEW c \in Clients, Srv!Arrive(c) PROVE ServeInv'
  BY <1>6 DEF Srv!Arrive, Srv!Move
<1>7. ASSUME NEW c \in Clients, Srv!Accept(c) PROVE ServeInv'
  BY <1>7 DEF Srv!Accept, Srv!Move
<1>8. ASSUME NEW c \in Clients, Srv!Reap(c) PROVE ServeInv'
  BY <1>8 DEF Srv!Reap
<1>9. ASSUME NEW c \in Clients, Srv!Task(c) PROVE ServeInv'
  BY <1>9, TaskServe
<1>10. CASE UNCHANGED Srv!vars
  BY <1>10 DEF Srv!vars
<1>11. QED
  BY <1>1, <1>2, <1>3, <1>4, <1>5, <1>6, <1>7, <1>8, <1>9, <1>10
     DEF Srv!Next, Srv!Terminated

(* The inductive invariant holds throughout. *)
LEMMA AlwaysServe == Srv!Spec => []ServeInv
BY InitServe, NextServe, PTL DEF Srv!Spec

(* Type correctness of the accept loop, for every set of clients. *)
THEOREM ServeTypeCorrect == Srv!Spec => []Srv!TypeOK
<1>1. ServeInv => Srv!TypeOK
  BY DEF ServeInv
<1>2. QED
  BY <1>1, AlwaysServe, PTL

(* No connection task escapes the server: as long as it runs, run_until    *)
(* can still join it, or it has been told to stop.                         *)
THEOREM NoTaskEscapes == Srv!Spec => []Srv!NoOrphan
<1>1. ServeInv => Srv!NoOrphan
  BY DEF ServeInv
<1>2. QED
  BY <1>1, AlwaysServe, PTL

(* run_until's Ok means that every accepted connection ran to its own end, *)
(* however many there were and whenever the shutdown resolved.             *)
THEOREM OkMeansDrained == Srv!Spec => []Srv!DrainedOnOk
<1>1. ServeInv => Srv!DrainedOnOk
  BY DEF ServeInv, Srv!TypeOK, Srv!NoOrphan, AbortsOnlyOnLoss, BacklogClosed, Srv!DrainedOnOk,
         Srv!InFlight, Srv!Running, Srv!Returned, Srv!TaskStates
<1>2. QED
  BY <1>1, AlwaysServe, PTL

-----------------------------------------------------------------------------
(* The process *)

(* The invariants of the loop and the lemmas on its steps. *)
FoP == INSTANCE FailoverProofs

(* Whatever can become the target or a destination has claimed. *)
OnlyPrimaries ==
  /\ primaries \subseteq Hosts
  /\ claims \subseteq primaries /\ everClaimed \subseteq primaries
  /\ target \in primaries \cup {None}

(* Every connection was given a destination when it was accepted. *)
Routed ==
  /\ destination \in [Clients -> Hosts \cup {None}]
  /\ \A c \in Clients : task[c] \in Srv!Running => destination[c] # None

(* The inductive invariant. *)
ProcessInv ==
  /\ FoP!FailoverInv /\ ServeInv
  /\ OnlyPrimaries /\ Routed /\ DialsOnlyClaimants

-----------------------------------------------------------------------------
(* The Proxy is built with constants its loop allows. *)
LEMMA FailoverAssumed == FoP!FailoverAssumption
BY ProcessAssumption DEF FoP!FailoverAssumption

(* FailoverProofs speaks of the very actions the process takes. *)
LEMMA SameActions ==
  /\ Fo!Init => FoP!Init
  /\ Fo!Task => FoP!Task
  /\ Fo!TimerFires => FoP!TimerFires
  /\ Fo!Replies => FoP!Replies
  /\ \A i : Fo!ProbeFaults(i) => FoP!ProbeFaults(i)
  /\ Fo!Elections => FoP!Elections
<1>1. Fo!Init => FoP!Init
  BY DEF
         Fo!Init, Fo!Race!Init, Fo!Race!Claimants, FoP!Init, FoP!Race!Init,
         FoP!Race!Claimants
<1>2. Fo!Task => FoP!Task
  <2>1. \A list : Fo!Resolve(list) => FoP!Resolve(list)
    BY DEF Fo!Resolve, FoP!Resolve, Fo!Race!Start, FoP!Race!Start
  <2>2. Fo!ResolveFails => FoP!ResolveFails
    BY DEF Fo!ResolveFails, FoP!ResolveFails, Fo!Rest, FoP!Rest, Fo!raceVars, FoP!raceVars
  <2>3. Fo!Construct => FoP!Construct
    BY DEF Fo!Construct, FoP!Construct, Fo!raceVars, FoP!raceVars
  <2>4. Fo!Apply => FoP!Apply
    BY DEF Fo!Apply, FoP!Apply, Fo!Rest, FoP!Rest, Fo!raceVars, FoP!raceVars
  <2>5. Fo!Wake => FoP!Wake
    BY DEF Fo!Wake, FoP!Wake, Fo!raceVars, FoP!raceVars
  <2>6. Fo!Gathers => FoP!Gathers
    BY Zenon DEF Fo!Gathers, FoP!Gathers, Fo!Race!Loop, FoP!Race!Loop, Fo!Race!Gather,
           FoP!Race!Gather, Fo!Race!Settled, FoP!Race!Settled, Fo!loopVars, FoP!loopVars
  <2>7. QED
    BY <2>1, <2>2, <2>3, <2>4, <2>5, <2>6 DEF Fo!Task, FoP!Task
<1>3. Fo!TimerFires => FoP!TimerFires
  BY DEF Fo!TimerFires, FoP!TimerFires, Fo!raceVars, FoP!raceVars
<1>4. Fo!Replies => FoP!Replies
  BY Zenon DEF
         Fo!Replies, Fo!ProbeAnswers, Fo!Race!Answer, Fo!Race!Complete, Fo!loopVars,
         FoP!Replies, FoP!ProbeAnswers, FoP!Race!Answer, FoP!Race!Complete, FoP!loopVars
<1>5. \A i : Fo!ProbeFaults(i) => FoP!ProbeFaults(i)
  BY DEF
         Fo!ProbeFaults, Fo!Race!Fail, Fo!Race!Elapse, Fo!Race!Complete, Fo!loopVars,
         FoP!ProbeFaults, FoP!Race!Fail, FoP!Race!Elapse, FoP!Race!Complete, FoP!loopVars
<1>6. Fo!Elections => FoP!Elections
  BY DEF
         Fo!Elections, Fo!Race!Elect, Fo!Race!Claimants, Fo!Race!raceVars, Fo!loopVars,
         FoP!Elections, FoP!Race!Elect, FoP!Race!Claimants, FoP!Race!raceVars, FoP!loopVars
<1>7. QED
  BY <1>1, <1>2, <1>3, <1>4, <1>5, <1>6

(* Every step of the process is, for the Proxy and its loop, one of their  *)
(* own steps or none; ending the server drops the Proxy.                   *)
LEMMA FailoverSteps ==
  ASSUME ProcessInv, [Next]_vars PROVE [FoP!Next]_(FoP!vars)
<1>1. CASE LoopTask \/ Timer \/ Replies \/ Faults \/ Elections
  BY <1>1, SameActions DEF LoopTask, Timer, Replies, Faults, Elections, FoP!Next
<1>2. CASE Returns
  BY Zenon, <1>2 DEF Returns, FoP!Next, FoP!DropProxy, FoP!vars, FoP!raceVars, FoP!loopVars,
     raceVars, ProcessInv, FoP!FailoverInv, FoP!LoopTyped
<1>3. CASE UNCHANGED failoverVars
  BY <1>3 DEF failoverVars, raceVars, FoP!vars, FoP!raceVars, FoP!loopVars
<1>4. QED
  BY <1>1, <1>2, <1>3 DEF Next, Shutdown, Terminated, Accept, Dials, Connection,
     Reconnect, vars

(* Every step of the process is, for the server, one of its own steps,     *)
(* none, or a client that comes back.                                      *)
LEMMA ServeSteps ==
  ASSUME [Next]_vars
  PROVE  [Srv!Next]_(Srv!vars) \/ \E c \in Clients : Reconnect(c)
<1>1. CASE UNCHANGED serveVars
  BY <1>1 DEF serveVars, Srv!vars
<1>2. CASE Shutdown
  BY <1>2 DEF Shutdown, Srv!Next, Srv!ShutdownResolves,
     Srv!Break
<1>3. CASE Returns
  BY <1>3 DEF Returns, Srv!Next, Srv!Return, Srv!AcceptFails, Srv!Drop, Srv!CloseListener,
     Srv!InFlight, Srv!Running, Srv!Returned
<1>4. ASSUME NEW c \in Clients, Accept(c) PROVE Srv!Next
  BY Zenon, <1>4 DEF Accept, Srv!Next, Srv!Accept, Srv!Move
<1>5. ASSUME NEW c \in Clients, Dials(c) PROVE Srv!Next
  BY Zenon, <1>5 DEF Dials, Srv!Next, Srv!Task, Srv!Dial, Srv!Dialled,
     Srv!Step, Srv!Move
<1>6. ASSUME NEW c \in Clients, Connection(c) PROVE Srv!Next
  <2>1. CASE Srv!Arrive(c) \/ Srv!Reap(c)
    BY <2>1 DEF Srv!Next, Srv!Arrive, Srv!Reap,
       Srv!Move, Srv!Returned
  <2>2. CASE Srv!DialFails(c) \/ Srv!Request(c) \/ Srv!Exchange(c)
             \/ Srv!Leave(c) \/ Srv!Cancelled(c)
    BY <2>2 DEF Srv!Next, Srv!Task, Srv!Dial, Srv!DialFails,
       Srv!Request, Srv!Exchange, Srv!Answered,
       Srv!ExchangeFails, Srv!Leave, Srv!Cancelled, Srv!Step, Srv!Move, Srv!Running
  <2>3. QED
    BY <1>6, <2>1, <2>2 DEF Connection
<1>7. QED
  BY <1>1, <1>2, <1>3, <1>4, <1>5, <1>6 DEF Next, LoopTask, Timer, Replies, Faults,
     Elections, Terminated, vars

-----------------------------------------------------------------------------
(* Before the Proxy is built nobody has a destination. *)
LEMMA InitProcess == Init => ProcessInv
<1> SUFFICES ASSUME Init PROVE ProcessInv
  OBVIOUS
<1>1. FoP!FailoverInv
  BY FailoverAssumed, SameActions, FoP!InitFailover DEF Init
<1>2. ServeInv
  BY InitServe DEF Init, Srv!Init
<1>3. OnlyPrimaries
  BY DEF Init, Fo!Init, Fo!Race!Init, Fo!Race!Claimants, OnlyPrimaries
<1>4. Routed /\ DialsOnlyClaimants
  BY DEF Init, Srv!Init, Routed, DialsOnlyClaimants, Srv!Running
<1>5. QED
  BY <1>1, <1>2, <1>3, <1>4 DEF ProcessInv

(* A client that comes back leaves the server as sound as it was. *)
LEMMA ReconnectServe ==
  ASSUME ServeInv, NEW c \in Clients, Reconnect(c) PROVE ServeInv'
BY DEF Reconnect, ServeInv, Srv!TypeOK, Srv!NoOrphan, AbortsOnlyOnLoss,
   BacklogClosed, Srv!InFlight, Srv!Running, Srv!Returned, Srv!TaskStates, Srv!Returned

(* The histories only ever hold claimants, and the target is one of them.  *)
LEMMA NextPrimaries == ASSUME ProcessInv, [Next]_vars PROVE OnlyPrimaries'
<1>1. target' = target \/ target' \in everClaimed
  <2>1. target' # target => target' = winner /\ winner # None
    BY FailoverAssumed, FailoverSteps, FoP!TargetMoves
  <2>2. winner # None => winner \in everClaimed
    BY DEF ProcessInv, FoP!FailoverInv, FoP!Proofs!RaceInv, FoP!Proofs!WinnerClaimed
  <2>3. QED
    BY <2>1, <2>2
<1>2. CASE Elections
  <2>1. PICK S \in Fo!Race!Claimants : Fo!Race!Elect(S)
    BY <1>2 DEF Elections, Fo!Elections
  <2>2. S \subseteq Hosts /\ claims' = S /\ everClaimed' = everClaimed \cup S
    BY <2>1 DEF Fo!Race!Claimants, Fo!Race!Elect
  <2>3. QED
    BY <1>1, <1>2, <2>2 DEF Elections, ProcessInv, OnlyPrimaries
<1>3. CASE UNCHANGED <<primaries, claims>> /\ (everClaimed' = everClaimed \/ everClaimed' = claims)
  BY <1>1, <1>3 DEF ProcessInv, OnlyPrimaries
<1>4. CASE LoopTask
  <2>1. CASE \E list \in Candidates : Fo!Resolve(list)
    BY <1>3, <1>4, <2>1 DEF LoopTask, Fo!Resolve, Fo!Race!Start
  <2>2. CASE Fo!Gathers
    BY <1>3, <1>4, <2>2 DEF LoopTask, Fo!Gathers, Fo!Race!Loop, Fo!Race!Gather
  <2>3. CASE Fo!ResolveFails \/ Fo!Construct \/ Fo!Apply \/ Fo!Wake
    BY <1>3, <1>4, <2>3 DEF LoopTask, Fo!ResolveFails, Fo!Construct, Fo!Apply, Fo!Wake,
       Fo!raceVars
  <2>4. QED
    BY <1>4, <2>1, <2>2, <2>3 DEF LoopTask, Fo!Task
<1>5. CASE Timer
  BY <1>3, <1>5 DEF Timer, Fo!TimerFires, Fo!raceVars
<1>6. CASE Replies \/ Faults
  BY <1>3, <1>6 DEF Replies, Faults, Fo!Replies, Fo!ProbeAnswers, Fo!ProbeFaults,
     Fo!Race!Answer, Fo!Race!Fail, Fo!Race!Elapse, Fo!Race!Complete
<1>7. CASE Returns
  BY <1>3, <1>7 DEF Returns, raceVars
<1>8. CASE UNCHANGED <<failoverVars, primaries>>
  BY <1>3, <1>8 DEF failoverVars, raceVars
<1>9. QED
  BY <1>2, <1>4, <1>5, <1>6, <1>7, <1>8 DEF Next, Shutdown, Terminated, Accept, Dials,
     Connection, Reconnect, vars

(* A connection gets its destination when it is accepted, and keeps it. *)
LEMMA NextRouted ==
  ASSUME ProcessInv, [Next]_vars PROVE Routed' /\ DialsOnlyClaimants'
<1> USE DEF Srv!Running
<1>1. primaries \subseteq primaries'
  BY DEF Next, LoopTask, Timer, Replies, Faults, Elections, Shutdown, Returns, Terminated,
         Accept, Dials, Connection, Reconnect, vars
<1>2. task \in [Clients -> Srv!TaskStates]
  BY DEF ProcessInv, ServeInv, Srv!TypeOK
<1>3. ASSUME NEW c \in Clients, Accept(c) PROVE Routed' /\ DialsOnlyClaimants'
  <2>1. /\ target # None /\ target \in Hosts /\ target \in primaries
        /\ destination' = [destination EXCEPT ![c] = target]
        /\ task' = [task EXCEPT ![c] = "dialing"]
    BY <1>3 DEF Accept, Built, Srv!Accept, Srv!Move, ProcessInv, OnlyPrimaries
  <2>2. QED
    BY <1>1, <1>2, <2>1 DEF ProcessInv, Routed, DialsOnlyClaimants
<1>4. CASE /\ UNCHANGED destination
           /\ \A c \in Clients : task'[c] \in Srv!Running => task[c] \in Srv!Running
  BY <1>1, <1>4 DEF ProcessInv, Routed, DialsOnlyClaimants
<1>5. CASE UNCHANGED <<destination, task>>
  BY <1>4, <1>5
<1>6. CASE Shutdown
  BY <1>5, <1>6 DEF Shutdown, Srv!ShutdownResolves, Srv!Break
<1>7. CASE Returns
  BY <1>2, <1>4, <1>7 DEF Returns, Srv!Return, Srv!AcceptFails, Srv!Drop, Srv!CloseListener
<1>8. ASSUME NEW c \in Clients, Dials(c) \/ Connection(c) \/ Reconnect(c)
      PROVE Routed' /\ DialsOnlyClaimants'
  <2>1. CASE Dials(c)
    BY <1>2, <1>4, <2>1 DEF Dials, Srv!Dialled, Srv!Step, Srv!Move
  <2>2. CASE Reconnect(c)
    BY <1>2, <1>4, <2>2 DEF Reconnect
  <2>3. CASE Connection(c)
    BY <1>2, <1>4, <2>3 DEF Connection, Srv!Arrive, Srv!DialFails, Srv!Request, Srv!Exchange,
       Srv!Answered, Srv!ExchangeFails, Srv!Leave, Srv!Cancelled, Srv!Reap, Srv!Step, Srv!Move
  <2>4. QED
    BY <1>8, <2>1, <2>2, <2>3
<1>9. QED
  BY <1>3, <1>5, <1>6, <1>7, <1>8 DEF Next, LoopTask, Timer, Replies, Faults, Elections,
     Terminated, serveVars, vars

(* Every step of the process preserves the invariant. *)
LEMMA NextProcess == ProcessInv /\ [Next]_vars => ProcessInv'
<1> SUFFICES ASSUME ProcessInv, [Next]_vars PROVE ProcessInv'
  OBVIOUS
<1>1. FoP!FailoverInv'
  BY FailoverAssumed, FailoverSteps, FoP!NextFailover DEF ProcessInv
<1>2. ServeInv'
  BY ServeSteps, NextServe, ReconnectServe DEF ProcessInv
<1>3. QED
  BY <1>1, <1>2, NextPrimaries, NextRouted DEF ProcessInv

(* The invariant holds throughout. *)
LEMMA ProcessAlways == Spec => []ProcessInv
BY InitProcess, NextProcess, PTL DEF Spec

-----------------------------------------------------------------------------
(* Type correctness of the whole process; every accepted connection has a  *)
(* destination.                                                            *)
THEOREM ProcessTypeCorrect == Spec => []TypeOK
<1>1. FoP!FailoverInv => Fo!TypeOK
  BY DEF FoP!FailoverInv, FoP!LoopTyped, FoP!Stages, Fo!TypeOK, Fo!Stages, FoP!Proofs!RaceInv,
         FoP!Proofs!TypeOK, FoP!Proofs!Settled, FoP!Proofs!ProbeStates,
         Fo!Race!TypeOK, Fo!Race!Settled, Fo!Race!ProbeStates
<1>2. ServeInv => Srv!TypeOK
  BY DEF ServeInv
<1>3. ProcessInv => TypeOK
  BY <1>1, <1>2 DEF ProcessInv, OnlyPrimaries, Routed, TypeOK
<1>4. QED
  BY <1>3, ProcessAlways, PTL

(* However the elections, the faults, the rounds of the loop and the       *)
(* clients interleave, a client is only connected to a host that has       *)
(* claimed to be the primary.                                              *)
THEOREM OnlyClaimantsDialled == Spec => []DialsOnlyClaimants
<1>1. ProcessInv => DialsOnlyClaimants
  BY DEF ProcessInv
<1>2. QED
  BY <1>1, ProcessAlways, PTL

(* The server's own guarantees survive clients that connect again and a    *)
(* target that is swapped under it: no connection task escapes run_until,  *)
(* and its Ok means that every connection ran to its own end.              *)
THEOREM ServerSoundInProcess == Spec => [](Srv!NoOrphan /\ Srv!DrainedOnOk)
<1>1. ServeInv => Srv!NoOrphan /\ Srv!DrainedOnOk
  BY DEF ServeInv, Srv!TypeOK, Srv!NoOrphan, AbortsOnlyOnLoss, BacklogClosed,
         Srv!InFlight, Srv!Running, Srv!Returned, Srv!TaskStates,
         Srv!NoOrphan, Srv!DrainedOnOk, Srv!InFlight, Srv!Running, Srv!Returned
<1>2. ProcessInv => Srv!NoOrphan /\ Srv!DrainedOnOk
  BY <1>1 DEF ProcessInv
<1>3. QED
  BY <1>2, ProcessAlways, PTL
=============================================================================

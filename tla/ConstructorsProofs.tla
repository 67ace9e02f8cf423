-------------------------- MODULE ConstructorsProofs --------------------------
(***************************************************************************)
(* For every constructor call, DNS answer, host condition, certificate and *)
(* number of rounds: a target chosen by probing can be forwarded to, and a *)
(* Proxy that was built keeps a target and its TLS connector.  Relative to *)
(* TypeOK, the target of an SRV name is under the domain of that name.     *)
(***************************************************************************)
EXTENDS Constructors, TLAPS

(* The connector of a probed Proxy would complete the handshake with h. *)
Suits(h) ==
  connector = {} \/ (h.host[1] \in DnsNames /\ Cert[h.host[1]] \in Sole(connector))

(* The stages of a constructor belong to the kind of its plan; the plan is *)
(* made on entering.                                                       *)
Staged ==
  /\ stage = "enter" => plan.kind = "none" /\ target = {} /\ forwarded = ""
  /\ stage \in {"lookup", "order"} => plan.kind = "Srv"
  /\ stage = "probe" => plan.kind \in {"SeedList", "Srv"}
  /\ looping => plan.kind \in {"SeedList", "Srv"}

(* The connector is the plan's as soon as there is something to probe. *)
Connected ==
  (plan.kind = "Srv" /\ (target # {} \/ stage = "probe")) =>
    connector = BuildTlsConnector(plan.tls)

(* Targets of a probed Proxy were handshaken with by the probe. *)
Probed == plan.kind \in {"SeedList", "Srv"} => \A h \in target : Suits(h)

(* Hosts about to be probed, and so targets, passed the domain test. *)
InDomain(h) == TargetInParentDomain(h.host[1], ParentDomain(SrvName))
Screened ==
  plan.kind = "Srv" =>
    /\ \A h \in target : InDomain(h)
    /\ stage = "probe" => \A i \in DOMAIN hosts : InDomain(hosts[i])

(* The inductive invariant. *)
ConstructInv == Staged /\ Connected /\ Probed /\ Screened /\ ProbedIsForwardable

-----------------------------------------------------------------------------
(* A host that HelloProbe found to be primary was connected to. *)
LEMMA PrimaryConnects ==
  ASSUME NEW name, NEW condition, NEW tls, IsPrimary(name, condition, tls) = Ok(TRUE)
  PROVE  tls = {} \/ (name \in DnsNames /\ Cert[name] \in Sole(tls))
<1>1. Err("Connect") # Ok(TRUE)
  BY DEF Err, Ok
<1>2. ForwardTo(name, condition.is # "down", tls) = ""
  BY <1>1 DEF IsPrimary
<1>3. QED
  BY <1>2 DEF ForwardTo

(* The dial of a client to a target that suits is not refused by TLS. *)
LEMMA SuitsForwards ==
  ASSUME NEW h, Suits(h), NEW up \in BOOLEAN
  PROVE  ForwardTo(h.host[1], up, connector) \notin {"InvalidServerName", "TlsHandshake"}
  BY DEF Suits, ForwardTo

(* What a step that leaves plan, connector and target alone keeps, when it *)
(* does not start to probe.                                                *)
LEMMA Waits ==
  ASSUME ConstructInv, UNCHANGED <<plan, connector, target, looping, forwarded>>,
         stage' # "enter", stage' \in {"lookup", "order"} => plan.kind = "Srv",
         stage' # "probe"
  PROVE  ConstructInv'
  BY DEF ConstructInv, Staged, Connected, Probed, Suits, Screened, InDomain, SrvName,
     ProbedIsForwardable

(* A constructor ends, or a round does, without a primary. *)
LEMMA ReturnWaits ==
  ASSUME ConstructInv, NEW e, Return(e),
         UNCHANGED <<plan, connector, target, looping, forwarded>>
  PROVE  ConstructInv'
<1>1. stage' \in {"failed", "built"}
  BY DEF Return
<1>2. QED
  BY <1>1, Waits

(* Entering: the plan is made and nothing has been probed. *)
LEMMA EnterKeeps ==
  ASSUME ConstructInv, EnterSingle \/ EnterSeedList \/ EnterSrv
  PROVE  ConstructInv'
<1>0. stage = "enter" /\ plan.kind = "none" /\ target = {} /\ forwarded = "" /\ ~looping
  BY DEF ConstructInv, Staged, EnterSingle, EnterSeedList, EnterSrv, Entered
<1>1. CASE EnterSingle
  <2>1. plan'.kind = "Single" /\ stage' = "built" /\ UNCHANGED <<looping, forwarded>>
    BY <1>1 DEF EnterSingle, Entered
  <2>2. QED
    BY <1>0, <2>1 DEF ConstructInv, Staged, Connected, Probed, Screened, ProbedIsForwardable
<1>2. CASE EnterSeedList
  <2>1. /\ plan'.kind = "SeedList" /\ stage' = "probe" /\ target' = {}
        /\ UNCHANGED <<looping, forwarded>>
    BY <1>0, <1>2 DEF EnterSeedList, Entered
  <2>2. QED
    BY <1>0, <2>1 DEF ConstructInv, Staged, Connected, Probed, Screened, ProbedIsForwardable
<1>3. CASE EnterSrv
  <2>1. /\ plan'.kind = "Srv" /\ stage' = "lookup" /\ target' = {}
        /\ UNCHANGED <<looping, forwarded>>
    BY <1>0, <1>3 DEF EnterSrv, Entered
  <2>2. QED
    BY <1>0, <2>1 DEF ConstructInv, Staged, Connected, Probed, Screened, ProbedIsForwardable
<1>4. QED
  BY <1>1, <1>2, <1>3

(* validate_records and the connector of the first round and of every one. *)
LEMMA ValidateKeeps ==
  ASSUME ConstructInv, Validate
  PROVE  ConstructInv'
<1> DEFINE stray == \E i \in DOMAIN SrvHosts :
                      ~TargetInParentDomain(SrvHosts[i].host[1], ParentDomain(SrvName))
<1>0. /\ stage = "order" /\ plan.kind = "Srv"
      /\ UNCHANGED <<plan, target, looping, forwarded>>
  BY DEF ConstructInv, Staged, Validate
<1>1. CASE stray \/ SrvHosts = <<>>
  <2>1. UNCHANGED connector
    BY <1>1 DEF Validate
  <2>2. Return("DomainMismatch") \/ Return("NoRecords")
    BY <1>1 DEF Validate, Empty
  <2>3. QED
    BY <1>0, <2>1, <2>2, ReturnWaits
<1>2. CASE ~(stray \/ SrvHosts = <<>>)
  <2>1. hosts' = SrvHosts /\ connector' = BuildTlsConnector(plan.tls) /\ stage' = "probe"
    BY <1>2 DEF Validate
  <2>2. \A i \in DOMAIN hosts' : TargetInParentDomain(hosts'[i].host[1], ParentDomain(SrvName))
    BY <1>2, <2>1
  <2>3. target # {} => connector' = connector
    BY <1>0, <2>1 DEF ConstructInv, Connected
  <2>4. Screened'
    BY <1>0, <2>2 DEF ConstructInv, Screened, InDomain, SrvName
  <2>5. Probed'
    BY <1>0, <2>3 DEF ConstructInv, Probed, Suits
  <2>6. QED
    BY <1>0, <2>1, <2>4, <2>5 DEF ConstructInv, Staged, Connected, ProbedIsForwardable
<1>3. QED
  BY <1>1, <1>2

(* select_target and apply_primary: only a probed host becomes the target. *)
LEMMA SelectedKeeps ==
  ASSUME ConstructInv, NEW condition, Selected(condition)
  PROVE  ConstructInv'
<1>0. /\ stage = "probe" /\ stage' = "built" /\ UNCHANGED <<plan, connector, forwarded>>
      /\ plan.kind \in {"SeedList", "Srv"}
  BY DEF ConstructInv, Staged, Selected
<1>1. PICK i \in Primaries(condition) : target' = {hosts[i]}
  BY DEF Selected
<1>2. i \in DOMAIN hosts /\ Suits(hosts[i])
  BY Zenon, PrimaryConnects DEF Primaries, ProbeConnector, Suits
<1>3. Probed'
  BY <1>0, <1>1, <1>2 DEF Probed, Suits
<1>4. Screened'
  BY <1>0, <1>1, <1>2 DEF ConstructInv, Screened, InDomain, SrvName
<1>5. QED
  BY <1>0, <1>3, <1>4 DEF ConstructInv, Staged, Connected, ProbedIsForwardable

(* The loop starts a round. *)
LEMMA TickKeeps ==
  ASSUME ConstructInv, Tick
  PROVE  ConstructInv'
<1>0. /\ stage = "built" /\ plan.kind \in {"SeedList", "Srv"}
      /\ UNCHANGED <<plan, connector, target, looping, forwarded>>
  BY DEF ConstructInv, Staged, Tick
<1>1. CASE plan.kind = "Srv"
  BY <1>0, <1>1, Waits DEF Tick
<1>2. CASE plan.kind # "Srv"
  <2>1. stage' = "probe"
    BY <1>2 DEF Tick
  <2>2. QED
    BY <1>0, <1>2, <2>1 DEF ConstructInv, Staged, Connected, Probed, Suits, Screened,
       ProbedIsForwardable
<1>3. QED
  BY <1>1, <1>2

(* A client is dialled to the target of the moment. *)
LEMMA DialKeeps ==
  ASSUME ConstructInv, NEW up \in BOOLEAN, Dial(up)
  PROVE  ConstructInv'
<1>0. /\ target # {} /\ stage # "enter"
      /\ UNCHANGED <<stage, plan, connector, hosts, target, looping>>
      /\ forwarded' = ForwardTo(ReadTarget.host[1], up, connector)
  BY DEF Dial
<1>1. ReadTarget \in target
  BY <1>0 DEF ReadTarget, Sole
<1>2. plan.kind \in {"SeedList", "Srv"} => forwarded' \notin {"InvalidServerName", "TlsHandshake"}
  BY <1>0, <1>1, SuitsForwards DEF ConstructInv, Probed
<1>3. QED
  BY <1>0, <1>2 DEF ConstructInv, Staged, Connected, Probed, Suits, Screened, InDomain,
     SrvName, ProbedIsForwardable

(* Every step keeps the invariant. *)
LEMMA ConstructNext == ConstructInv /\ [Next]_vars => ConstructInv'
<1> SUFFICES ASSUME ConstructInv, [Next]_vars PROVE ConstructInv'
  OBVIOUS
<1>1. CASE Rejected
  BY <1>1, ReturnWaits DEF Rejected
<1>2. CASE EnterSingle \/ EnterSeedList \/ EnterSrv
  BY <1>2, EnterKeeps
<1>3. ASSUME NEW e, LookupFails(e) PROVE ConstructInv'
  BY <1>3, ReturnWaits DEF LookupFails
<1>4. ASSUME NEW a, Lookup(a) PROVE ConstructInv'
  <2>1. stage = "lookup" /\ stage' = "order" /\ UNCHANGED <<plan, connector, target, looping, forwarded>>
    BY <1>4 DEF Lookup
  <2>2. plan.kind = "Srv"
    BY <2>1 DEF ConstructInv, Staged
  <2>3. QED
    BY <2>1, <2>2, Waits
<1>5. ASSUME NEW pick, Draw(pick) PROVE ConstructInv'
  <2>1. stage = "order" /\ UNCHANGED <<stage, plan, connector, target, looping, forwarded>>
    BY <1>5 DEF Draw
  <2>2. plan.kind = "Srv"
    BY <2>1 DEF ConstructInv, Staged
  <2>3. QED
    BY <2>1, <2>2, Waits
<1>6. CASE Validate
  BY <1>6, ValidateKeeps
<1>7. ASSUME NEW condition, Selected(condition) PROVE ConstructInv'
  BY <1>7, SelectedKeeps
<1>8. ASSUME NEW condition, NoPrimary(condition) PROVE ConstructInv'
  BY <1>8, ReturnWaits DEF NoPrimary
<1>9. CASE Tick
  BY <1>9, TickKeeps
<1>10. ASSUME NEW up \in BOOLEAN, Dial(up) PROVE ConstructInv'
  BY <1>10, DialKeeps
<1>11. CASE UNCHANGED vars
  BY <1>11 DEF vars, ConstructInv, Staged, Connected, Probed, Suits, Screened, InDomain,
     SrvName, ProbedIsForwardable
<1>12. QED
  BY Zenon, <1>1, <1>2, <1>3, <1>4, <1>5, <1>6, <1>7, <1>8, <1>9, <1>10, <1>11
     DEF Next, Construct, Resolve, Probe

(* The invariant holds throughout. *)
LEMMA ConstructAlways == Spec => []ConstructInv
<1>1. Init => ConstructInv
  <2> SUFFICES ASSUME Init PROVE ConstructInv
    OBVIOUS
  <2>1. plan.kind = "none" /\ stage = "enter" /\ target = {} /\ looping = FALSE /\ forwarded = ""
    BY DEF Init
  <2>2. QED
    BY <2>1 DEF ConstructInv, Staged, Connected, Probed, Screened, ProbedIsForwardable
<1>2. QED
  BY <1>1, ConstructNext, PTL DEF Spec

-----------------------------------------------------------------------------
(* validate_records' suffix test says that labels precede the domain. *)
LEMMA StrictlyUnder ==
  ASSUME NEW name \in Seq(STRING), NEW parent \in Seq(STRING), parent # <<>>,
         TargetInParentDomain(name, parent)
  PROVE  \E n \in 1 .. Len(name) - 1 : SubSeq(name, n + 1, Len(name)) = parent
<1> DEFINE rest == Tail(name)
           k == Len(parent)
           n == Len(name) - k
<1>1. /\ rest \in Seq(STRING) /\ Len(rest) = Len(name) - 1 /\ Len(name) \in Nat
      /\ Len(name) >= 2 /\ \A i \in 1 .. Len(rest) : rest[i] = name[i + 1]
      /\ k \in Nat /\ k >= 1
  BY DEF TargetInParentDomain
<1>2. IsPrefix(Reverse(parent), Reverse(rest))
  BY DEF TargetInParentDomain, IsSuffix
<1>3. /\ Reverse(parent) \in Seq(STRING) /\ Len(Reverse(parent)) = k
      /\ \A j \in 1 .. k : Reverse(parent)[j] = parent[k - j + 1]
  BY <1>1 DEF Reverse
<1>4. /\ Reverse(rest) \in Seq(STRING) /\ Len(Reverse(rest)) = Len(rest)
      /\ \A j \in 1 .. Len(rest) : Reverse(rest)[j] = rest[Len(rest) - j + 1]
  BY <1>1 DEF Reverse
<1>5. k <= Len(rest) /\ SubSeq(Reverse(parent), 1, k) = SubSeq(Reverse(rest), 1, k)
  BY <1>2, <1>3, <1>4 DEF IsPrefix
<1>6. \A j \in 1 .. k : Reverse(parent)[j] = Reverse(rest)[j]
  <2>1. \A j \in 1 .. k : /\ SubSeq(Reverse(parent), 1, k)[j] = Reverse(parent)[j]
                          /\ SubSeq(Reverse(rest), 1, k)[j] = Reverse(rest)[j]
    BY <1>1, <1>3, <1>4, <1>5
  <2>2. QED
    BY <1>5, <2>1
<1>7. ASSUME NEW i \in 1 .. k PROVE parent[i] = name[n + i]
  <2>1. k - i + 1 \in 1 .. k /\ k - (k - i + 1) + 1 = i
    BY <1>1
  <2>2. PICK j \in 1 .. k : j = k - i + 1 /\ k - j + 1 = i
    BY Zenon, <2>1
  <2>3. Reverse(parent)[j] = parent[i]
    BY <1>3, <2>2
  <2>4. Reverse(rest)[j] = rest[Len(rest) - j + 1]
    BY <1>1, <1>4, <1>5
  <2>5. parent[i] = rest[Len(rest) - (k - i + 1) + 1]
    BY Zenon, <1>6, <2>2, <2>3, <2>4
  <2>6. /\ Len(rest) - (k - i + 1) + 1 \in 1 .. Len(rest)
        /\ Len(rest) - (k - i + 1) + 1 + 1 = n + i
    BY <1>1, <1>5
  <2>7. QED
    BY <1>1, <2>5, <2>6
<1>8. n \in 1 .. Len(name) - 1 /\ Len(name) - n = k
  BY <1>1, <1>5
<1>9. SubSeq(name, n + 1, Len(name)) = parent
  <2>1. /\ SubSeq(name, n + 1, Len(name)) \in Seq(STRING)
        /\ Len(SubSeq(name, n + 1, Len(name))) = k
        /\ \A i \in 1 .. k : SubSeq(name, n + 1, Len(name))[i] = name[n + i]
    BY <1>1, <1>8
  <2>2. QED
    BY <1>7, <2>1
<1>10. QED
  BY Zenon, <1>8, <1>9

(* The domain of a name of at least one label has one too. *)
LEMMA ParentNamed ==
  ASSUME NEW name \in Seq(STRING), name # <<>>
  PROVE  ParentDomain(name) \in Seq(STRING) /\ ParentDomain(name) # <<>>
<1>1. CASE Len(name) >= 3
  <2>1. Tail(name) \in Seq(STRING) /\ Len(Tail(name)) >= 2
    BY <1>1
  <2>2. \A s \in Seq(STRING) : Len(s) >= 2 => s # <<>>
    OBVIOUS
  <2>3. QED
    BY <1>1, <2>1, <2>2 DEF ParentDomain
<1>2. CASE ~(Len(name) >= 3)
  BY <1>2 DEF ParentDomain
<1>3. QED
  BY <1>1, <1>2

(* Whatever certificates the hosts have and whatever the DNS answers in    *)
(* any round: a client of a Proxy whose target was chosen by probing is    *)
(* never refused because forward_to's connector rejects the server.        *)
THEOREM ProbedTargetsForward == Spec => []ProbedIsForwardable
<1>1. ConstructInv => ProbedIsForwardable
  BY DEF ConstructInv
<1>2. QED
  BY <1>1, ConstructAlways, PTL

(* As long as the names are known label sequences (TypeOK), the target of  *)
(* a Proxy built from an SRV name stays strictly under that name's domain, *)
(* in every round: validate_records lets nothing else reach the probes.    *)
THEOREM SrvTargetsInDomain == Spec /\ []TypeOK => []TargetInDomain
<1>1. ConstructInv /\ TypeOK => TargetInDomain
  <2> SUFFICES ASSUME ConstructInv, TypeOK, plan.kind = "Srv", NEW h \in target
               PROVE  \E n \in 1 .. Len(h.host[1]) - 1 :
                        SubSeq(h.host[1], n + 1, Len(h.host[1])) = ParentDomain(SrvName)
    BY DEF TargetInDomain
  <2>1. /\ SrvName \in Seq(STRING) /\ SrvName # <<>> /\ h.host[1] \in Seq(STRING)
    BY ConstructorsAssumption DEF TypeOK, Names
  <2>2. ParentDomain(SrvName) \in Seq(STRING) /\ ParentDomain(SrvName) # <<>>
    BY <2>1, ParentNamed
  <2>3. TargetInParentDomain(h.host[1], ParentDomain(SrvName))
    BY DEF ConstructInv, Screened, InDomain
  <2>4. QED
    BY <2>1, <2>2, <2>3, StrictlyUnder
<1>2. QED
  BY <1>1, ConstructAlways, PTL

(* A Proxy that serves goes on serving: it keeps its plan and connector,   *)
(* and a target, through every later round and its failures.               *)
KeepsServing == target # {} => target' # {} /\ UNCHANGED <<plan, connector>>

(* Neither a failed lookup, a stray answer nor a round without a primary   *)
(* takes the target of a built Proxy away (the loop's `continue`), and the *)
(* connector a round works with is the one the Proxy was built with.       *)
THEOREM BuiltProxyServes == Spec => [][KeepsServing]_vars
<1>1. ConstructInv /\ [Next]_vars => [KeepsServing]_vars
  <2> SUFFICES ASSUME ConstructInv, Next, target # {}
               PROVE  target' # {} /\ UNCHANGED <<plan, connector>>
    BY DEF KeepsServing
  <2>1. stage # "enter"
    BY DEF ConstructInv, Staged
  <2>2. CASE Rejected \/ EnterSingle \/ EnterSeedList \/ EnterSrv
    BY <2>1, <2>2 DEF Rejected, EnterSingle, EnterSeedList, EnterSrv, Entered
  <2>3. CASE Resolve /\ ~Validate
    BY <2>3 DEF Resolve, LookupFails, Lookup, Draw
  <2>4. CASE Validate
    <3>1. plan.kind = "Srv" /\ connector = BuildTlsConnector(plan.tls)
      BY <2>4 DEF ConstructInv, Staged, Connected, Validate
    <3>2. QED
      BY <2>4, <3>1 DEF Validate
  <2>5. CASE Probe
    <3>1. ASSUME NEW condition, Selected(condition) PROVE target' # {} /\ UNCHANGED <<plan, connector>>
      BY <3>1 DEF Selected
    <3>2. ASSUME NEW condition, NoPrimary(condition) PROVE target' # {} /\ UNCHANGED <<plan, connector>>
      BY <3>2 DEF NoPrimary
    <3>3. QED
      BY <2>5, <3>1, <3>2 DEF Probe
  <2>6. CASE Tick \/ \E up \in BOOLEAN : Dial(up)
    BY <2>6 DEF Tick, Dial
  <2>7. QED
    BY <2>2, <2>3, <2>4, <2>5, <2>6 DEF Next, Construct
<1>2. QED
  BY <1>1, ConstructAlways, PTL DEF Spec
=============================================================================

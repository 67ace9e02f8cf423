------------------------------ MODULE SrvResolve ------------------------------
(***************************************************************************)
(* srv.rs: the order of SRV records by priority and weight, and the rule   *)
(* that a target lives in the domain of the queried name.  A name is the   *)
(* sequence of its labels; a trailing dot leaves an empty last label.      *)
(***************************************************************************)
EXTENDS Integers, Sequences, SequencesExt, Functions

SrvResolveError == {"ResolverInit", "Lookup", "NoRecords", "DomainMismatch", "NoPrimary"}

RawSrvRecord(data) ==
  [target |-> data.target, port |-> data.port, priority |-> data.priority, weight |-> data.weight]
\* HickorySrvLookup::lookup: the SRV records among the records of an answer.
LookupRecords(rrs) ==
  LET srv == SelectSeq(rrs, LAMBDA rr : rr.type = "SRV")
  IN  [i \in DOMAIN srv |-> RawSrvRecord(srv[i].data)]

\* records.sort_by_key(priority), which is stable.
SortByPriority(records) ==
  LET priorities == SetToSortSeq({records[i].priority : i \in DOMAIN records}, <)
  IN  FlattenSeq([k \in DOMAIN priorities |->
        SelectSeq(records, LAMBDA r : r.priority = priorities[k])])

\* group.sort_by_key(weight != 0): the records of weight 0 come first.
WeightlessFirst(group) ==
  SelectSeq(group, LAMBDA r : r.weight = 0) \o SelectSeq(group, LAMBDA r : r.weight # 0)

\* The records that share the first priority, as weighted_shuffle_into sorts them.
Group(records) ==
  WeightlessFirst(SelectSeq(records, LAMBDA r : r.priority = records[1].priority))

Running(group, idx) == SumFunctionOnSet([i \in DOMAIN group |-> group[i].weight], 1 .. idx)
Total(group) == Running(group, Len(group))

\* What WeightedRng may return; SplitMix64 gives every number of the range.
GenRangeInclusive(max) == 0 .. max

\* Mutation: the draw is compared with the weights, not with their running sum.
ChosenByWeight(group, pick) ==
  LET reached == {idx \in DOMAIN group : group[idx].weight >= pick}
  IN  IF reached = {} THEN 1 ELSE Min(reached)
\* The first record whose running sum reaches the draw.
Chosen(group, pick) ==
  LET reached == {idx \in DOMAIN group : Running(group, idx) >= pick}
  IN  IF reached = {} THEN 1 ELSE Min(reached)

SrvHost(host, port) == [host |-> <<host>>, port |-> port]

StripTrailingDot(name) == IF Len(name) > 1 /\ Last(name) = "" THEN Front(name) ELSE name

ParentDomain(name) == IF Len(name) >= 3 THEN Tail(name) ELSE name

\* Mutation: any target will do.
TargetAnywhere(target, parent) == TRUE
\* Mutation: the target itself may be the parent domain.
TargetWithinParentDomain(target, parent) == IsSuffix(parent, target)
TargetInParentDomain(target, parent) == Len(target) >= 2 /\ IsSuffix(parent, Tail(target))
=============================================================================

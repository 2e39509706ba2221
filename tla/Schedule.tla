------------------------------ MODULE Schedule ------------------------------
(***************************************************************************)
(* One pass of DistributedScheduler._schedule                              *)
(* (src/nova/scheduler/distributed_scheduler.py).                          *)
(*                                                                         *)
(* A pass fetches a fresh snapshot of the local host states, then for each *)
(* of the requested instances filters the current host list, picks the     *)
(* cheapest survivor by the weighted sum of the cost functions and         *)
(* virtually consumes the request's resources on it.  Unless the request   *)
(* is local_zone_only it then asks every child zone to "select", rescales  *)
(* the weights returned by offset + scale * raw, merges them with the      *)
(* local picks, sorts the whole list by weight and truncates it to the     *)
(* number of instances requested.                                          *)
(*                                                                         *)
(* Host resources are abstracted to one quantity, free memory; a request   *)
(* needs `need` units per instance.  Child-zone replies and zone records   *)
(* are chosen nondeterministically, malformed ones (a missing key)         *)
(* included.                                                               *)
(***************************************************************************)
EXTENDS Integers, Sequences, SequencesExt, FiniteSets

CONSTANTS
    HostOrder,      \* iteration order of get_all_host_states (distinct hosts)
    ZoneOrder,      \* order of the child zones returned by zone_get_all
    MaxFree,        \* bound on the free memory of a host in a snapshot
    Needs,          \* memory sizes an instance type may ask for
    MaxInstances,   \* bound on request_spec['num_instances']
    CostFns,        \* FLAGS.least_cost_functions resolved: <<coef, fn>> pairs
    RawWeights,     \* weights a child zone may report
    Offsets,        \* weight_offset values of zone records
    Scales,         \* weight_scale values of zone records
    Blobs,          \* opaque build-plan blobs a child zone may return
    MaxItems,       \* bound on the entries of one child zone's reply
    Missing,        \* a key absent from a dict (raises KeyError)
    NoHost, NoZone, NoBlob

Hosts == Range(HostOrder)
Zones == Range(ZoneOrder)

ASSUME /\ IsInjective(HostOrder) /\ IsInjective(ZoneOrder)
       /\ MaxInstances \in Nat \ {0}
       /\ \A c \in Range(CostFns) : c[2] \in {"free_ram", "noop"}

VARIABLES
    phase,          \* "idle", "local" (the per-instance loop), "done", "not_implemented"
    req,            \* the request: num_instances, memory need, local_zone_only
    fetched,        \* the host-state snapshot as fetched at the start of the pass
    free,           \* the host states as virtually consumed during the pass
    hosts,          \* the local variable `hosts`: the current filtered list
    selected,       \* selected_hosts: WeightedHost records
    allZones,       \* all_zones: the zone records read for the fan-out
    childResults,   \* child_results: per zone, the list of entries it returned
    result          \* the list _schedule returns

vars == <<phase, req, fetched, free, hosts, selected, allZones, childResults, result>>

-----------------------------------------------------------------------------
(* Data                                                                    *)

WeightedHost == [weight : Int, host : Hosts \cup {NoHost},
                 zone : Zones \cup {NoZone}, blob : Blobs \cup {NoBlob}]
ZoneRecord == [offset : Offsets \cup {Missing}, scale : Scales \cup {Missing}]
ChildItem == [weight : RawWeights \cup {Missing}, blob : Blobs \cup {Missing}]
ChildResult == BoundedSeq(ChildItem, MaxItems)
Requests == [num : 1..MaxInstances, need : Needs, localOnly : BOOLEAN]

-----------------------------------------------------------------------------
(* Filters, cost functions and consumption (host_manager, least_cost)      *)

\* AbstractHostFilter.host_passes: the base filter passes every host.
host_passes(h) == TRUE

\* The capacity filter of the chain: enough free memory for one instance.
RamFilter(h) == free[h] >= req.need

\* host_manager.filter_hosts: a host survives only if every filter passes.
filter_hosts(hs) == SelectSeq(hs, LAMBDA h : host_passes(h) /\ RamFilter(h))

\* The cost functions: compute_fill_first_cost_fn returns free memory,
\* noop_cost_fn returns 1.
CostFn(fn, h) == IF fn = "free_ram" THEN free[h] ELSE 1

\* weight = sum of coefficient * cost_function(host) over the cost functions.
Score(h) == FoldLeft(LAMBDA acc, c : acc + c[1] * CostFn(c[2], h), 0, CostFns)

\* least_cost.weighted_sum: one scan keeping the first host of least score
\* ("if min_score is None or score < min_score").
weighted_sum(hs) ==
    FoldLeft(LAMBDA best, h :
                 IF best.host = NoHost \/ Score(h) < best.weight
                 THEN [weight |-> Score(h), host |-> h, zone |-> NoZone, blob |-> NoBlob]
                 ELSE best,
             [weight |-> 0, host |-> NoHost, zone |-> NoZone, blob |-> NoBlob], hs)

\* HostState.consume_from_instance: reserve the instance's memory.
consume_from_instance(h) == [free EXCEPT ![h] = @ - req.need]

-----------------------------------------------------------------------------
(* Child zones and merging                                                 *)

\* An entry is used only if the zone record has weight_offset and
\* weight_scale and the entry has weight and blob; otherwise KeyError.
WellFormed(zs, z, it) ==
    /\ zs[z].offset # Missing /\ zs[z].scale # Missing
    /\ it.weight # Missing /\ it.blob # Missing

\* cooked_weight = offset + scale * raw_weight
Cooked(zs, z, it) ==
    [weight |-> zs[z].offset + zs[z].scale * it.weight,
     host |-> NoHost, zone |-> z, blob |-> it.blob]

\* Mutant: the try/except wraps the loop over a zone's entries, so the
\* first malformed entry drops the rest of that zone's reply.
adjust_zone_stop_at_error(zs, cr, z) ==
    FoldLeft(LAMBDA acc, it : IF acc.stop \/ ~WellFormed(zs, z, it) THEN [acc EXCEPT !.stop = TRUE]
                              ELSE [acc EXCEPT !.list = Append(@, Cooked(zs, z, it))],
             [stop |-> FALSE, list |-> <<>>], cr[z]).list

\* _adjust_child_weights: per zone in reply order, skip an empty reply;
\* each entry with a missing key raises KeyError, is logged and skipped.
AdjustZone(zs, cr, z) ==
    FoldLeft(LAMBDA acc, it : IF WellFormed(zs, z, it) THEN Append(acc, Cooked(zs, z, it)) ELSE acc,
             <<>>, cr[z])

\* Mutant: an empty reply ends the scan of the zones ("break").
adjust_child_weights_break(cr, zs) ==
    LET step(acc, z) == IF acc.stop THEN acc
                        ELSE IF cr[z] = <<>> THEN [acc EXCEPT !.stop = TRUE]
                        ELSE [acc EXCEPT !.list = @ \o AdjustZone(zs, cr, z)]
    IN  FoldLeft(step, [stop |-> FALSE, list |-> <<>>], ZoneOrder).list

_adjust_child_weights(cr, zs) ==
    FoldLeft(LAMBDA acc, z : IF cr[z] = <<>> THEN acc ELSE acc \o AdjustZone(zs, cr, z),
             <<>>, ZoneOrder)

\* list.sort(key=weight): Python's sort is stable.
InsertByWeight(sorted, x) ==
    LET k == Len(SelectSeq(sorted, LAMBDA y : y.weight <= x.weight))
    IN  SubSeq(sorted, 1, k) \o <<x>> \o SubSeq(sorted, k + 1, Len(sorted))

SortByWeight(s) == FoldLeft(InsertByWeight, <<>>, s)

\* Mutant: the list is cut to num_instances before it is sorted.
truncate_then_sort(s, n) == SortByWeight(SubSeq(s, 1, Min({n, Len(s)})))

\* selected_hosts.sort(...); return selected_hosts[:num_instances]
SortAndTruncate(s, n) == LET sorted == SortByWeight(s) IN SubSeq(sorted, 1, Min({n, Len(sorted)}))

-----------------------------------------------------------------------------
(* Actions                                                                 *)

Init ==
    /\ phase = "idle"
    /\ req = [num |-> 1, need |-> CHOOSE n \in Needs : TRUE, localOnly |-> TRUE]
    /\ fetched = [h \in Hosts |-> 0]
    /\ free = fetched
    /\ hosts = <<>>
    /\ selected = <<>>
    /\ allZones = [z \in Zones |-> [offset |-> Missing, scale |-> Missing]]
    /\ childResults = [z \in Zones |-> <<>>]
    /\ result = <<>>

\* A request without an instance_type: NotImplementedError.
RejectRequest ==
    /\ phase = "idle"
    /\ phase' = "not_implemented"
    /\ UNCHANGED <<req, fetched, free, hosts, selected, allZones, childResults, result>>

\* _schedule up to the loop: build filter_properties, fetch the host states.
StartSchedule(r, snap) ==
    /\ phase = "idle"
    /\ phase' = "local"
    /\ req' = r
    /\ fetched' = snap
    /\ free' = snap
    /\ hosts' = HostOrder
    /\ selected' = <<>>
    /\ UNCHANGED <<allZones, childResults, result>>

\* Mutant: the iteration weighs the unfiltered list.
pick_host_unfiltered ==
    LET best == weighted_sum(hosts)
    IN  /\ phase = "local"
        /\ Len(selected) < req.num
        /\ hosts # <<>>
        /\ selected' = Append(selected, best)
        /\ free' = consume_from_instance(best.host)
        /\ UNCHANGED <<phase, req, fetched, hosts, allZones, childResults, result>>

\* Mutant: the consume_from_instance call is missing.
pick_host_no_consume ==
    LET survivors == filter_hosts(hosts)
        best == weighted_sum(survivors)
    IN  /\ phase = "local"
        /\ Len(selected) < req.num
        /\ survivors # <<>>
        /\ hosts' = survivors
        /\ selected' = Append(selected, best)
        /\ UNCHANGED <<phase, req, fetched, free, allZones, childResults, result>>

\* One iteration of the loop: filter, weigh, append, consume.
PickHost ==
    LET survivors == filter_hosts(hosts)
        best == weighted_sum(survivors)
    IN  /\ phase = "local"
        /\ Len(selected) < req.num
        /\ survivors # <<>>
        /\ hosts' = survivors
        /\ selected' = Append(selected, best)
        /\ free' = consume_from_instance(best.host)
        /\ UNCHANGED <<phase, req, fetched, allZones, childResults, result>>

\* Mutant: the "if not hosts: break" is missing; the pass only ends once
\* num_instances hosts were picked.
finish_local_no_break ==
    /\ phase = "local"
    /\ Len(selected) = req.num
    /\ phase' = "done"
    /\ IF req.localOnly
         THEN /\ selected' = selected
              /\ UNCHANGED <<allZones, childResults>>
         ELSE \E zs \in [Zones -> ZoneRecord], cr \in [Zones -> ChildResult] :
                 /\ allZones' = zs
                 /\ childResults' = cr
                 /\ selected' = selected \o _adjust_child_weights(cr, zs)
    /\ result' = SortAndTruncate(selected', req.num)
    /\ UNCHANGED <<req, fetched, free, hosts>>

\* The loop ends (all picked, or no survivor: break), then the child zones
\* are asked unless local_zone_only, and the merged list is sorted and cut.
FinishLocal ==
    /\ phase = "local"
    /\ Len(selected) = req.num \/ filter_hosts(hosts) = <<>>
    /\ phase' = "done"
    /\ IF req.localOnly
         THEN /\ selected' = selected
              /\ UNCHANGED <<allZones, childResults>>
         ELSE \E zs \in [Zones -> ZoneRecord], cr \in [Zones -> ChildResult] :
                 /\ allZones' = zs
                 /\ childResults' = cr
                 /\ selected' = selected \o _adjust_child_weights(cr, zs)
    /\ result' = SortAndTruncate(selected', req.num)
    /\ UNCHANGED <<req, fetched, free, hosts>>

Next ==
    \/ RejectRequest
    \/ \E r \in Requests, snap \in [Hosts -> 0..MaxFree] : StartSchedule(r, snap)
    \/ PickHost
    \/ FinishLocal

Spec == Init /\ [][Next]_vars

\* The pass is sequential code with a loop bounded by num_instances: once
\* started, its next statement always runs.
FairSpec == Spec /\ WF_vars(PickHost) /\ WF_vars(FinishLocal)

-----------------------------------------------------------------------------
(* Properties                                                              *)

TypeOK ==
    /\ phase \in {"idle", "local", "done", "not_implemented"}
    /\ req \in Requests
    /\ fetched \in [Hosts -> 0..MaxFree]
    /\ free \in [Hosts -> 0..MaxFree]
    /\ hosts \in Seq(Hosts)
    /\ selected \in Seq(WeightedHost)
    /\ allZones \in [Zones -> ZoneRecord]
    /\ childResults \in [Zones -> ChildResult]
    /\ result \in Seq(WeightedHost)

LocalPicks(h) == Len(SelectSeq(selected, LAMBDA w : w.host = h))

\* Virtual consumption: within one pass no host is given more instances
\* than its fetched free memory holds, however many instances are asked
\* for and however the picks fall (consume_from_instance feeding the next
\* iteration's filter).
NoHostOvercommitted ==
    \A h \in Hosts : LocalPicks(h) * req.need <= fetched[h]

\* The reply entries _adjust_child_weights should keep, counted directly:
\* every entry of a non-empty reply whose zone record has offset and scale
\* and which itself has weight and blob, rescaled.
ExpectedRemote(r) ==
    Cardinality({<<z, i>> \in Zones \X (1..MaxItems) :
                    /\ i \in DOMAIN childResults[z]
                    /\ WellFormed(allZones, z, childResults[z][i])
                    /\ Cooked(allZones, z, childResults[z][i]) = r})

\* Federation failure isolation: a malformed or empty child reply costs
\* only its own entries; every well-formed entry of every other zone is
\* merged exactly once, with weight offset + scale * raw.
ChildEntriesMerged ==
    phase = "done" /\ ~req.localOnly =>
        \A r \in Range(selected) \cup
                 UNION {{Cooked(allZones, z, it) : it \in {x \in Range(childResults[z]) : WellFormed(allZones, z, x)}} :
                        z \in Zones} :
            r.zone # NoZone =>
                Len(SelectSeq(selected, LAMBDA w : w = r)) = ExpectedRemote(r)

\* The returned plan is the num_instances cheapest candidates, local and
\* remote together, in ascending weight: nothing left out is cheaper than
\* anything returned.
ResultIsCheapest ==
    phase = "done" =>
        /\ Len(result) = Min({req.num, Len(selected)})
        /\ ToBag(result) \sqsubseteq ToBag(selected)
        /\ \A i \in 1..(Len(result) - 1) : result[i].weight <= result[i + 1].weight
        /\ \A w \in BagToSet(ToBag(selected) (-) ToBag(result)) :
               \A i \in DOMAIN result : result[i].weight <= w.weight

\* spec.md section 8: when enough hosts survive filtering at every
\* iteration, _schedule returns num_instances entries on distinct hosts.
\* (Every host still passes the filter at the end of the pass, so every
\* host survived every iteration.)
DistinctLocalHosts ==
    (/\ phase = "done" /\ req.localOnly
     /\ Cardinality(Hosts) >= req.num
     /\ \A h \in Hosts : RamFilter(h))
    => \A i, j \in DOMAIN result : i # j => result[i].host # result[j].host

\* The refinement mapping: the loop is internal to a busy pass; the
\* snapshot is the one fetched, not the one being consumed.
Abs == INSTANCE ScheduleSpec WITH
    status <- IF phase = "local" THEN "busy" ELSE phase,
    request <- req, snapshot <- fetched, zones <- allZones,
    replies <- childResults, answer <- result

\* _schedule implements ScheduleSpec: the loop of filter, weigh, append and
\* consume, the break, the child-zone merge and the sort-then-cut return
\* exactly the reference answer, the request and snapshot never change
\* during a pass, and a pass that started returns.
ImplementsScheduleSpec == Abs!SafetySpec /\ Abs!Returns

==============================================================================

---------------------------- MODULE ScheduleSpec ----------------------------
(***************************************************************************)
(* What one _schedule pass promises, stated as a whole.  A request is      *)
(* accepted with a host-state snapshot; later the pass returns, in one     *)
(* step, the answer computed by the reference below from the request, the *)
(* snapshot and the child zones' replies.  A request without an            *)
(* instance_type is rejected.  A pass that was accepted always returns.    *)
(*                                                                         *)
(* The reference is written independently of the loop in Schedule:         *)
(*  - local picks: repeatedly the host of least weight among those with    *)
(*    room for one more instance (ties to the earlier host), its free      *)
(*    memory reduced, as many times as instances were asked for;           *)
(*  - remote picks: every well-formed child entry, cooked as               *)
(*    offset + scale * raw, zones and entries in reply order;              *)
(*  - the answer: local then remote picks ranked by (weight, position),    *)
(*    the first num_instances of them.                                     *)
(***************************************************************************)
EXTENDS Integers, Sequences, SequencesExt, FiniteSets

CONSTANTS
    HostOrder, ZoneOrder, MaxFree, Needs, MaxInstances, CostFns,
    RawWeights, Offsets, Scales, Blobs, MaxItems, Missing, NoHost, NoZone, NoBlob

VARIABLES
    status,         \* "idle", "busy", "done", "not_implemented"
    request,        \* the request accepted
    snapshot,       \* the host states fetched for it
    zones,          \* the zone records read for the fan-out
    replies,        \* the child zones' replies
    answer          \* the list returned

avars == <<status, request, snapshot, zones, replies, answer>>

Hosts == Range(HostOrder)
Zones == Range(ZoneOrder)
Candidate == [weight : Int, host : Hosts \cup {NoHost},
              zone : Zones \cup {NoZone}, blob : Blobs \cup {NoBlob}]
ZoneRecord == [offset : Offsets \cup {Missing}, scale : Scales \cup {Missing}]
ChildItem == [weight : RawWeights \cup {Missing}, blob : Blobs \cup {Missing}]
Requests == [num : 1..MaxInstances, need : Needs, localOnly : BOOLEAN]
Snapshots == [Hosts -> 0..MaxFree]

-----------------------------------------------------------------------------
(* The reference answer                                                    *)

\* The weight of a host: the coefficients times the cost functions' values.
RECURSIVE WeightFrom(_, _, _)
WeightFrom(i, fr, h) ==
    IF i > Len(CostFns) THEN 0
    ELSE CostFns[i][1] * (IF CostFns[i][2] = "free_ram" THEN fr[h] ELSE 1)
         + WeightFrom(i + 1, fr, h)

Pos(h) == CHOOSE i \in DOMAIN HostOrder : HostOrder[i] = h

\* Of the hosts in `ok`, the one of least weight, the earlier one on a tie.
Lightest(ok, fr) ==
    CHOOSE h \in ok : \A g \in ok :
        \/ WeightFrom(1, fr, h) < WeightFrom(1, fr, g)
        \/ WeightFrom(1, fr, h) = WeightFrom(1, fr, g) /\ Pos(h) <= Pos(g)

RECURSIVE LocalPicks(_, _, _)
LocalPicks(n, need, fr) ==
    LET ok == {h \in Hosts : fr[h] >= need}
    IN  IF n = 0 \/ ok = {} THEN <<>>
        ELSE LET h == Lightest(ok, fr)
             IN  <<[weight |-> WeightFrom(1, fr, h), host |-> h, zone |-> NoZone, blob |-> NoBlob]>>
                 \o LocalPicks(n - 1, need, [fr EXCEPT ![h] = @ - need])

Usable(zr, it) ==
    Missing \notin {zr.offset, zr.scale, it.weight, it.blob}

RemotePicks(zs, cr) ==
    FlattenSeq([i \in DOMAIN ZoneOrder |->
        LET z == ZoneOrder[i]
            ok == SelectSeq(cr[z], LAMBDA it : Usable(zs[z], it))
        IN  [j \in DOMAIN ok |->
                [weight |-> zs[z].offset + zs[z].scale * ok[j].weight,
                 host |-> NoHost, zone |-> z, blob |-> ok[j].blob]]])

\* The position of s[j] when s is ordered by weight, earlier first on a tie.
RankOf(s, j) ==
    Cardinality({k \in DOMAIN s : s[k].weight < s[j].weight
                                  \/ (s[k].weight = s[j].weight /\ k < j)}) + 1

Ranked(s) == [i \in DOMAIN s |-> s[CHOOSE j \in DOMAIN s : RankOf(s, j) = i]]

Answer(r, fr, zs, cr) ==
    LET all == LocalPicks(r.num, r.need, fr) \o (IF r.localOnly THEN <<>> ELSE RemotePicks(zs, cr))
    IN  SubSeq(Ranked(all), 1, IF r.num < Len(all) THEN r.num ELSE Len(all))

-----------------------------------------------------------------------------

Init ==
    /\ status = "idle"
    /\ request \in Requests
    /\ snapshot \in Snapshots
    /\ zones \in [Zones -> ZoneRecord]
    /\ replies \in [Zones -> BoundedSeq(ChildItem, MaxItems)]
    /\ answer = <<>>

Reject ==
    /\ status = "idle"
    /\ status' = "not_implemented"
    /\ UNCHANGED <<request, snapshot, zones, replies, answer>>

Accept ==
    /\ status = "idle"
    /\ status' = "busy"
    /\ request' \in Requests
    /\ snapshot' \in Snapshots
    /\ UNCHANGED <<zones, replies, answer>>

Serve ==
    /\ status = "busy"
    /\ status' = "done"
    /\ zones' \in [Zones -> ZoneRecord]
    /\ replies' \in [Zones -> BoundedSeq(ChildItem, MaxItems)]
    /\ answer' = Answer(request, snapshot, zones', replies')
    /\ UNCHANGED <<request, snapshot>>

Next == Reject \/ Accept \/ Serve

SafetySpec == Init /\ [][Next]_avars

\* A pass that was accepted returns (what WF_avars(Serve) ensures, stated
\* as the leads-to it implies).
Returns == status = "busy" ~> status = "done"

Spec == SafetySpec /\ WF_avars(Serve)

=============================================================================

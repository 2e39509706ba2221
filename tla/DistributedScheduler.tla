------------------------- MODULE DistributedScheduler -------------------------
(***************************************************************************)
(* The entry points of DistributedScheduler                                *)
(* (src/nova/scheduler/distributed_scheduler.py): schedule_run_instance,   *)
(* schedule_prep_resize, select and schedule, around one _schedule pass    *)
(* (module Schedule).                                                      *)
(*                                                                         *)
(* schedule_run_instance either decodes a build-plan blob handed down by a *)
(* parent zone or runs _schedule, then pops the plan's weighted hosts one  *)
(* per requested instance: a remote one is forwarded to its child zone     *)
(* (_ask_child_zone_to_create_instance), a local one gets an instance      *)
(* record and a run_instance cast (_provision_resource_locally).  The     *)
(* request's instance_properties['uuid'] placeholder is what ties a local  *)
(* provisioning to its instance record.                                    *)
(***************************************************************************)
EXTENDS Integers, Sequences, SequencesExt, FiniteSets

CONSTANTS
    HostOrder, ZoneOrder, MaxFree, Needs, MaxInstances, CostFns,
    RawWeights, Offsets, Scales, Blobs, MaxItems, Missing, NoHost, NoZone, NoBlob,
    Keys,           \* encryption keys a blob may have been made with
    BuildPlanKey,   \* FLAGS.build_plan_encryption_key of this zone
    MaxUuids,       \* bound on the instance records created
    None            \* a key absent from instance_properties

VARIABLES
    phase, req, fetched, free, hosts, selected, allZones, childResults, result,
    entry,          \* the entry point running: "none", "run", "resize", "select", "schedule"
    dphase,         \* "idle", "scheduling", "provisioning", then an outcome
    uuid,           \* request_spec['instance_properties']['uuid'], or None
    blob,           \* request_spec['blob'], or NoBlob
    plan,           \* weighted_hosts, popped from the front
    instanceDb,     \* uuids of the instance records in the database
    casts,          \* casts to compute hosts: [method, host, uuid]
    zoneCreates,    \* servers.create calls made on child zones: [zone, blob]
    instances       \* number of instances in the returned list

S == INSTANCE Schedule

schedVars == <<phase, req, fetched, free, hosts, selected, allZones, childResults, result>>
drvVars == <<entry, dphase, uuid, blob, plan, instanceDb, casts, zoneCreates, instances>>
vars == <<schedVars, drvVars>>

Hosts == S!Hosts
Zones == S!Zones
Uuids == 1..MaxUuids

\* The dict a zone's select() hands out per candidate (WeightedHost.to_dict):
\* always a weight, then the host of a local candidate or the zone and the
\* child's blob of a remote one.  The parent zone's API encrypts it with the
\* zone's build-plan key.
PlanDicts == [weight : {0}, host : Hosts, zone : {NoZone}, blob : {NoBlob}]
             \cup [weight : {0}, host : {NoHost}, zone : Zones, blob : Blobs]
EncryptedBlobs == [key : Keys, dict : PlanDicts]

Outcomes == {"done", "no_valid_host", "not_implemented", "not_authorized",
             "zone_error", "decrypt_error", "crashed"}

-----------------------------------------------------------------------------
(* Helpers                                                                 *)

\* Mutant: the decoded dict's zone is not carried into the WeightedHost.
decode_drop_zone(b) ==
    [weight |-> b.dict.weight, host |-> b.dict.host, zone |-> NoZone, blob |-> b.dict.blob]

\* _make_weighted_host_from_blob for a blob that decrypts: host, blob and
\* zone are read with .get (absent -> None), weight with [] ; the HostState
\* stub carries the host name.
_make_weighted_host_from_blob(b) ==
    [weight |-> b.dict.weight, host |-> b.dict.host, zone |-> b.dict.zone, blob |-> b.dict.blob]

\* driver.create_instance_db_entry: with a uuid in instance_properties the
\* record is "assumed created already" (line 171); otherwise a new record
\* is created and its uuid written into instance_properties.
InstanceFor == IF uuid # None THEN uuid ELSE Cardinality(instanceDb) + 1

-----------------------------------------------------------------------------
(* Actions                                                                 *)

Init ==
    /\ S!Init
    /\ entry = "none"
    /\ dphase = "idle"
    /\ uuid = None
    /\ blob = NoBlob
    /\ plan = <<>>
    /\ instanceDb = {}
    /\ casts = <<>>
    /\ zoneCreates = <<>>
    /\ instances = 0

\* The caller (compute api) may have created the first instance's record
\* before scheduling and put its uuid in instance_properties.
Precreated(withUuid) ==
    /\ instanceDb' = IF withUuid THEN {1} ELSE {}
    /\ uuid' = IF withUuid THEN 1 ELSE None

\* schedule_run_instance with no blob: make a plan with _schedule.
RunInstanceSchedule(r, snap, withUuid) ==
    /\ entry = "none"
    /\ entry' = "run"
    /\ dphase' = "scheduling"
    /\ Precreated(withUuid)
    /\ S!StartSchedule(r, snap)
    /\ UNCHANGED <<blob, plan, casts, zoneCreates, instances>>

\* schedule_run_instance with a blob: decode it instead of scheduling.  A
\* blob made with another key fails to decrypt and the error propagates.
RunInstanceFromBlob(r, b, withUuid) ==
    /\ entry = "none"
    /\ entry' = "run"
    /\ blob' = b
    /\ req' = r
    /\ Precreated(withUuid)
    /\ IF b.key = BuildPlanKey
         THEN /\ plan' = <<_make_weighted_host_from_blob(b)>>
              /\ dphase' = "provisioning"
         ELSE /\ plan' = <<>>
              /\ dphase' = "decrypt_error"
    /\ UNCHANGED <<phase, fetched, free, hosts, selected, allZones, childResults, result,
                   casts, zoneCreates, instances>>

\* schedule_prep_resize and select both start with a _schedule pass.
ScheduleFor(e, r, snap) ==
    /\ entry = "none"
    /\ entry' = e
    /\ dphase' = "scheduling"
    /\ S!StartSchedule(r, snap)
    /\ UNCHANGED <<uuid, blob, plan, instanceDb, casts, zoneCreates, instances>>

\* A request without an instance_type: _schedule raises NotImplementedError.
ScheduleRejected(e) ==
    /\ entry = "none"
    /\ entry' = e
    /\ dphase' = "not_implemented"
    /\ S!RejectRequest
    /\ UNCHANGED <<uuid, blob, plan, instanceDb, casts, zoneCreates, instances>>

\* schedule(): no host selection for any topic.
schedule ==
    /\ entry = "none"
    /\ entry' = "schedule"
    /\ dphase' = "no_valid_host"
    /\ UNCHANGED <<schedVars, uuid, blob, plan, instanceDb, casts, zoneCreates, instances>>

\* The steps of the _schedule pass itself.
ScheduleStep ==
    /\ dphase = "scheduling"
    /\ S!PickHost \/ S!FinishLocal
    /\ UNCHANGED drvVars

\* _schedule has returned: each entry point goes on with its result.
Scheduled ==
    /\ dphase = "scheduling"
    /\ phase = "done"
    /\ CASE entry = "select" ->
              /\ dphase' = "done"
              /\ UNCHANGED <<plan, casts>>
         [] result = <<>> ->
              /\ dphase' = "no_valid_host"
              /\ UNCHANGED <<plan, casts>>
         [] entry = "run" ->
              /\ dphase' = "provisioning"
              /\ plan' = result
              /\ UNCHANGED casts
         [] entry = "resize" ->
              \* host.host_state.host: a remote candidate has no host_state
              /\ dphase' = IF result[1].host = NoHost THEN "crashed" ELSE "done"
              /\ casts' = IF result[1].host = NoHost THEN casts
                          ELSE Append(casts, [method |-> "prep_resize", host |-> result[1].host,
                                              uuid |-> None])
              /\ UNCHANGED plan
    /\ UNCHANGED <<schedVars, entry, uuid, blob, instanceDb, zoneCreates, instances>>

\* Mutant: instance_properties['uuid'] is left in place after provisioning.
provision_keep_uuid(wh) ==
    /\ instanceDb' = instanceDb \cup {InstanceFor}
    /\ casts' = Append(casts, [method |-> "run_instance", host |-> wh.host, uuid |-> InstanceFor])
    /\ uuid' = InstanceFor

\* _provision_resource_locally: create (or reuse) the instance record, cast
\* run_instance to the host, then delete the uuid from instance_properties
\* so that the next instance gets a record of its own.
_provision_resource_locally(wh) ==
    /\ instanceDb' = instanceDb \cup {InstanceFor}
    /\ casts' = Append(casts, [method |-> "run_instance", host |-> wh.host, uuid |-> InstanceFor])
    /\ uuid' = None

\* Mutant: servers.create is issued before authentication is checked.
ask_child_create_then_auth(wh) ==
    /\ zoneCreates' = Append(zoneCreates, [zone |-> wh.zone, blob |-> wh.blob])
    /\ \/ /\ instances' = instances + 1
          /\ UNCHANGED dphase
       \/ /\ dphase' = "not_authorized"
          /\ UNCHANGED instances

\* _ask_child_zone_to_create_instance: authenticate at the child zone as
\* the caller and ask it for one server carrying the zone blob.  A
\* BadRequest on authentication is raised as NotAuthorized.  Any other
\* failure propagates as it is ("zone_error"): db.zone_get or the client
\* before the create call, or servers.create itself, which may fail after
\* the child zone received the request.
_ask_child_zone_to_create_instance(wh) ==
    \/ /\ zoneCreates' = Append(zoneCreates, [zone |-> wh.zone, blob |-> wh.blob])
       /\ instances' = instances + 1
       /\ UNCHANGED dphase
    \/ /\ dphase' = "not_authorized"
       /\ UNCHANGED <<zoneCreates, instances>>
    \/ /\ dphase' = "zone_error"
       /\ zoneCreates' \in {zoneCreates, Append(zoneCreates, [zone |-> wh.zone, blob |-> wh.blob])}
       /\ UNCHANGED instances

\* One iteration of the provisioning loop: pop the best weighted host and
\* forward it to its child zone or provision it here.
ProvisionNext ==
    LET wh == Head(plan) IN
    /\ dphase = "provisioning"
    /\ instances < req.num
    /\ plan # <<>>
    /\ plan' = Tail(plan)
    /\ IF wh.zone # NoZone
         THEN /\ _ask_child_zone_to_create_instance(wh)
              /\ UNCHANGED <<uuid, instanceDb, casts>>
         ELSE /\ Cardinality(instanceDb) < MaxUuids \/ uuid # None
              /\ _provision_resource_locally(wh)
              /\ instances' = instances + 1
              /\ UNCHANGED <<dphase, zoneCreates>>
    /\ UNCHANGED <<schedVars, entry, blob>>

\* The loop ends after num_instances or when the plan runs out.
ProvisionDone ==
    /\ dphase = "provisioning"
    /\ instances = req.num \/ plan = <<>>
    /\ dphase' = "done"
    /\ UNCHANGED <<schedVars, entry, uuid, blob, plan, instanceDb, casts, zoneCreates, instances>>

Next ==
    \/ \E r \in S!Requests, snap \in [Hosts -> 0..MaxFree], w \in BOOLEAN :
          RunInstanceSchedule(r, snap, w)
    \/ \E r \in S!Requests, b \in EncryptedBlobs, w \in BOOLEAN : RunInstanceFromBlob(r, b, w)
    \/ \E e \in {"resize", "select"}, r \in S!Requests, snap \in [Hosts -> 0..MaxFree] :
          ScheduleFor(e, r, snap)
    \/ \E e \in {"run", "resize", "select"} : ScheduleRejected(e)
    \/ schedule
    \/ ScheduleStep
    \/ Scheduled
    \/ ProvisionNext
    \/ ProvisionDone

Spec == Init /\ [][Next]_vars


-----------------------------------------------------------------------------
(* Properties                                                              *)

TypeOK ==
    /\ S!TypeOK
    /\ entry \in {"none", "run", "resize", "select", "schedule"}
    /\ dphase \in {"idle", "scheduling", "provisioning"} \cup Outcomes
    /\ uuid \in Uuids \cup {None}
    /\ blob \in EncryptedBlobs \cup {NoBlob}
    /\ plan \in Seq(S!WeightedHost)
    /\ instanceDb \subseteq Uuids
    /\ casts \in Seq([method : {"run_instance", "prep_resize"}, host : Hosts,
                      uuid : Uuids \cup {None}])
    /\ zoneCreates \in Seq([zone : Zones, blob : Blobs])
    /\ instances \in 0..MaxInstances

RunCasts == SelectSeq(casts, LAMBDA c : c.method = "run_instance")

\* A multi-instance request: every run_instance cast names an instance
\* record of its own, however local and remote picks interleave and
\* whether or not the caller created the first record beforehand (the
\* uuid placeholder deleted after each local provisioning).
OneInstancePerCast ==
    /\ \A i, j \in DOMAIN RunCasts : i # j => RunCasts[i].uuid # RunCasts[j].uuid
    /\ \A i \in DOMAIN RunCasts : RunCasts[i].uuid \in instanceDb

\* A build plan handed down in a blob is committed as planned: the one
\* instance goes to the host it names, or is forwarded to the zone it
\* names with that zone's own blob, and nowhere else.
BlobPlanHonoured ==
    blob # NoBlob /\ blob.key = BuildPlanKey /\ dphase = "done" =>
        IF blob.dict.zone # NoZone
        THEN /\ zoneCreates = <<[zone |-> blob.dict.zone, blob |-> blob.dict.blob]>>
             /\ casts = <<>>
        ELSE /\ Len(casts) = 1 /\ casts[1].host = blob.dict.host
             /\ zoneCreates = <<>>

\* spec.md 4.4: schedule_prep_resize dispatches prep_resize to the winning
\* local host (remote-zone resize is out of scope); it should not fail
\* for a request some candidate can serve.
PrepResizeDispatched ==
    dphase # "crashed"

\* Federation failure isolation within one reply: an entry with a missing
\* key is skipped and the entries after it in the same zone's reply are
\* still merged, exactly once each, with their cooked weights.
ChildEntriesMerged == S!ChildEntriesMerged

\* What a call leaves behind, in particular when a child zone fails
\* part-way through the plan (not retried and not rolled back): the
\* run_instance casts are exactly the local hosts among the plan entries
\* popped so far, in plan order, and the servers.create calls exactly the
\* remote ones; the entry that failed is a remote one, was never asked
\* for on NotAuthorized, and may or may not have been on another error.
ProvisionedIsPoppedPrefix ==
    entry = "run" /\ blob = NoBlob /\ dphase \in {"provisioning", "done", "not_authorized", "zone_error"} =>
        LET popped == SubSeq(result, 1, Len(result) - Len(plan))
            loc == SelectSeq(popped, LAMBDA w : w.zone = NoZone)
            rem == SelectSeq(popped, LAMBDA w : w.zone # NoZone)
            Creates(ws) == [i \in DOMAIN ws |-> [zone |-> ws[i].zone, blob |-> ws[i].blob]]
            failed == dphase \in {"not_authorized", "zone_error"}
            before == IF failed THEN SubSeq(rem, 1, Len(rem) - 1) ELSE rem
        IN  /\ [i \in DOMAIN RunCasts |-> RunCasts[i].host] = [i \in DOMAIN loc |-> loc[i].host]
            /\ \/ zoneCreates = Creates(before)
               \/ dphase = "zone_error" /\ zoneCreates = Creates(rem)
            /\ failed => popped[Len(popped)].zone # NoZone

=============================================================================

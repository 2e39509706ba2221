---------------------------- MODULE CostFunctions ----------------------------
(***************************************************************************)
(* DistributedScheduler.get_cost_functions                                 *)
(* (src/nova/scheduler/distributed_scheduler.py): the per-topic cache of   *)
(* (weight, cost function) pairs resolved from FLAGS.least_cost_functions. *)
(*                                                                         *)
(* An identifier is fully qualified (has a dot) or short; a short one is   *)
(* expanded to an attribute of the scheduler class.  Only identifiers      *)
(* whose short name starts with "<topic>_" or "noop" are kept.  Each kept  *)
(* one must import (else SchedulerCostFunctionNotFound) and have a         *)
(* "<name>_weight" flag (else SchedulerWeightFlagNotFound).  The first     *)
(* successful resolution for a topic is cached for the process lifetime.  *)
(* Names are character sequences so that the prefix tests are modelled by  *)
(* what they do.                                                           *)
(***************************************************************************)
EXTENDS Integers, Sequences, SequencesExt, FiniteSets

CONSTANTS
    Topics,         \* topics asked for (character sequences)
    Idents,         \* identifiers a deployment may configure: [qualified, short]
    Importable,     \* dotted paths utils.import_class resolves: [mod, short]
    WeightFlag,     \* short name -> value of its "<name>_weight" flag, or NoFlag
    MaxConfig,      \* bound on the length of FLAGS.least_cost_functions
    NoFlag, None

VARIABLES
    config,         \* FLAGS.least_cost_functions
    cache,          \* self.cost_function_cache: topic -> list, or None
    last            \* the last call: its topic, the error it raised or the list it returned

vars == <<config, cache, last>>

Errors == {"CostFunctionNotFound", "WeightFlagNotFound"}

StartsWith(s, p) == Len(p) <= Len(s) /\ SubSeq(s, 1, Len(p)) = p

\* The topic filter: short_name.startswith('<topic>_') or startswith('noop').
ForTopic(id, topic) ==
    StartsWith(id.short, topic \o <<"_">>) \/ StartsWith(id.short, <<"n", "o", "o", "p">>)

\* cost_fn_str: as configured when dotted, else a scheduler class attribute.
Path(id) == [mod |-> IF id.qualified THEN "least_cost" ELSE "DistributedScheduler",
             short |-> id.short]

\* Mutant: a missing weight flag is not noticed (the AttributeError guard
\* dropped), so the function is listed with no weight.
resolve_no_flag_check(topic, acc, id) ==
    IF acc.err # None \/ ~ForTopic(id, topic) THEN acc
    ELSE IF Path(id) \notin Importable THEN [acc EXCEPT !.err = "CostFunctionNotFound"]
    ELSE [acc EXCEPT !.fns = Append(@, <<WeightFlag[id.short], Path(id)>>)]

\* One iteration of the loop over FLAGS.least_cost_functions.
ResolveStep(topic, acc, id) ==
    IF acc.err # None \/ ~ForTopic(id, topic) THEN acc
    ELSE IF Path(id) \notin Importable THEN [acc EXCEPT !.err = "CostFunctionNotFound"]
    ELSE IF WeightFlag[id.short] = NoFlag THEN [acc EXCEPT !.err = "WeightFlagNotFound"]
    ELSE [acc EXCEPT !.fns = Append(@, <<WeightFlag[id.short], Path(id)>>)]

Resolve(topic) ==
    FoldLeft(LAMBDA acc, id : ResolveStep(topic, acc, id), [topic |-> topic, err |-> None, fns |-> <<>>], config)

\* Mutant: the list is put in the cache before the loop fills it, so a
\* failure part-way leaves a partial list cached.
cache_before_loop(topic) ==
    LET r == Resolve(topic)
    IN  /\ cache' = [cache EXCEPT ![topic] = r.fns]
        /\ last' = [r EXCEPT !.topic = topic]

\* A cache miss: resolve, cache only a complete list, else raise.
FillCache(topic) ==
    LET r == Resolve(topic)
    IN  IF r.err # None
        THEN /\ last' = [r EXCEPT !.topic = topic]
             /\ UNCHANGED cache
        ELSE /\ cache' = [cache EXCEPT ![topic] = r.fns]
             /\ last' = [r EXCEPT !.topic = topic]

-----------------------------------------------------------------------------

Init ==
    /\ config \in BoundedSeq(Idents, MaxConfig)
    /\ cache = [t \in Topics |-> None]
    /\ last = [topic |-> None, err |-> None, fns |-> <<>>]

\* get_cost_functions(topic); _schedule calls it with no topic: "compute".
get_cost_functions(topic) ==
    /\ IF cache[topic] # None
         THEN /\ last' = [topic |-> topic, err |-> None, fns |-> cache[topic]]
              /\ UNCHANGED cache
         ELSE FillCache(topic)
    /\ UNCHANGED config

Next == \E t \in Topics : get_cost_functions(t)

Spec == Init /\ [][Next]_vars

-----------------------------------------------------------------------------
(* Properties                                                              *)

Weights == {WeightFlag[s] : s \in DOMAIN WeightFlag} \ {NoFlag}

TypeOK ==
    /\ config \in BoundedSeq(Idents, MaxConfig)
    /\ \A t \in Topics : cache[t] = None \/ cache[t] \in Seq(Weights \X Importable)
    /\ last.topic \in Topics \cup {None}
    /\ last.err \in Errors \cup {None}
    /\ last.fns \in Seq(Weights \X Importable)

\* What resolving a topic's configuration gives, stated without the loop
\* and the cache: the identifiers configured for the topic, in order; the
\* first of them that does not import, or has no weight flag, decides the
\* error; otherwise each is paired with its weight.
Configured(topic) == SelectSeq(config, LAMBDA id : ForTopic(id, topic))
Broken(id) == Path(id) \notin Importable \/ WeightFlag[id.short] = NoFlag
ReferenceResult(topic) ==
    LET ids == Configured(topic)
        bad == {i \in DOMAIN ids : Broken(ids[i])}
        first == CHOOSE i \in bad : \A j \in bad : i <= j
    IN  IF bad = {}
        THEN [err |-> None, fns |-> [i \in DOMAIN ids |-> <<WeightFlag[ids[i].short], Path(ids[i])>>]]
        ELSE [err |-> IF Path(ids[first]) \notin Importable THEN "CostFunctionNotFound"
                      ELSE "WeightFlagNotFound",
              fns |-> <<>>]

\* The cache is transparent: whatever calls for either topic came before,
\* and whether this one was served from self.cost_function_cache or
\* resolved, get_cost_functions returns what resolving FLAGS now gives,
\* or raises the error of the first identifier that fails.
CallsAgreeWithResolution ==
    last.topic # None =>
        LET ref == ReferenceResult(last.topic)
        IN  /\ last.err = ref.err
            /\ last.err = None => last.fns = ref.fns

=============================================================================

--------------------------- MODULE MCCostFunctions ---------------------------
(* Topics "c" (compute) and "n" (network); short names over a few letters. *)
EXTENDS CostFunctions

CONSTANTS NoFlagV, NoneV

CF == <<"c", "_", "f">>          \* compute_f: a compute cost function
NOOP == <<"n", "o", "o", "p">>   \* noop
NF == <<"n", "_", "f">>          \* network_f
CX == <<"c", "f">>               \* cf: starts with the topic but not "c_"

MCTopics == {<<"c">>, <<"n">>}
MCIdents == {[qualified |-> TRUE, short |-> CF], [qualified |-> FALSE, short |-> CF],
             [qualified |-> TRUE, short |-> NOOP], [qualified |-> TRUE, short |-> NF],
             [qualified |-> TRUE, short |-> CX]}
\* least_cost defines compute_f, noop, network_f and cf; the scheduler class defines none.
MCImportable == {[mod |-> "least_cost", short |-> s] : s \in {CF, NOOP, NF, CX}}
\* compute_f_weight = -1, noop_weight = 1; network_f has no weight flag.
MCWeightFlag == [s \in {CF, NOOP, NF, CX} |->
                    IF s = CF THEN -1 ELSE IF s = NF THEN NoFlagV ELSE 1]
=============================================================================

----------------------------- MODULE MCSchedule -----------------------------
(* Model of one _schedule pass: three hosts, two child zones.              *)
EXTENDS Schedule

CONSTANTS h1, h2, h3, z1, z2, b1

MCHostOrder == <<h1, h2, h3>>
MCZoneOrder == <<z1, z2>>
\* The default cost function: compute_fill_first_cost_fn with weight -1.0.
MCCostFns == <<<<-1, "free_ram">>>>
=============================================================================

------------------------ MODULE MCDistributedScheduler ------------------------
(* The entry points over two hosts and one child zone.                     *)
EXTENDS DistributedScheduler

CONSTANTS h1, h2, z1, b1, k1, k2

MCHostOrder == <<h1, h2>>
MCZoneOrder == <<z1>>
\* The default cost function: compute_fill_first_cost_fn with weight -1.0.
MCCostFns == <<<<-1, "free_ram">>>>
\* A child zone may report a candidate cheaper than any local host.
MCRawWeights == {-3, 0}
=============================================================================

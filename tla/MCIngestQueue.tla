---------------------------- MODULE MCIngestQueue ----------------------------
(* Capacities 0 (clamped) to 3 under both policies, and enough items to    *)
(* fill the largest queue and saturate it several times over.              *)
EXTENDS IngestQueue

AskedCapacities == 0..3
=============================================================================

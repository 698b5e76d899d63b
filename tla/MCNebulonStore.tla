--------------------------- MODULE MCNebulonStore ---------------------------
(* TLC instances of NebulonStore.                                            *)
EXTENDS NebulonStore, TLC

CONSTANTS t1, t2, k1, c1, c2

MCTargets == {"assigned", "running", "blocked", "failed"}
MCFewTargets == {"assigned", "failed"}
MCSymmetry == Permutations(Clients)
============================================================================

---------------------------- MODULE MCMemoryStore ----------------------------
(* TLC instances of MemoryStore.                                             *)
EXTENDS MemoryStore, TLC

CONSTANTS t1, t2, k1, k2, c1, c2

MCTargets == {"assigned", "running", "blocked", "verified", "failed"}
MCRunTargets ==
  {"planned", "needs_approval", "approved", "assigned", "running", "verified"}
MCSymmetry ==
  Permutations(Clients) \cup Permutations(Ids) \cup Permutations(Keys)
============================================================================

---------------------------- MODULE MCTaskChain ----------------------------
(* TLC instances of TaskChain.                                               *)
EXTENDS TaskChain

CONSTANTS c1, c2, w1, tester

MCStep(w, k) == [worker |-> w, kind |-> k, fix_with |-> None]
MCPlans == {<<MCStep(w1, "write"), MCStep(tester, "test")>>}
============================================================================

-------------------------- MODULE MCSessionMemory --------------------------
(* TLC instances of SessionMemory: the calls a and b share a key, c has one  *)
(* of its own.                                                               *)
EXTENDS SessionMemory

CONSTANTS a, b, c, p1, p2, s1, s2

MCSessionOf == [x \in Calls |-> IF x = c THEN s2 ELSE s1]
MCTextOf == [x \in Calls |-> x]
OneProcess == [x \in Calls |-> p1]
TwoProcesses == [x \in Calls |-> IF x = a THEN p1 ELSE p2]

Deployment(process, live, promote, flock) ==
  [callers |-> {a, b}, process |-> process, live |-> live, promote |-> promote,
   flock |-> flock, max_faults |-> 1]
(* Three calls with two keys and room for one lock, nothing raises.          *)
Crowded(flock) ==
  [callers |-> {a, b, c}, process |-> OneProcess, live |-> {}, promote |-> FALSE,
   flock |-> flock, max_faults |-> 0]

MCSetups ==
  {Deployment(OneProcess, {}, FALSE, FALSE),
   Deployment(TwoProcesses, {}, FALSE, TRUE),
   Deployment(OneProcess, {}, TRUE, TRUE),
   Deployment(TwoProcesses, {s1}, TRUE, TRUE),
   Crowded(FALSE)}
MCPlain == {Deployment(OneProcess, {}, FALSE, TRUE)}
============================================================================

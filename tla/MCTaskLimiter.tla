--------------------------- MODULE MCTaskLimiter ---------------------------
(***************************************************************************)
(* Four tasks for two slots: each is launched once, so ids and the clock   *)
(* are bounded by their number and by the deadlines, and no constraint is  *)
(* needed.  t1 to t4 are model values; without symmetry, as liveness needs.*)
(***************************************************************************)
EXTENDS TaskLimiter

CONSTANTS t1, t2, t3, t4

\* What the usage line of setmaxtasks says of the limit, [1 to 1000], and no
\* listed run checks, for it fails: an argument that is no number gets by the
\* test (meshuser.js:7719), and from then on nothing is launched and no slot
\* given back is taken again.
LimitInRange == maxTasks \in 1..1000
=============================================================================

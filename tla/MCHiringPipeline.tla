-------------------------- MODULE MCHiringPipeline --------------------------
(* Small instances of HiringPipeline. *)
EXTENDS HiringPipeline, TLC

CONSTANTS j1, j2, s1, s2, t1

\* One job of two steps.
OneJobOf == (s1 :> j1) @@ (s2 :> j1)
OneOrder == (s1 :> 1) @@ (s2 :> 2)

\* A second job whose only step was added with order 2 and without the lastStep
\* flag: it has neither a first step nor a next one.
TwoJobOf == OneJobOf @@ (t1 :> j2)
TwoOrder == OneOrder @@ (t1 :> 2)

\* One step each: a first one, and one that was added with order 2 after a step that
\* is gone.
FunnelJobOf == (s1 :> j1) @@ (t1 :> j2)
FunnelOrder == (s1 :> 1) @@ (t1 :> 2)

AllButRemove == Operations \ {"remove"}

Symmetry == Permutations(Req) \cup Permutations(Cand)
=============================================================================

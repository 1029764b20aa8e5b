--------------------------- MODULE MC_GreenBuild ---------------------------
(* Model-checking instance of GreenBuild: a history r1 <- r2 <- r3 with   *)
(* r4 forked from r1, two branches, and one Build per revision.           *)
(*   r1  on A and B        (the base of both branches)                    *)
(*   r2  on A and B        (child of r1)                                  *)
(*   r3  on A only         (child of r2, A ran ahead)                     *)
(*   r4  on B only         (child of r1, forked from r2's line)           *)
EXTENDS GreenBuild, TLC

CONSTANTS b1, b2, b3, b4, r1, r2, r3, r4, A, B

MCBuilds == {b1, b2, b3, b4}
MCRevs == {r1, r2, r3, r4}
MCBranches == {A, B}
MCBuildRev == (b1 :> r1) @@ (b2 :> r2) @@ (b3 :> r3) @@ (b4 :> r4)
MCRevBranches == (r1 :> <<A, B>>) @@ (r2 :> <<A, B>>) @@ (r3 :> <<A>>) @@ (r4 :> <<B>>)
MCAncestry ==
  {<<r, r>> : r \in MCRevs} \cup
  {<<r2, r1>>, <<r3, r2>>, <<r3, r1>>, <<r4, r1>>}
=============================================================================

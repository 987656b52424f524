----------------------------- MODULE MCAssetFlow -----------------------------
(* Instances of AssetFlow for TLC.                                           *)
EXTENDS AssetFlow, TLC

CONSTANTS r1, r2, c1, c2, m1, m2, a1, a2

MCRequests == {r1, r2}
MCCalls == {c1, c2}

\* A call may fail anywhere.
Anywhere == AssetSteps \ {"idle"}

\* A call may fail anywhere but between a checkout that landed and the write
\* that completes the request, and but for a crash between a model and its first
\* skeleton or during the rollback.
NotAfterCheckout ==
    Anywhere \ {"completeStandard", "completeLinked", "makeFirstSkeleton", "rollbackModel"}

Symmetry == Permutations(MCRequests) \cup Permutations(MCCalls)
=============================================================================

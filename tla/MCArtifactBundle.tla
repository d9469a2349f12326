-------------------------- MODULE MCArtifactBundle --------------------------
(* Small instance of ArtifactBundle: three publishers, two artifacts of up   *)
(* to two bytes, a stream of five bytes, two failures.                     *)
EXTENDS ArtifactBundle, TLC

CONSTANTS p1, p2, p3, d1, d2, big, a1, a2, man, side

(* Nothing tells one publisher, document or artifact from another.         *)
Symmetry ==
    Permutations({p1, p2, p3}) \cup Permutations({d1, d2})
        \cup Permutations({a1, a2})

AllNames == {man, side, a1, a2}

SomeCaps == {None, 0, 1, 2}

(* Limits that admit every bundle here, and ones that two artifacts or     *)
(* four bytes exceed.                                                      *)
SomeLimits ==
    {[max_artifacts |-> 2, max_bytes_per_artifact |-> 2,
      max_total_artifact_bytes |-> 4],
     [max_artifacts |-> 2, max_bytes_per_artifact |-> 2,
      max_total_artifact_bytes |-> 3]}
=============================================================================

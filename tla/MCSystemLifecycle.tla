------------------------- MODULE MCSystemLifecycle -------------------------
EXTENDS SystemLifecycleProps, TLC

CONSTANTS s1, s2, s3, r1, r2, r3, none, keep

ThreeSystems == {s1, s2, s3}
TwoSystems == {s1, s2}
OneRequest == {r1}
TwoRequests == {r1, r2}
ThreeRequests == {r1, r2, r3}

\* Everything but token_separated: its PATCH leaves the checks standing.
Kept == {op \in AllOperations : op.kind = "patch" => op.token = Keep}
Used == {op \in Kept : op.kind = "patch" => op.parent # Keep \/ op.publish}

\* Smaller still, for requests that overlap: two classes of parts.
Overlapped ==
  {op \in Used : /\ op.kind = "part" => op.to # "glued"
                 /\ op.kind = "patch" => ~op.publish \/ op.parent = Keep}

\* What a cycle of parents takes: see the README.
Repointing ==
  {op \in Used : /\ op.kind = "patch" /\ op.publish => op.parent = Keep
                 /\ op.kind \in {"create", "patch"}}

Symmetric == Permutations(Systems) \cup Permutations(Requests)
=============================================================================

--------------------------- MODULE MCRemoteBranch ---------------------------
(* Commit shapes for checking RemoteBranch.                                *)
EXTENDS RemoteBranch

\* A tree of depth 3: 6 lists leaf 2 and 5, 5 lists leaf 3 and 4, 4 lists
\* leaf 1.
TreeChild == (6 :> {2, 5}) @@ (5 :> {3, 4}) @@ (4 :> {1})
                @@ (3 :> {}) @@ (2 :> {}) @@ (1 :> {})

\* A chain 3 -> 2 -> 1.
ChainChild == [o \in Obj |-> IF o = 1 THEN {} ELSE {o - 1}]

\* A commit 4 whose child 3 lists 4's other child 2, over leaf 1.
SharedChild == (4 :> {2, 3}) @@ (3 :> {2}) @@ (2 :> {1}) @@ (1 :> {})

\* Commits whose root is a blob: every delivered object is complete at once,
\* so introduce_commit only deep_removes.
LeafChild == [o \in Obj |-> {}]

=============================================================================

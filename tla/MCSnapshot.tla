----------------------------- MODULE MCSnapshot -----------------------------
(***************************************************************************)
(* Object graphs and bounds for checking Snapshot.  Ids are numbers so    *)
(* that their order stands for the ObjectId order std::map iterates in.    *)
(***************************************************************************)
EXTENDS Snapshot

\* A path-shaped commit: each tree lists exactly one child.
ChainChild == [o \in Obj |-> IF o = 1 THEN {} ELSE {o - 1}]

\* A branching tree: 5 lists 4 and 2, 4 lists 3 and 1.
TreeChild == (5 :> {2, 4}) @@ (4 :> {1, 3}) @@ (3 :> {}) @@ (2 :> {}) @@ (1 :> {})

\* Two commits sharing the subtree 2 -> 1: 4 lists 2 and 3 lists 2.
SharedChild == (4 :> {2}) @@ (3 :> {2}) @@ (2 :> {1}) @@ (1 :> {})

\* One commit whose children share a grandchild: 4 lists 3 and 2, both list 1.
DiamondChild == (4 :> {2, 3}) @@ (3 :> {1}) @@ (2 :> {1}) @@ (1 :> {})


=============================================================================

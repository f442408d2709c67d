------------------------------ MODULE BranchGC ------------------------------
(***************************************************************************)
(* What the commit protocol of a branch promises about the object store    *)
(* (spec 4.5 and P3): each user's branch has one root; a commit replaces   *)
(* the root of one user, and afterwards exactly the objects reachable from *)
(* some user's root are stored.  Nothing reachable is ever deleted and     *)
(* nothing unreachable survives a commit.                                  *)
(***************************************************************************)
EXTENDS FiniteSets

CONSTANTS
    Users,  \* users with a root in the Index
    Obj,    \* object ids
    Child,  \* Child[id]: the ids a directory lists
    Trees,  \* directories a commit may publish as a root
    Empty   \* the empty directory every branch starts from

VARIABLES
    roots,  \* roots[u]: the root of u's current commit
    stored  \* the objects whose block is in the store

\* Objects reachable from id, id included (Child is acyclic).
RECURSIVE Reach(_)
Reach(id) == {id} \cup UNION {Reach(c) : c \in Child[id]}

Live(r) == UNION {Reach(r[u]) : u \in Users}

Init ==
    /\ roots = [u \in Users |-> Empty]
    /\ stored = Live(roots)

\* u publishes the directory n as its new root.
Commit(u, n) ==
    /\ n # roots[u]
    /\ roots' = [roots EXCEPT ![u] = n]
    /\ stored' = Live(roots')

Next == \E u \in Users, n \in Trees : Commit(u, n)

Spec == Init /\ [][Next]_<<roots, stored>>

=============================================================================

------------------------------- MODULE RootOp -------------------------------
(***************************************************************************)
(* Branch::RootOp::commit and remove_recursive (src/branch/root_op.h)     *)
(* over the branch Index: a set of edges <<user, child, parent>> and the   *)
(* commit root of each user.  A commit saves the new root directory, adds  *)
(* an edge from it to each of its unique children and a self-edge, then   *)
(* removes the old root recursively: an object is deleted once no edge of *)
(* any user names it.                                                      *)
(*                                                                         *)
(* commit() does not suspend, so it is one step.  The process may crash   *)
(* after any number of its writes (each Index edge and each block store   *)
(* or remove is one durable write); the budget of a step is the number of *)
(* writes done before the crash, and the process then restarts with the   *)
(* RootOp gone.                                                            *)
(***************************************************************************)
EXTENDS RefStore, SequencesExt, TLC

CONSTANTS
    Users,      \* users whose commits the Index holds
    Edits,      \* Edits[u]: the directories u's edits may turn its root into
    Empty,      \* the empty directory every branch starts from
    EntryVersions, \* EntryVersions[n]: the version vectors of directory n's
                   \* (filename, user) entries, in the order of its maps
    Crashes,    \* whether a commit may be cut short by a crash
    MaxWrites   \* at least the number of writes of any commit

ASSUME Edits \in [Users -> SUBSET Obj] /\ Empty \in Obj /\ Child[Empty] = {}

ASSUME Crashes \in BOOLEAN /\ MaxWrites \in Nat

\* A version vector maps every user to a counter; an absent entry is 0.
ZeroVersions == [v \in Users |-> 0]

ASSUME \A n \in Obj : EntryVersions[n] \in Seq([Users -> Nat])

Budgets == IF Crashes THEN 0..MaxWrites ELSE {MaxWrites}

Trees == {Empty} \cup UNION {Edits[u] : u \in Users}

VARIABLES
    edges,  \* the Index parent relation: <<user, child, parent>> triples
    head,       \* head[u]: Index::commit(u).id
    versions    \* versions[u]: Index::commit(u).versions

vars == <<present, rc, fault, edges, head, versions>>

\* Every branch starts at the empty directory, anchored by a self-edge.
Init ==
    /\ present = {Empty}
    /\ rc = [o \in Obj |-> Zero]
    /\ fault = "none"
    /\ edges = {<<u, Empty, Empty>> : u \in Users}
    /\ head = [u \in Users |-> Empty]
    /\ versions = [u \in Users |-> ZeroVersions]

-----------------------------------------------------------------------------
(* Operations on a working record st = [present, rc, fault, edges, head,   *)
(* versions, budget]; each durable write goes through Write of RefStore.   *)

\* Index::insert_object(user, child, parent).
InsertEdge(st, e) ==
    LET s1 == Write(st) IN IF Ok(s1) THEN [s1 EXCEPT !.edges = @ \cup {e}] ELSE s1

\* Index::remove_object(user, child, parent).
RemoveEdge(st, e) ==
    LET s1 == Write(st) IN IF Ok(s1) THEN [s1 EXCEPT !.edges = @ \ {e}] ELSE s1

\* Index::someone_has(id): some edge of any user names id as its child.
SomeoneHas(es, id) == \E e \in es : e[2] = id

\* ObjectStore::remove(id).
RemoveObject(st, id) ==
    LET s1 == Write(st) IN IF Ok(s1) THEN RemoveBlock(s1, id) ELSE s1

\* Directory::save of the new root, after the blocks of its subtree were
\* saved by the operations that built it: the blocks are write-once.
SaveTree(st, n) ==
    LET s1 == Write(st) IN IF Ok(s1) THEN [s1 EXCEPT !.present = @ \cup Subtree(n)] ELSE s1

\* VersionVector::merge: the pointwise maximum.
Merge(a, b) == [v \in Users |-> IF a[v] >= b[v] THEN a[v] ELSE b[v]]

\* Directory::calculate_version_vector_union: merge the vector of every
\* (filename, user) entry into result, in map order.
VersionVectorUnion(n) == FoldLeft(Merge, ZeroVersions, EntryVersions[n])

\* Index::set_version_vector(user, vv).
SetVersionVector(st, u, vv) ==
    LET s1 == Write(st) IN IF Ok(s1) THEN [s1 EXCEPT !.versions[u] = vv] ELSE s1

RECURSIVE RemoveRecursive(_, _, _, _), RemoveChildren(_, _, _, _)

(* Mutations used to validate the properties: the someone_has test       *)
(* dropped; the test made before the edge is removed.                      *)
RemoveRecursiveNoGuard(st, u, obj, parent) ==
    LET s1 == RemoveEdge(st, <<u, obj, parent>>)
    IN  IF ~Ok(s1) THEN s1
        ELSE IF obj \notin s1.present THEN Fail(s1, "load_missing")
        ELSE RemoveObject(RemoveChildren(s1, u, Child[obj], obj), obj)

RemoveRecursiveCheckFirst(st, u, obj, parent) ==
    IF SomeoneHas(st.edges, obj) THEN RemoveEdge(st, <<u, obj, parent>>)
    ELSE LET s1 == RemoveEdge(st, <<u, obj, parent>>)
         IN  IF ~Ok(s1) THEN s1
             ELSE IF obj \notin s1.present THEN Fail(s1, "load_missing")
             ELSE RemoveObject(RemoveChildren(s1, u, Child[obj], obj), obj)

\* RootOp::remove_recursive(obj_id, parent_id) of user u.
RemoveRecursive(st, u, obj, parent) ==
    LET s1 == RemoveEdge(st, <<u, obj, parent>>)
    IN  IF ~Ok(s1) \/ SomeoneHas(s1.edges, obj) THEN s1
        ELSE IF obj \notin s1.present THEN Fail(s1, "load_missing")
        ELSE RemoveObject(RemoveChildren(s1, u, Child[obj], obj), obj)

\* for_each_unique_child of a loaded directory, in id order.
RemoveChildren(st, u, cs, obj) ==
    IF cs = {} THEN st
    ELSE LET c == Min(cs)
         IN  RemoveChildren(RemoveRecursive(st, u, c, obj), u, cs \ {c}, obj)

RECURSIVE InsertChildEdges(_, _, _, _)

\* _tree.for_each_unique_child: an edge from the new root to each child.
InsertChildEdges(st, u, cs, n) ==
    IF cs = {} THEN st
    ELSE LET c == Min(cs)
         IN  InsertChildEdges(InsertEdge(st, <<u, c, n>>), u, cs \ {c}, n)

(* Mutation used to validate the properties: the old root removed before *)
(* the new edges are written (erase-before-write).                         *)
CommitTreeEraseFirst(st, u, n) ==
    LET old == st.head[u]
        s0  == RemoveRecursive(st, u, old, old)
        s1  == InsertChildEdges(SaveTree(s0, n), u, Child[n], n)
        s2  == InsertEdge(s1, <<u, n, n>>)
        s3  == IF Ok(s2) THEN [s2 EXCEPT !.head[u] = n] ELSE s2
    IN  SetVersionVector(s3, u, VersionVectorUnion(n))

\* RootOp::commit of user u whose edited tree is the directory n: save,
\* child edges, the self-edge that makes n u's commit, then the removal of
\* the version vector, then the removal of the old root.
CommitTree(st, u, n) ==
    LET old == st.head[u]
        s1  == InsertChildEdges(SaveTree(st, n), u, Child[n], n)
        s2  == InsertEdge(s1, <<u, n, n>>)
        s3  == IF Ok(s2) THEN [s2 EXCEPT !.head[u] = n] ELSE s2
    IN  RemoveRecursive(SetVersionVector(s3, u, VersionVectorUnion(n)), u, old, old)

-----------------------------------------------------------------------------
(* Actions.                                                                *)

\* A RootOp of user u is opened on its current commit (the constructor
\* loads the root block), the tree is edited into n, and commit() runs
\* with budget k.  commit() returns false when n is the old root.  A crash
\* is followed by a restart with whatever had been written.
Commit(u, n, k) ==
    /\ fault = "none"
    /\ head[u] \in present
    /\ n # head[u]
    /\ LET st == CommitTree([present |-> present, rc |-> rc, fault |-> fault,
                             edges |-> edges, head |-> head,
                             versions |-> versions, budget |-> k], u, n)
       IN  /\ present' = st.present
           /\ edges' = st.edges
           /\ head' = st.head
           /\ versions' = st.versions
           /\ fault' = IF st.fault = "crash" THEN "none" ELSE st.fault
           /\ UNCHANGED rc

Next == \E u \in Users : \E n \in Edits[u], k \in Budgets : Commit(u, n, k)

Spec == Init /\ [][Next]_vars

-----------------------------------------------------------------------------
(* Properties.                                                             *)

GC == INSTANCE BranchGC WITH roots <- head, stored <- present

\* The commit protocol implements the abstract one: after every commit the
\* store holds exactly the objects reachable from some user's root (spec
\* P3), through write-before-erase and the someone_has test of
\* remove_recursive.
GCSpec == GC!Spec

\* No object reachable from any user's commit root is ever deleted, whatever
\* the other users commit and wherever a commit is cut short by a crash.
LiveStored == GC!Live(head) \subseteq present

\* Index closure (spec I5): the parent of every edge is stored, and is
\* the user's root or itself the child of an edge of that user.
IndexClosure ==
    \A e \in edges :
        /\ e[3] \in present
        /\ e[3] = head[e[1]] \/ \E f \in edges : f[1] = e[1] /\ f[2] = e[3]

=============================================================================

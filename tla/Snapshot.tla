------------------------------ MODULE Snapshot ------------------------------
(***************************************************************************)
(* Snapshot (src/snapshot.cpp): the per-commit view that pins the objects  *)
(* of a commit while they arrive from a peer.  Each slot s of Snap holds   *)
(* at most one Snapshot over its life: created for a commit root, fed      *)
(* objects, possibly cloned into another slot, and finally forgotten      *)
(* (destructor or move-assignment).  All snapshots share the RefStore.     *)
(*                                                                         *)
(* insert_object, notify_parent_that_child_completed, forget and clone do  *)
(* not suspend, so each is one atomic step, the completion cascade and    *)
(* every refcount write it makes included.                                 *)
(***************************************************************************)
EXTENDS RefStore, Functions, TLC

CONSTANTS
    Snap,   \* snapshot slots
    Roots   \* commit roots a snapshot may be created for

ASSUME Roots \subseteq Obj /\ 0 \notin Obj

VARIABLES
    status, \* status[s] \in {"unborn", "live", "dropped"}
    root,   \* root[s]: _commit.root_id (0 before creation)
    nodes   \* nodes[s]: _nodes, a function from a set of ids to Node

snapVars == <<status, root, nodes>>
vars == <<present, rc, fault, status, root, nodes>>

Types == {"Missing", "Incomplete", "Complete"}

\* Snapshot::Node with its Children{missing, incomplete, complete}.
Node == [type : Types, parents : SUBSET Obj,
         missing : SUBSET Obj, incomplete : SUBSET Obj, complete : SUBSET Obj]

MissingNode == [type |-> "Missing", parents |-> {},
                missing |-> {}, incomplete |-> {}, complete |-> {}]

NoNodes == [o \in {} |-> MissingNode]

\* Node::is_complete
IsComplete(n) == n.missing = {} /\ n.incomplete = {}

Init ==
    /\ StoreInit
    /\ status = [s \in Snap |-> "unborn"]
    /\ root = [s \in Snap |-> 0]
    /\ nodes = [s \in Snap |-> NoNodes]

-----------------------------------------------------------------------------
(* The operations, on a working record st whose nodes field is the        *)
(* _nodes map of the snapshot the step belongs to.                        *)

(* Mutation used to validate the properties: a child counted complete as  *)
(* soon as its block exists, as RemoteBranch::filter_missing does.         *)
SortChildrenByPresence(st, ch) ==
    [missing    |-> {c \in ch : c \notin st.present},
     incomplete |-> {},
     complete   |-> {c \in ch : c \in st.present}]

\* Snapshot::sort_children: classify by presence and recursive count.
SortChildren(st, ch) ==
    [missing    |-> {c \in ch : c \notin st.present},
     incomplete |-> {c \in ch : c \in st.present /\ st.rc[c].recursive = 0},
     complete   |-> {c \in ch : c \in st.present /\ st.rc[c].recursive > 0}]

RECURSIVE NotifyParentThatChildCompleted(_, _, _), NotifyEach(_, _, _)

\* Snapshot::notify_parent_that_child_completed
NotifyParentThatChildCompleted(st, parentId, child) ==
    IF ~Ok(st) THEN st
    ELSE IF parentId \notin DOMAIN st.nodes THEN Fail(st, "missing_parent")
    ELSE
    LET p   == st.nodes[parentId]
        cnt == Cardinality({child} \cap p.missing)
                 + Cardinality({child} \cap p.incomplete)
        p1  == [p EXCEPT !.missing    = @ \ {child},
                         !.incomplete = @ \ {child},
                         !.complete   = @ \cup {child}]
        s1  == IncRecursive(DecDirect(st, parentId), parentId)
    IN
    IF cnt # 1 THEN Fail(st, "assert_cnt")
    ELSE IF ~IsComplete(p1) THEN [st EXCEPT !.nodes[parentId] = p1]
    ELSE IF ~Ok(s1) THEN s1
    ELSE IF p.type # "Incomplete" THEN Fail(s1, "assert_type")
    ELSE LET s2 == [s1 EXCEPT !.nodes[parentId] = [p1 EXCEPT !.type = "Complete"]]
             s3 == NotifyEach(s2, p.parents, parentId)
         IN  IF Ok(s3) THEN [s3 EXCEPT !.nodes = Restrict(@, DOMAIN @ \ {child})]
             ELSE s3

\* The loops over a copy of a node's parents, in id order.
NotifyEach(st, ps, child) ==
    IF ps = {} THEN st
    ELSE LET g == Min(ps)
         IN  NotifyEach(NotifyParentThatChildCompleted(st, g, child), ps \ {g}, child)

\* _nodes.insert({child, Missing}) then .parents.insert(id), for each child.
AddParent(ns, ch, id) ==
    [c \in DOMAIN ns \cup ch |->
        IF c \in ch
        THEN [(IF c \in DOMAIN ns THEN ns[c] ELSE MissingNode)
                 EXCEPT !.parents = @ \cup {id}]
        ELSE ns[c]]

\* Snapshot::insert_object(id, children), children being Child[id].
InsertObject(st, id) ==
    IF id \notin DOMAIN st.nodes \/ st.nodes[id].type # "Missing" THEN st
    ELSE
    LET ch  == Child[id]
        srt == SortChildren(st, ch)
        n1  == [st.nodes[id] EXCEPT
                  !.type       = IF ch = {} THEN "Complete" ELSE "Incomplete",
                  !.missing    = srt.missing,
                  !.incomplete = srt.incomplete,
                  !.complete   = srt.complete]
        s1  == [st EXCEPT !.nodes = AddParent([@ EXCEPT ![id] = n1], ch, id)]
    IN  IF IsComplete(n1)
        THEN NotifyEach(IncRecursive(s1, id), n1.parents, id)
        ELSE IncDirect(s1, id)

RECURSIVE ForgetEach(_, _, _)

\* Snapshot::forget: release each node's pin, in id order.
ForgetEach(st, ns, ids) ==
    IF ids = {} THEN st
    ELSE LET o  == Min(ids)
             t  == ns[o].type
             s1 == IF t = "Complete" THEN DeepRemove(st, o)
                   ELSE IF t = "Incomplete" THEN FlatRemove(st, o)
                   ELSE st
         IN  ForgetEach(s1, ns, ids \ {o})

RECURSIVE ForgetMembers(_, _)

\* The destructor of a SnapshotGroup: forget() of every member snapshot, in
\* the order of its user map.
ForgetMembers(st, ss) ==
    IF ss = {} THEN st
    ELSE LET s == CHOOSE x \in ss : TRUE
         IN  ForgetMembers(ForgetEach(st, nodes[s], DOMAIN nodes[s]), ss \ {s})

RECURSIVE ClonePins(_, _, _)

\* The refcount increments of Snapshot::clone, one per copied node.
ClonePins(st, ns, ids) ==
    IF ids = {} THEN st
    ELSE LET o  == Min(ids)
             t  == ns[o].type
             s1 == IF t = "Complete" THEN IncRecursive(st, o)
                   ELSE IF t = "Incomplete" THEN IncDirect(st, o)
                   ELSE st
         IN  ClonePins(s1, ns, ids \ {o})

-----------------------------------------------------------------------------
(* Actions.                                                                *)

Work(s) == [present |-> present, rc |-> rc, fault |-> fault, nodes |-> nodes[s]]

Commit(s, st) ==
    /\ present' = st.present
    /\ rc' = st.rc
    /\ fault' = st.fault
    /\ nodes' = [nodes EXCEPT ![s] = st.nodes]

\* Snapshot::create: one Missing node for the commit root.
Create(s, r) ==
    /\ fault = "none"
    /\ status[s] = "unborn"
    /\ status' = [status EXCEPT ![s] = "live"]
    /\ root' = [root EXCEPT ![s] = r]
    /\ nodes' = [nodes EXCEPT ![s] = r :> MissingNode]
    /\ UNCHANGED storeVars

\* An object arrives: the receiver stores its block, then calls
\* insert_object, which ignores ids that are not Missing nodes.  The
\* resulting record is bound once, so that it is computed once per step.
Receive(s, id) ==
    /\ fault = "none"
    /\ status[s] = "live"
    /\ \E st \in {InsertObject(StoreBlock(Work(s), id), id)} : Commit(s, st)
    /\ UNCHANGED <<status, root>>

\* Destructor or move-assignment: forget every node.
Forget(s) ==
    /\ fault = "none"
    /\ status[s] = "live"
    /\ LET st == ForgetEach(Work(s), nodes[s], DOMAIN nodes[s])
       IN  /\ Commit(s, [st EXCEPT !.nodes = NoNodes])
    /\ status' = [status EXCEPT ![s] = "dropped"]
    /\ UNCHANGED root

\* t = std::move(s): the move constructor when t is unborn, the
\* move-assignment (which first forgets t's own nodes) when t is live.
\* The moved-from s keeps an empty _nodes until its destructor runs; for
\* s = t the assignment forgets s and then takes its own, now empty, map.
Move(s, t) ==
    /\ fault = "none"
    /\ status[s] = "live"
    /\ status[t] \in {"unborn", "live"}
    /\ LET st == IF status[t] = "live"
                 THEN ForgetEach(Work(t), nodes[t], DOMAIN nodes[t])
                 ELSE Work(t)
       IN  /\ present' = st.present
           /\ rc' = st.rc
           /\ fault' = st.fault
    /\ nodes' = [nodes EXCEPT ![t] = IF s = t THEN NoNodes ELSE nodes[s],
                              ![s] = NoNodes]
    /\ root' = [root EXCEPT ![t] = root[s]]
    /\ status' = [status EXCEPT ![t] = "live"]

\* A SnapshotGroup whose members are the live snapshots is destroyed.
DropGroup ==
    /\ fault = "none"
    /\ \E s \in Snap : status[s] = "live"
    /\ LET members == {s \in Snap : status[s] = "live"}
           st == ForgetMembers(Work(CHOOSE s \in members : TRUE), members)
       IN  /\ present' = st.present
           /\ rc' = st.rc
           /\ fault' = st.fault
           /\ nodes' = [s \in Snap |-> IF s \in members THEN NoNodes ELSE nodes[s]]
           /\ status' = [s \in Snap |-> IF s \in members THEN "dropped" ELSE status[s]]
    /\ UNCHANGED root

\* Snapshot::clone into slot t: a fresh snapshot (its own Missing root),
\* then _nodes.insert of every node, then one pin per copied node.
Clone(s, t) ==
    /\ fault = "none"
    /\ status[s] = "live"
    /\ status[t] = "unborn"
    /\ LET st == ClonePins(Work(s), nodes[s], DOMAIN nodes[s])
       IN  /\ present' = st.present
           /\ rc' = st.rc
           /\ fault' = st.fault
    /\ nodes' = [nodes EXCEPT ![t] = (root[s] :> MissingNode) @@ nodes[s]]
    /\ status' = [status EXCEPT ![t] = "live"]
    /\ root' = [root EXCEPT ![t] = root[s]]

Next ==
    \/ \E s \in Snap, r \in Roots : Create(s, r)
    \/ \E s \in Snap, id \in Obj : Receive(s, id)
    \/ \E s \in Snap : Forget(s)
    \/ \E s, t \in Snap : Clone(s, t)
    \/ \E s, t \in Snap : Move(s, t)
    \/ DropGroup

Spec == Init /\ [][Next]_vars

-----------------------------------------------------------------------------
(* Properties.                                                             *)

\* A recursive pin is only taken, and only kept, on an object whose
\* children are stored and recursively pinned too (spec I4): the
\* completion test of insert_object/notify and the cascade of forget.
PinnedSubtreeStored ==
    \A o \in Obj :
        rc[o].recursive > 0 =>
            /\ o \in present
            /\ \A c \in Child[o] : c \in present /\ rc[c].recursive > 0

\* No step of insert_object, notify, forget or clone stops the process on
\* an assertion, a refcount underflow or a failed lookup or load.
NoFault == fault = "none"

=============================================================================

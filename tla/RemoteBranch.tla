---------------------------- MODULE RemoteBranch ----------------------------
(***************************************************************************)
(* RemoteBranch (src/remote_branch.cpp): the receiver side of a commit     *)
(* coming from a peer.  It tracks which objects of the commit are still   *)
(* missing (id -> the parents waiting for it), which are stored but wait   *)
(* for children (id -> those children) and which are complete, and pins  *)
(* every object it stores in the shared RefStore.  introduce_commit drops  *)
(* the pins of the superseded commit and starts over from the new root.   *)
(*                                                                         *)
(* insert_object and introduce_commit contain no co_await before their    *)
(* co_return, so each is one atomic step, its refcount writes included.    *)
(* The peer only sends objects that were requested: an id that is not in  *)
(* missing makes _missing_objects.at throw before any write, which is a   *)
(* step that changes nothing.                                              *)
(*                                                                         *)
(* Both handlers end with store_self, so between steps the archive equals  *)
(* the maps in memory.  A crash cuts a step short after some of its        *)
(* durable writes (Write of RefStore); the store keeps them, and the       *)
(* restarted process reloads the maps of the last store_self.              *)
(***************************************************************************)
EXTENDS RefStore, Functions, TLC

CONSTANTS
    Roots,      \* commit roots the peer may announce
    Crashes,    \* whether a step may be cut short by a crash
    MaxWrites   \* at least the number of durable writes of any step

ASSUME Roots \subseteq Obj /\ Crashes \in BOOLEAN /\ MaxWrites \in Nat

Budgets == IF Crashes THEN 0..MaxWrites ELSE {MaxWrites}

VARIABLES
    commit,     \* _commit.root_id
    missing,    \* _missing_objects: id -> set of parents
    incomplete, \* _incomplete_objects: id -> set of children still awaited
    complete    \* _complete_objects

branchVars == <<commit, missing, incomplete, complete>>
vars == <<present, rc, fault, commit, missing, incomplete, complete>>

NoEntries == [o \in {} |-> {}]

TypeOK ==
    /\ StoreTypeOK
    /\ commit \in Roots
    /\ DOMAIN missing \subseteq Obj /\ \A o \in DOMAIN missing : missing[o] \subseteq Obj
    /\ DOMAIN incomplete \subseteq Obj /\ \A o \in DOMAIN incomplete : incomplete[o] \subseteq Obj
    /\ complete \subseteq Obj

\* RemoteBranch(Commit, ...): _missing_objects = { root -> {} }.
Init ==
    /\ StoreInit
    /\ commit \in Roots
    /\ missing = commit :> {}
    /\ incomplete = NoEntries
    /\ complete = {}

-----------------------------------------------------------------------------
(* Operations on a working record st = [present, rc, fault, commit,       *)
(* missing, incomplete, complete, budget].                                 *)

Drop(f, id) == Restrict(f, DOMAIN f \ {id})

RECURSIVE CompleteParents(_, _, _)

\* The loop over the parents of a leaf in insert_object: erase id from the
\* parent's awaited children; a parent left with none moves to complete and
\* id leaves complete.  _incomplete_objects.at throws for an unknown parent.
CompleteParents(st, ps, id) ==
    IF ps = {} \/ ~Ok(st) THEN st
    ELSE LET p    == Min(ps)
             left == st.incomplete[p] \ {id}
         IN  IF p \notin DOMAIN st.incomplete THEN Fail(st, "unexpected")
             ELSE IF left = {}
             THEN CompleteParents([st EXCEPT !.incomplete = Drop(@, p),
                                             !.complete = (@ \cup {p}) \ {id}],
                                  ps \ {p}, id)
             ELSE CompleteParents([st EXCEPT !.incomplete[p] = left], ps \ {p}, id)

\* RemoteBranch::filter_missing: drop the children whose block exists.
FilterMissing(st, ch) == {c \in ch : c \notin st.present}

(* Mutation used to validate the properties: the children are never     *)
(* registered as missing, so nobody asks for them.                        *)
AddMissingDropped(m, ch, id) == m

\* _missing_objects[child].insert(id) for every remaining child.
AddMissing(m, ch, id) ==
    [c \in DOMAIN m \cup ch |->
        (IF c \in DOMAIN m THEN m[c] ELSE {}) \cup (IF c \in ch THEN {id} ELSE {})]

\* _flat_store: object::io::store, then refcount::increment_recursive.
FlatStore(st, id) == IncRecursive(Write(StoreBlock(Write(st), id)), id)

\* RemoteBranch::store_self: archive the maps; from here a restart
\* reloads the state of this step.
StoreSelf(st) == Write(st)

\* RemoteBranch::insert_object(obj, children), children being Child[id].
InsertObject(st, id) ==
    LET parents == st.missing[id]
        s0 == [st EXCEPT !.missing = Drop(@, id)]
        ch == FilterMissing(s0, Child[id])
        s1 == IF Child[id] = {}
              THEN CompleteParents([s0 EXCEPT !.complete = @ \cup {id}], parents, id)
              ELSE IF ch = {}
              THEN [s0 EXCEPT !.complete = @ \cup {id}]
              ELSE [s0 EXCEPT !.missing = AddMissing(@, ch, id),
                              !.incomplete = @ @@ (id :> ch)]
    IN  StoreSelf(FlatStore(s1, id))

RECURSIVE FlatRemoveEach(_, _)

\* The flat_remove loop of introduce_commit, in id order.
FlatRemoveEach(st, ids) ==
    IF ids = {} THEN st
    ELSE LET o == Min(ids) IN FlatRemoveEach(FlatRemove(Write(st), o), ids \ {o})

RECURSIVE DeepRemoveEachDurable(_, _)

\* The deep_remove loop of introduce_commit, in id order; each deep_remove
\* is one journaled refcount update (spec 4.3).
DeepRemoveEachDurable(st, ids) ==
    IF ids = {} THEN st
    ELSE LET o == Min(ids) IN DeepRemoveEachDurable(DeepRemove(Write(st), o), ids \ {o})

\* RemoteBranch::introduce_commit: take the new commit, clear the maps,
\* flat_remove every incomplete object, deep_remove every complete one,
\* reseed the root and store_self.
IntroduceCommit(st, r) ==
    LET s0 == [st EXCEPT !.commit = r, !.missing = NoEntries,
                         !.incomplete = NoEntries, !.complete = {}]
        s1 == DeepRemoveEachDurable(FlatRemoveEach(s0, DOMAIN st.incomplete),
                                    st.complete)
    IN  IF Ok(s1) THEN StoreSelf([s1 EXCEPT !.missing = r :> {}]) ELSE s1

-----------------------------------------------------------------------------
(* Actions.                                                                *)

Work(k) == [present |-> present, rc |-> rc, fault |-> fault, commit |-> commit,
            missing |-> missing, incomplete |-> incomplete,
            complete |-> complete, budget |-> k]

\* The state a step leaves.  After a crash the process restarts and
\* RemoteBranch::load reads back the archive of the last store_self, which
\* is the maps before the step; the store keeps what was written.
Apply(st) ==
    /\ present' = st.present
    /\ rc' = st.rc
    /\ IF st.fault = "crash"
       THEN /\ fault' = "none"
            /\ UNCHANGED branchVars
       ELSE /\ fault' = st.fault
            /\ commit' = st.commit
            /\ missing' = st.missing
            /\ incomplete' = st.incomplete
            /\ complete' = st.complete

\* The peer delivers a requested object (insert_blob / insert_tree); the
\* process may crash after k durable writes of it.
Receive(id, k) ==
    /\ fault = "none"
    /\ id \in DOMAIN missing
    /\ Apply(InsertObject(Work(k), id))

\* The peer announces a new commit.
Introduce(r, k) ==
    /\ fault = "none"
    /\ Apply(IntroduceCommit(Work(k), r))

Next ==
    \/ \E id \in Obj, k \in Budgets : Receive(id, k)
    \/ \E r \in Roots, k \in Budgets : Introduce(r, k)

\* The peer answers every request: weak fairness on each delivery.
Fairness == \A id \in Obj : WF_vars(Receive(id, MaxWrites))

Spec == Init /\ [][Next]_vars /\ Fairness

-----------------------------------------------------------------------------
(* Properties.                                                             *)

\* RemoteBranch::sanity_check: every incomplete object is stored and every
\* complete object has its whole subtree stored (object::io::is_complete).
\* Completion is decided by the leaf loop of insert_object and by
\* filter_missing, which counts a child as done when its block exists.
SanityCheck ==
    /\ \A o \in DOMAIN incomplete : o \in present
    /\ \A o \in complete : Subtree(o) \subseteq present

\* No insert_object or introduce_commit stops the process on a refcount
\* underflow or a failed load: the pins introduce_commit releases
\* (flat for incomplete, deep for complete) are the ones _flat_store took.
NoFault == fault = "none"

\* While its commit stays current and requested objects keep arriving, the
\* commit root eventually becomes complete (spec 4.6 step 4, the completion
\* cascade).
RootCompletes ==
    \A r \in Roots :
        commit = r ~> (r \in complete \/ commit # r \/ fault # "none")

\* While its commit stays current and requested objects keep arriving,
\* every object of the commit is eventually stored: insert_object asks
\* for each child whose block is absent (filter_missing and the
\* _missing_objects[child] registration), even where the completion
\* cascade stops short of the root.
CommitStored ==
    \A r \in Roots :
        commit = r ~> (Subtree(r) \subseteq present \/ commit # r \/ fault # "none")

=============================================================================

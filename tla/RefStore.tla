------------------------------ MODULE RefStore ------------------------------
(***************************************************************************)
(* The content-addressed object store with its per-object reference       *)
(* counts (spec section 4.3; refcount.h/.cpp and object/io.h are not part  *)
(* of the extracted source, so every operator here is modelled from the    *)
(* spec).  An object is named by its id; a tree object's children are      *)
(* fixed by its content, so they are the constant Child[id].               *)
(*                                                                         *)
(* The store is shared by every Snapshot and RemoteBranch.  Operations are *)
(* written as functions from a record st (fields present, rc, fault, and   *)
(* whatever the caller adds) to the updated record, so that a caller can   *)
(* chain several of them inside one atomic step of its own.                *)
(*                                                                         *)
(* A decrement below zero is RefcountUnderflow (spec section 7: fatal) and *)
(* loading an absent block fails; both end the process, which the model   *)
(* records in fault.  Once fault is set every later operation of the same  *)
(* step is skipped, so the state is what had been written when the        *)
(* process stopped.                                                        *)
(***************************************************************************)
EXTENDS Naturals, FiniteSets, FiniteSetsExt

CONSTANTS
    Obj,        \* object ids; their order as numbers stands for ObjectId order
    Child       \* Child[id]: the set of ids a tree object lists (Tree::children)

G == INSTANCE Graphs

ObjGraph == [node |-> Obj, edge |-> UNION {{<<p, c>> : c \in Child[p]} : p \in Obj}]

ASSUME Obj \subseteq Nat /\ Child \in [Obj -> SUBSET Obj] /\ G!IsDag(ObjGraph)

VARIABLES
    present,    \* ids whose block is in the object directory
    rc,         \* rc[id]: the refcount record (direct, recursive) of id
    fault       \* "none", or why the process stopped

storeVars == <<present, rc, fault>>

Zero == [direct |-> 0, recursive |-> 0]

\* Subtree(id): id and every object reachable from it through Child.
RECURSIVE Subtree(_)
Subtree(id) == {id} \cup UNION {Subtree(c) : c \in Child[id]}

Faults == {"none", "underflow", "load_missing", "assert_cnt",
           "missing_parent", "assert_type", "unexpected", "crash"}

StoreTypeOK ==
    /\ present \subseteq Obj
    /\ rc \in [Obj -> [direct : Nat, recursive : Nat]]
    /\ fault \in Faults

StoreInit ==
    /\ present = {}
    /\ rc = [o \in Obj |-> Zero]
    /\ fault = "none"

Ok(st) == st.fault = "none"

Fail(st, why) == IF Ok(st) THEN [st EXCEPT !.fault = why] ELSE st

\* object::io::store: writes the block if absent (write-once, idempotent).
StoreBlock(st, id) ==
    IF Ok(st) THEN [st EXCEPT !.present = @ \cup {id}] ELSE st

RemoveBlock(st, id) ==
    IF Ok(st) THEN [st EXCEPT !.present = @ \ {id}] ELSE st

\* Rc::increment_direct_count / increment_recursive_count: one record each.
IncDirect(st, id) ==
    IF Ok(st) THEN [st EXCEPT !.rc[id].direct = @ + 1] ELSE st

IncRecursive(st, id) ==
    IF Ok(st) THEN [st EXCEPT !.rc[id].recursive = @ + 1] ELSE st

(* The crash model of the components that persist their state.  A step   *)
(* carries a budget: the number of durable writes (a block, a refcount     *)
(* record, an Index edge, an archive) it gets to make before the process   *)
(* dies.  A write with no budget left is the crash, recorded as fault      *)
(* "crash", after which nothing more of the step is written.  The caller   *)
(* then restarts the process from what is on disk.                         *)
Write(st) ==
    IF ~Ok(st) THEN st
    ELSE IF st.budget = 0 THEN Fail(st, "crash")
    ELSE [st EXCEPT !.budget = @ - 1]

(* Mutation used to validate the properties: no underflow check.         *)
DecDirectUnchecked(st, id) ==
    IF ~Ok(st) THEN st ELSE [st EXCEPT !.rc[id].direct = @ - 1]

DecDirect(st, id) ==
    IF ~Ok(st) THEN st
    ELSE IF st.rc[id].direct = 0 THEN Fail(st, "underflow")
    ELSE [st EXCEPT !.rc[id].direct = @ - 1]

DecRecursiveUnchecked(st, id) ==
    IF ~Ok(st) THEN st ELSE [st EXCEPT !.rc[id].recursive = @ - 1]

DecRecursive(st, id) ==
    IF ~Ok(st) THEN st
    ELSE IF st.rc[id].recursive = 0 THEN Fail(st, "underflow")
    ELSE [st EXCEPT !.rc[id].recursive = @ - 1]

BothZero(st, id) == st.rc[id] = Zero

\* refcount::flat_remove: drop one direct pin; delete the block when both
\* counts are zero.
FlatRemove(st, id) ==
    LET s1 == DecDirect(st, id)
    IN  IF Ok(s1) /\ BothZero(s1, id) THEN RemoveBlock(s1, id) ELSE s1

\* refcount::deep_remove: drop one recursive pin; when both counts reach
\* zero, load the block, deep_remove every child (in id order), then
\* delete the block.
RECURSIVE DeepRemove(_, _), DeepRemoveEach(_, _)

DeepRemove(st, id) ==
    LET s1 == DecRecursive(st, id)
    IN  IF ~Ok(s1) \/ ~BothZero(s1, id) THEN s1
        ELSE IF id \notin s1.present THEN Fail(s1, "load_missing")
        ELSE RemoveBlock(DeepRemoveEach(s1, Child[id]), id)

DeepRemoveEach(st, ids) ==
    IF ids = {} THEN st
    ELSE LET c == Min(ids) IN DeepRemoveEach(DeepRemove(st, c), ids \ {c})

=============================================================================

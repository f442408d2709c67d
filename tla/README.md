# TLA+ models of the ouisync object store, Snapshot, RemoteBranch and RootOp

This directory holds TLA+ models of the C++ sources under `src/`, the
configurations that check them with TLC, and `PROJECT.json`, which records
the component list, the runs, the mutants, which source lines each
definition models, the findings and the hazards.

## The system

Ouisync stores a file system as content-addressed objects. A *tree*
(`object/tree.h`, `directory.cpp`) maps names to child ids. A blob is a
leaf. Every object has a refcount record with two counts:

- `direct` pins the object alone;
- `recursive` pins the object together with its whole subtree.

`refcount::flat_remove` drops a direct pin. `refcount::deep_remove` drops a
recursive pin. When both counts are zero, deep_remove deletes the block and
releases one recursive pin of every child.

Three parts write to the shared store.

| Part | Source | What it does |
|---|---|---|
| Branch / RootOp | `branch/root_op.h` | The local user's commit. It saves a new tree, records Index edges, and removes the old commit's objects that no edge names. |
| RemoteBranch | `remote_branch.cpp` | The receiver of a peer's commit. It keeps `missing` (id → waiting parents), `incomplete` (id → awaited children) and `complete`. It pins every object it stores. `introduce_commit` releases those pins and restarts from a new root. |
| Snapshot | `snapshot.cpp` | A per-commit view. Its nodes go Missing → Incomplete → Complete. An Incomplete node holds a direct pin and a Complete node a recursive one. When its last child completes, a parent is promoted by `notify_parent_that_child_completed`, and the promotion continues up to the root. `forget` (the destructor or move-assignment) releases the pins. `clone` copies the nodes and pins each one again. |

The correctness conditions are:

- every pin is eventually released, exactly once;
- no block is deleted while a recursive pin covers it (spec I4);
- a snapshot whose objects arrive becomes complete (P4);
- nothing reaches a fatal RefcountUnderflow or assertion.

## Modules

| Module | Models | State | Actions / operators |
|---|---|---|---|
| `RefStore` | The object store and `Rc` counts (spec 4.3; `refcount.cpp` and `object/io.h` are not in `src/`, so most operators are spec_modelled), and `Write`, the durable write of the crash model | `present`, `rc`, `fault` | `StoreBlock`, `IncDirect`/`IncRecursive`, `DecDirect`/`DecRecursive`, `FlatRemove`, `DeepRemove`, `Write` |
| `Snapshot` | `snapshot.cpp`; several slots `Snap` share one store | `status`, `root`, `nodes` | `Create`, `Receive` (insert_object with sort_children and the notify cascade), `Forget` (destructor), `Clone`, `Move` (move constructor and move-assignment), `DropGroup` (the SnapshotGroup destructor) |
| `RemoteBranch` | `remote_branch.cpp` | `commit`, `missing`, `incomplete`, `complete` | `Receive` (insert_object: leaf path, tree path, filter_missing, `_flat_store`, `store_self`), `Introduce` (introduce_commit), each with crashes and the restart through `RemoteBranch::load` |
| `RootOp` | `branch/root_op.h` with the Index edge relation (spec 4.4; `index.cpp` is not in `src/`, so the edge operators are spec_modelled) | `present` (of `RefStore`), `edges` (`<<user, child, parent>>`), `head` and `versions` (each user's commit root and version vector) | `Commit` (the constructor's load of the root, then `commit()`: save, child edges, self-edge, `set_version_vector` of `calculate_version_vector_union`, `remove_recursive` of the old root), with crashes |
| `BranchGC` | The promise of spec 4.5 and P3: after a commit the store holds exactly what some user's root reaches | `roots`, `stored` | `Commit(u, n)` |
| `MCSnapshot`, `MCRemoteBranch`, `MCRootOp` | Commit shapes (`Child` functions) and the directories each user may commit, for TLC | | |

How the models are written:

- **Store operations are pure operators.** Each takes a record `st` and
  returns the updated record. An action can then chain every refcount write
  of one handler into a single atomic step.
- **The handlers are atomic.** None of them suspends: `insert_object`,
  `notify`, `forget`, `clone` and `introduce_commit` have no `co_await`
  before their return.
- **Loops over `std::set`/`std::map` run in ascending id order.** The model
  iterates with `Min`, because id order stands for ObjectId order.
- **Fatal errors set `fault`.** RefcountUnderflow, a failed `ouisync_assert`,
  a throwing `.at()` in `forget` (which calls `exit(1)`) and a load of a
  deleted block all end the process. The model records this in `fault`.
  Once `fault` is set no action is enabled, so the cfgs say
  `CHECK_DEADLOCK FALSE`. The process really stops there. A snapshot slot
  that has been forgotten also stops.
- **A moved-from snapshot stays live with no nodes.** `t = std::move(s)`
  forgets `t`'s own nodes (when `t` was live) and takes `s`'s. `s` keeps an
  empty map until its destructor runs.

### RemoteBranch and crashes

Both handlers of RemoteBranch end with `store_self`, so between steps the
archive equals the maps in memory. The durable writes of a step are:
- `io::store` and `increment_recursive` of `_flat_store`;
- each `flat_remove`/`deep_remove` of `introduce_commit`, one journaled
  refcount update each (spec 4.3);
- `store_self`.

A crash after some of them keeps those writes in the store. The restarted
process reloads the maps of the previous `store_self`
(`RemoteBranch::load`), so the maps are those from before the step.

### RootOp, the Index and crashes

`RootOp` keeps the Index as a set of edges `<<user, child, parent>>` and
the root of each user's commit. A RootOp is opened on the user's current
commit, the directory is edited by the nested DirectoryOps (not in
`src/`), and `commit()` runs. The edits are abstracted to `Edits[u]`, the
directories u's tree may have become; `commit()` returns early when the
new id equals the old one (`root_op.h:31`). `commit()` has no suspension
point, so the whole of it is one step, `remove_recursive` included.

The crash model (`Write` in `RefStore`, shared with RemoteBranch): every
durable write (an Index edge inserted or removed, the version vector set, a
block saved or removed) spends one unit of the step's budget `k`. A write
with no budget left is the crash: nothing more of the step is written, the
process restarts with the writes already made, and the RootOp is gone.
`Crashes = FALSE` gives every commit enough budget to finish.

Each directory's entries carry version vectors (`EntryVersions`, data of
the configuration, because `increment()` is called by the DirectoryOps).
`VersionVectorUnion` is `calculate_version_vector_union`: a left fold of
`VersionVector::merge` over the entries in map order. No property is
stated on it: the fold of a pointwise maximum equals the pointwise maximum
in any order, and without crashes the vector is written in the same step
as the commit's root.

`RootOp` is shown to implement `BranchGC`:
`GC == INSTANCE BranchGC WITH roots <- head, stored <- present`, and the
run checks `GC!Spec` as a temporal property.

## Runs

Passing runs:

| Run | Properties | What it shows |
|---|---|---|
| `snapshot_clone` | PinnedSubtreeStored | Two snapshots of a chain root, created, fed, cloned, moved, forgotten and dropped as a group in any order, never leave a recursive pin over a deleted block (spec I4). |
| `rb_tree` | TypeOK, CommitStored | On a three-level tree, over any sequence of deliveries and new commits, no count goes negative; and while a commit stays current, every one of its objects is eventually requested and stored, even though the completion cascade stops short of the root (`rb_chain_liveness`). |
| `gc_own_trees` | IndexClosure, GCSpec | Three users whose directories share blobs but never a directory: RootOp refines BranchGC (exactly the reachable objects stay stored), and the Index stays closed (I5). |
| `gc_crash` | LiveStored | Two users committing the same directories, with a crash after any write: no object a user's root reaches is ever deleted. |

Violation runs. Each checks one property; its finding is in `PROJECT.json`.

| Run | Property | What TLC finds |
|---|---|---|
| `snapshot_tree_forget` | NoFault | Only the last completing child is erased (`snapshot.cpp:141`). Earlier siblings are released twice, which underflows. |
| `snapshot_shared_subtree` | PinnedSubtreeStored | `sort_children` trusts another snapshot's pin (`:176`). That snapshot's forget deletes the subtree. |
| `snapshot_diamond` | NoFault | On a diamond (4 -> {2, 3} -> 1), deliveries 4, 2, 1, 3 complete 3 at once; 3 notifies 4, which erases 3, but node 1 was already re-added as Missing with parent 3 (`snapshot.cpp:202-205`). A second delivery of 1 pins it again (recursive count 2) and its notify calls `_nodes.at(3)`, which throws. |
| `rb_introduce` | NoFault | `_flat_store` pins recursively, but `introduce_commit` flat_removes the incomplete objects (`remote_branch.cpp:34/136`). |
| `rb_shared_child` | SanityCheck | On 4 -> {2, 3} with 3 -> {2} and 2 -> {1}, deliveries 4, 2, 3 put 3 in `_complete_objects` while leaf 1 is absent: `filter_missing` (`remote_branch.cpp:72`) drops child 2 because its block exists, though 2 is still incomplete. The code's own `sanity_check` (`:156`) would fail. |
| `rb_chain_liveness` | RootCompletes | Completion never propagates past the first parent (`:97`, `:104-116`). |
| `gc_shared_roots` | GCSpec | Two users at the same root: `someone_has` (`root_op.h:62`) stops one user's `remove_recursive` at the root before its child edges go; once the other user moves on the root is deleted and the blobs leak under dangling edges. |
| `rb_crash` | NoFault | On commits made only of blobs (so no object is ever incomplete): a crash in `introduce_commit` after its `deep_remove`s and before `store_self` (`remote_branch.cpp:145`) reloads maps that still list the released objects; the retried `introduce_commit` underflows. The same configuration passes without crashes. |

Other disagreements met while modelling have no run of their own; they
are hazards in `PROJECT.json`:

- `clone` keeps a fresh Missing root beside the copied nodes
  (`snapshot.cpp:261`). Delivering a leaf to the clone then fails
  `ouisync_assert(cnt == 1)` at `:121`.
- A second snapshot of a root that another snapshot has completed
  registers the pinned child as Missing (`:202-205`). Its delivery aborts
  at `:121`.
- A node made complete at insert time keeps the type Incomplete (`:200`).
- A crash between the new self-edge and `remove_recursive` leaves the old
  root anchored (`root_op.h:44`).
- A crash after `_flat_store` and before `store_self` pins a redelivered
  object twice (`remote_branch.cpp:118`).
- `commit` records edges only for the root's immediate children
  (`root_op.h:36`), while spec section 2 says edges go to every reachable
  child. Removing the old tree would then delete a grandchild the new root
  still reaches; the flat directories of the RootOp runs have none.

Every property of a passing run has a mutant in `PROJECT.json`. The mutant
is a plausible slip in the modelled code that TLC must catch, for example:

- a dropped underflow check;
- sort_children deciding by existence;
- a received tree whose children are never registered as missing;
- `remove_recursive` without the `someone_has` test, or testing before removing its own edge;
- `commit` removing the old tree before writing the new edges;

The mutant operators are defined next to the definitions they replace.

## Bounds

- **Commit shapes.** Each run uses one commit shape of 3–6 objects:
  - a chain;
  - a tree with two children, one of which has two leaves;
  - a diamond, where two parents share one child;
  - a DAG in which one object reaches a shared child by two paths.

  These are the smallest shapes that show each case the code treats
  differently: a leaf, a tree, a parent with several children, a shared
  child, several levels.
- **Snapshot slots.** There are at most two. Two slots are enough for one
  snapshot to complete objects that another one later inserts, and for clone.
- **Roots.** These are the commit roots a snapshot may be created for, or a
  new commit may announce.
- **RootOp.** Directories list blobs 1-3 (`FlatChild`: directory `10u+j`
  lists one of four blob sets), each entry with a version vector
  (`FlatVersions`, values 0-2, so that merges of different entries both
  raise and keep components). Two or three users: with separate
  directories (`OwnEdits`) three users give every kind of blob sharing;
  with the same two directories (`SharedEdits`) two users reach equal
  roots. `MaxWrites = 16` exceeds the writes of any commit here, and
  `Crashes` lets a step stop after each of them.
- **RemoteBranch crashes.** `rb_crash` uses two blob-only commits and
  `MaxWrites = 4`: enough for a step to stop after each of its durable
  writes, and small enough to finish in seconds.

No counter is unbounded: every run's state space is finite because each id
is delivered only while it is a Missing node, and the slots are finite.

## Fairness

The only fairness is weak fairness on the delivery of each object a
RemoteBranch still requests, `WF_vars(Receive(id, MaxWrites))`: a delivery
that does not crash. It stands for the peer answering every request.
Introducing a new commit is not fair: the owner may never do it. The
Snapshot and RootOp runs check safety only (for RootOp, the refinement's
safety part), so they assume no fairness. The Snapshot completion cascade
is not checked as liveness: wherever two snapshots share objects, or the
commit is a diamond, the code aborts first (`snapshot.cpp:121`, `:204`).
RemoteBranch's cascade is checked, and fails (`rb_chain_liveness`).

## Not modelled

Not modelled, and why:

1. **RootOp composed with Snapshot.** `remove_recursive` deletes by Index
   edges alone (`root_op.h:62`). Whether `ObjectStore::remove` then
   respects refcount pins is decided in `object/io.h`, which is not in
   `src/`, so a composition would model its answer from a guess.
2. **Crash and restart of Snapshot.** `Snapshot::load` and the archive
   format are not in `src/`; RemoteBranch's crash model is built, and
   RootOp's.
3. **`RemoteBranch::create_snapshot`.** Its inverted condition
   (`remote_branch.cpp:166`) sits before calls to `capture_*`, which are
   not in `src/`.
4. **`RootOp::increment`.** It is called only by the DirectoryOps, not in
   `src/`; entry version vectors are therefore data of the configuration.
5. **`object::Tree`** (`object/tree.h`). Its handles are used only by the
   DirectoryOps. Its `children()` set is the constant `Child`.
   `children_of` is never called.

Left out for good:

- hashing (ids are abstract and injective);
- serialization, logging and `operator<<`;
- the network and the file-system front end.

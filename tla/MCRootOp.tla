------------------------------ MODULE MCRootOp ------------------------------
(* Directory shapes for checking RootOp.  Ids 1-3 are blobs.               *)
EXTENDS RootOp

\* Flat directories over the blobs 1-3: the last digit of a directory id
\* picks its entries, the tens digit the user who builds it; 9 is the empty
\* directory.
DirEntries == <<{1, 2}, {2, 3}, {1, 3}, {1, 2, 3}>>
FlatChild == [o \in Obj |-> IF o < 10 THEN {} ELSE DirEntries[o % 10]]

\* Each user builds its own directories (ids 11-14, 21-24, 31-34).
OwnEdits == [u \in Users |-> {10 * u + j : j \in 1..4}]

\* Both users build the same two directories.
SharedEdits == [u \in Users |-> {11, 12}]

\* The version vectors of a directory's entries, one entry per blob it
\* lists: counters that differ from entry to entry and from user to user, so
\* that the union is neither the first nor the last of them.
FlatVersions ==
    [o \in Obj |->
        IF o < 10 THEN << >>
        ELSE [i \in 1..Cardinality(Child[o]) |-> [v \in Users |-> (o + i * v) % 3]]]

=============================================================================

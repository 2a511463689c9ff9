--------------------------- MODULE RollbackJournal ---------------------------
(***************************************************************************)
(* RollbackJournal of rollback.py as values and operators: the preimages a  *)
(* lifecycle command has tracked, whether it has written anything, and the  *)
(* order in which a rollback puts them back: trees first, then files, the   *)
(* last tracked first.                                                     *)
(*                                                                         *)
(* Paths tracked by one loop over a set share a rank and are restored in    *)
(* any order.  todo is what a rollback has still to restore.                *)
(***************************************************************************)
EXTENDS Naturals

NoFiles == [p \in {} |-> p]

EmptyJournal ==
    [trees |-> {}, snap |-> NoFiles, rank |-> NoFiles, ranks |-> 0, todo |-> {},
     writes |-> FALSE]

Tracked(j) == DOMAIN j.snap

\* f, and g where f is not defined.
Extended(f, g) ==
    [p \in DOMAIN f \cup DOMAIN g |-> IF p \in DOMAIN f THEN f[p] ELSE g[p]]

\* track_file for every path of ps: the first preimage of a path wins.
TrackFiles(j, d, ps) ==
    [trees |-> j.trees,
     snap |-> Extended(j.snap, [p \in ps |-> d[p]]),
     rank |-> Extended(j.rank, [p \in ps |-> j.ranks + 1]),
     ranks |-> j.ranks + 1,
     todo |-> j.todo \cup (ps \ Tracked(j)),
     writes |-> j.writes]

\* track_tree: the preimage of every path under a root, present or not.
TrackTree(j, d, ps) ==
    [TrackFiles(j, d, ps) EXCEPT !.trees = @ \cup (ps \ Tracked(j))]

NoteWrite(j) == [j EXCEPT !.writes = TRUE]

\* The paths a rollback may restore next, and the journal left after one.
NextToRestore(j) ==
    IF j.todo \cap j.trees # {} THEN j.todo \cap j.trees
    ELSE {p \in j.todo : \A q \in j.todo : j.rank[q] <= j.rank[p]}

Restored(j, p) == [j EXCEPT !.todo = @ \ {p}]
=============================================================================

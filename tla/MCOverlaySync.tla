--------------------------- MODULE MCOverlaySync ---------------------------
(* A volume with a directory a that holds a directory x, with a file or     *)
(* directory u, and y: small enough for every upper layer over every        *)
(* collection, deep enough for directories within directories.              *)
EXTENDS OverlaySync, TLC

CONSTANTS a, ax, axu, ay    \* a, a/x, a/x/u, a/y

TreeWalk == <<a, ax, axu, ay>>
TreeAbove == a :> {} @@ ax :> {a} @@ axu :> {a, ax} @@ ay :> {a}

\* the entry that comes after a directory: the kinds of directories are left to a
SmallInit ==
  Init /\ upper[ay] \in {"none", "file", "whiteout"} /\ lower[ay] \in {"none", "old"}
SmallSpec == SmallInit /\ [][Next]_vars /\ Fairness
=============================================================================

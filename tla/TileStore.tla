------------------------------ MODULE TileStore ------------------------------
(***************************************************************************)
(* What the tile cache promises its callers, whatever calls they make:     *)
(* tiles on disk change under the reader, the reader's view of a tile is a *)
(* snapshot of the file taken once, and it stays as it is until the whole  *)
(* view is dropped.  GraphReader implements this.                          *)
(***************************************************************************)
CONSTANTS
  Files,      \* the tile files the hierarchy can name
  Contents,   \* what a file may hold
  NoFile      \* there is no such file

VARIABLES
  disk,       \* disk[f]: the file now
  view        \* view[f]: the snapshot in use, for the tiles that have one

vars == <<disk, view>>

Init == /\ disk \in [Files -> Contents \cup {NoFile}]
        /\ view = [f \in {} |-> NoFile]

\* The tile set is rebuilt or cut to a region while the reader runs.
Replace(f) == /\ \E c \in Contents \cup {NoFile} : disk' = [disk EXCEPT ![f] = c]
              /\ UNCHANGED view

\* The first use of a tile.
Snapshot(f) ==
  /\ f \notin DOMAIN view
  /\ disk[f] \in Contents
  /\ view' = [t \in DOMAIN view \cup {f} |-> IF t = f THEN disk[f] ELSE view[t]]
  /\ UNCHANGED disk

\* All snapshots are dropped together.
Forget == /\ view' = [f \in {} |-> NoFile]
          /\ UNCHANGED disk

Next == \/ \E f \in Files : Replace(f) \/ Snapshot(f)
        \/ Forget

Spec == Init /\ [][Next]_vars
=============================================================================

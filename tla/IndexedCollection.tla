--------------------------- MODULE IndexedCollection ---------------------------
(***************************************************************************)
(* What the index of a synced collection promises the views, abstractly:  *)
(* a refresh replaces the collection by the records of one response, and  *)
(* the index becomes that collection laid over the previous index.  Every *)
(* record of the collection is indexed with its current attributes; a     *)
(* record the response lacks keeps the entry it had (onSync never clears  *)
(* the index).  Nothing else changes either of them.                       *)
(*                                                                         *)
(* Spec 4.1 promises more (the index is replaced); the difference is what *)
(* the run grid_stale_index exhibits.  SyncedCollection implements this    *)
(* specification when one GET is outstanding at a time; with overlapping  *)
(* GETs it does not (grid_overlapping_fetches).                            *)
(***************************************************************************)
CONSTANTS
  Ids,      \* record ids
  States,   \* the attributes of a record, abstracted to its state
  Absent    \* no record with this id

VARIABLES
  coll,     \* coll[id]: the collection's record, or Absent
  index     \* index[id]: the indexed record, or Absent

vars == << coll, index >>

(* initialize: an empty collection and an empty index.                     *)
Init ==
  /\ coll = [id \in Ids |-> Absent]
  /\ index = [id \in Ids |-> Absent]

(* One refresh: the collection becomes the response c, then onSync indexes *)
(* every record of it.                                                     *)
Refresh(c) ==
  /\ coll' = c
  /\ index' = [id \in Ids |-> IF c[id] # Absent THEN c[id] ELSE index[id]]

Next == \E c \in [Ids -> States \cup {Absent}] : Refresh(c)

Spec == Init /\ [][Next]_vars

=============================================================================

---------------------------- MODULE MCDetailView ----------------------------
(***************************************************************************)
(* Instance of DetailView for TLC: the page of backup b1 of service "db", *)
(* which has a second backup b2 (so its sub-collection can exist without  *)
(* b1); the two verifications belong to b1.                                *)
(***************************************************************************)
EXTENDS DetailView

CONSTANTS b1, b2, v1, v2

MCBIds == {b1, b2}
MCService == (b1 :> "db" @@ b2 :> "db")
MCVIds == {v1, v2}
MCBackupOf == (v1 :> b1 @@ v2 :> b1)
MCVStarted == (v1 :> 16 @@ v2 :> 20)

(* No verifications at all: the backups side alone. *)
NoVIds == {}
NoBackupOf == [v \in NoVIds |-> b1]
NoVStarted == [v \in NoVIds |-> 0]

=============================================================================

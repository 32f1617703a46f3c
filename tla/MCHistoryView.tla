---------------------------- MODULE MCHistoryView ----------------------------
(***************************************************************************)
(* Instance of HistoryView for TLC.  Service "db" has two backups with     *)
(* different start times (so the row order matters), "web" one; the two   *)
(* verifications belong to the same backup (so getByBackupId chooses).    *)
(***************************************************************************)
EXTENDS HistoryView

CONSTANTS b1, b2, b3, v1, v2

MCBIds == {b1, b2, b3}
MCService == (b1 :> "db" @@ b2 :> "db" @@ b3 :> "web")
MCStarted == (b1 :> 15 @@ b2 :> 12 @@ b3 :> 25)
MCVIds == {v1, v2}
MCBackupOf == (v1 :> b1 @@ v2 :> b1)
MCVStarted == (v1 :> 16 @@ v2 :> 20)

(* The two backups of "db" and one verification of b1: both sides at once. *)
DbBIds == {b1, b2}
OneVIds == {v1}

=============================================================================

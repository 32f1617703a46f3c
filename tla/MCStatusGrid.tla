---------------------------- MODULE MCStatusGrid ----------------------------
(***************************************************************************)
(* Instance of StatusGrid for TLC.  Two services; "db" has two backups in  *)
(* the same age bucket (so the selector chooses), "web" one backup; two   *)
(* verifications of the same backup (so getByBackupId chooses).  Times    *)
(* are in tenths of a day: DayLen = 10; the page loads at Now = 30 and the *)
(* clock may move once, to 35; a render may take 1 (RenderGap), so its    *)
(* rows may read 31 or 36.  At 30 b1 and b2 are 1 day old and b3, dated   *)
(* 0.3 day ahead, is in bucket -1; b2, 1.9 days old, turns 2 days old at  *)
(* 31, so a render straddles its day boundary; at 35 b1 and b2 are 2 days *)
(* old and b3 is in bucket 0.                                              *)
(***************************************************************************)
EXTENDS StatusGrid

CONSTANTS b1, b2, b3, v1, v2

MCBIds == {b1, b2, b3}
MCService == (b1 :> "db" @@ b2 :> "db" @@ b3 :> "web")
MCStarted == (b1 :> 15 @@ b2 :> 11 @@ b3 :> 33)
MCVIds == {v1, v2}
MCBackupOf == (v1 :> b1 @@ v2 :> b1)
MCVStarted == (v1 :> 16 @@ v2 :> 20)

(* One backup only: the verifications side. *)
OneBIds == {b1}

(* No verifications at all: the backups side alone. *)
NoVIds == {}
NoBackupOf == [v \in NoVIds |-> b1]
NoVStarted == [v \in NoVIds |-> 0]

=============================================================================

------------------------------ MODULE Decoration ------------------------------
(***************************************************************************)
(* The verification side of the views (b.js 83-94, 143-164 and             *)
(* Verifications.getByBackupId): what a view adds to an element carrying   *)
(* a data-backup-id when "v:indexed" fires.  Shared by the status grid,    *)
(* the history view and the detail view.                                   *)
(*                                                                         *)
(* An element is abstracted to its backup id, its set of verification-*   *)
(* classes and the verification lines appended to its title (a sequence of *)
(* verification states; the backup line the template writes is constant   *)
(* and left out).                                                          *)
(***************************************************************************)
EXTENDS Integers, Sequences, SequencesExt, FiniteSets, Selector

CONSTANTS
  VIds,       \* verification ids
  BackupOf,   \* BackupOf[v]: the backupId of verification v
  VStarted,   \* VStarted[v]: its startedDate
  Absent      \* no record with this id

(* Verifications.getByBackupId over an index view vidx: undefined when no  *)
(* verification of the backup is indexed, else the best of them.           *)
getByBackupId(bid, vidx) ==
  LET vs == {v \in VIds : BackupOf[v] = bid /\ vidx[v] # Absent}
  IN  IF vs = {} THEN NoEntity
      ELSE getStateBasedVerification(SetToSeq(
             {[id |-> v, state |-> vidx[v], started |-> VStarted[v]] : v \in vs}))

(* The class added for a verification: its state, or "unknown".            *)
VerificationClass(ver) ==
  IF ver # NoEntity /\ ver.state \in {"FINISHED", "FAILED", "TIMEDOUT", "STARTED"}
  THEN ver.state ELSE "unknown"

(***************************************************************************)
(* Mutant of extendElementTitleWithVerificationStatus: the new line is     *)
(* joined in front of the old title instead of after it.                   *)
(***************************************************************************)
extendTitleInFront(title, ver) ==
  IF ver = NoEntity THEN title ELSE << ver.state >> \o title

(* extendElementTitleWithVerificationStatus: nothing for undefined, else   *)
(* [title, "\nVerification:", status, "(started: ...)"].join(" ").         *)
extendElementTitleWithVerificationStatus(title, ver) ==
  IF ver = NoEntity THEN title ELSE Append(title, ver.state)

(* The body of updateVerificationStatuses' loop for one element that has   *)
(* a data-backup-id: add the class, then extend the title.                 *)
DecorateElement(el, vidx) ==
  LET ver == getByBackupId(el.id, vidx)
  IN  [el EXCEPT !.vclasses = @ \cup {VerificationClass(ver)},
                 !.title = extendElementTitleWithVerificationStatus(@, ver)]

=============================================================================

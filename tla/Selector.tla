------------------------------ MODULE Selector ------------------------------
(***************************************************************************)
(* The representative-record rule of b.js: B.ViewUtil.getStateBasedEntity  *)
(* and its two priority lists (getStateBasedBackup and                     *)
(* getStateBasedVerification).  An entity is a record with the fields the  *)
(* rule reads: its state and its startedDate (an integer time); other      *)
(* fields (id, ...) are carried through untouched.                         *)
(***************************************************************************)
EXTENDS Integers, Sequences, FiniteSets

CONSTANT NoEntity   \* the JavaScript value undefined returned for "none"

(***************************************************************************)
(* Mutant of SortByStartedDesc: the key without its "* -1", so the sort is *)
(* ascending and the OLDEST record of the best state is returned.          *)
(***************************************************************************)
SortByStartedAsc(ents) ==
  LET Before(i, j) == \/ ents[i].started < ents[j].started
                      \/ ents[i].started = ents[j].started /\ i < j
      Pos(i) == Cardinality({j \in DOMAIN ents : Before(j, i)}) + 1
  IN  [k \in DOMAIN ents |-> ents[CHOOSE i \in DOMAIN ents : Pos(i) = k]]

(***************************************************************************)
(* _.sortBy(entities, e -> e.startedDate.getTime() * -1): underscore's     *)
(* sortBy is stable, so records with equal start times keep their input    *)
(* order.  Record i goes to the position one past the number of records    *)
(* that sort before it.                                                    *)
(***************************************************************************)
SortByStartedDesc(ents) ==
  LET Before(i, j) == \/ ents[i].started > ents[j].started
                      \/ ents[i].started = ents[j].started /\ i < j
      Pos(i) == Cardinality({j \in DOMAIN ents : Before(j, i)}) + 1
  IN  [k \in DOMAIN ents |-> ents[CHOOSE i \in DOMAIN ents : Pos(i) = k]]

(* _.groupBy(entities, state): state -> the records of that state, in order *)
GroupByState(ents) ==
  [s \in {ents[i].state : i \in DOMAIN ents} |->
     SelectSeq(ents, LAMBDA e : e.state = s)]

(***************************************************************************)
(* getStateBasedEntity(entities, states): sort, group, keep the states of  *)
(* the priority list that occur ("state in entities"), return undefined    *)
(* when none does, else the first record of the first such state.         *)
(***************************************************************************)
getStateBasedEntity(entities, states) ==
  LET groups  == GroupByState(SortByStartedDesc(entities))
      present == SelectSeq(states, LAMBDA s : s \in DOMAIN groups)
  IN  IF present = << >> THEN NoEntity ELSE groups[present[1]][1]

BackupPriority ==
  << "FINISHED", "UPLOADING", "RECEIVING", "WAITING", "FAILED", "TIMEDOUT" >>

VerificationPriority == << "FINISHED", "STARTED", "FAILED", "TIMEDOUT" >>

getStateBasedBackup(backups) == getStateBasedEntity(backups, BackupPriority)

(* Mutant of getStateBasedVerification: a running verification outranks a *)
(* finished one (the first two priorities swapped).                       *)
getStateBasedVerificationStartedFirst(verifications) ==
  getStateBasedEntity(verifications, << "STARTED", "FINISHED", "FAILED", "TIMEDOUT" >>)

getStateBasedVerification(verifications) ==
  getStateBasedEntity(verifications, VerificationPriority)

(* getGlyphForBackupState: the switch on the state, as a table from state *)
(* to the glyphicon and its text-* style; the default for any other value, *)
(* undefined included, is the muted minus.                                 *)
Glyphs == [FAILED    |-> <<"fire", "danger">>,
           FINISHED  |-> <<"ok-sign", "success">>,
           TIMEDOUT  |-> <<"time", "warning">>,
           UPLOADING |-> <<"cloud-upload", "primary">>,
           RECEIVING |-> <<"download-alt", "primary">>,
           WAITING   |-> <<"download-alt", "primary">>]

getGlyphForBackupState(state) ==
  IF state \in DOMAIN Glyphs THEN Glyphs[state] ELSE <<"minus", "muted">>

=============================================================================

------------------------------ MODULE HistoryView ------------------------------
(***************************************************************************)
(* The history page: B.View.HistoryView (views/history.js) over the        *)
(* backups collection and the verifications collection, each refreshed by  *)
(* its own GETs that complete in any order.                                *)
(*                                                                         *)
(*   "b:indexed" (end of Backups.onSync)       -> render                  *)
(*   "v:indexed" (end of Verifications.onSync) -> updateVerificationStatuses*)
(*                                                on every .i-backup-status *)
(*                                                                         *)
(* render appends, for every service of getByService(), a panel with one   *)
(* row per indexed backup, newest first.  It never empties the element, so *)
(* the page is the sequence of every panel ever appended.  A row keeps     *)
(* what the properties tell apart: the backup's id and state, and the      *)
(* verification classes and title lines decoration added to its status    *)
(* span.  The glyph, sizes, dates and durations are formatted per row      *)
(* (Selector.tla, Formatter.tla) and left out here.                        *)
(***************************************************************************)
EXTENDS Integers, Sequences, SequencesExt, FiniteSets, Decoration

CONSTANTS
  BIds, Service, Started, BackupStates, BackupInitStates,
  VerificationStates, VerificationInitStates, Gone,
  MaxServerSteps, MaxFetches, MaxInFlight

VARIABLES
  bServer, bSteps, bInflight, bFetches, bModels, bIndexRef, bFrozen,
  vServer, vSteps, vInflight, vFetches, vModels, vIndexRef, vFrozen,
  panels       \* the element's content: every panel appended, in order

bVars == << bServer, bSteps, bInflight, bFetches, bModels, bIndexRef, bFrozen >>
vVars == << vServer, vSteps, vInflight, vFetches, vModels, vIndexRef, vFrozen >>
vars == << bVars, vVars, panels >>

Backups == INSTANCE SyncedCollection
  WITH Ids <- BIds, States <- BackupStates, InitStates <- BackupInitStates,
       KeyOf <- Service, server <- bServer, serverSteps <- bSteps,
       inflight <- bInflight, fetches <- bFetches, models <- bModels,
       indexRef <- bIndexRef, frozen <- bFrozen

Verifications == INSTANCE SyncedCollection
  WITH Ids <- VIds, States <- VerificationStates,
       InitStates <- VerificationInitStates, KeyOf <- BackupOf,
       server <- vServer, serverSteps <- vSteps, inflight <- vInflight,
       fetches <- vFetches, models <- vModels, indexRef <- vIndexRef,
       frozen <- vFrozen

(* The keys of getByService(): services with a sub-collection.             *)
IndexedServices(idx) == {Service[b] : b \in {b \in BIds : idx[b] # Absent}}

(* A fresh row: the backup's status span with the template's classes and  *)
(* title, no decoration.                                                   *)
FreshRow(b, idx) == [id |-> b, state |-> idx[b], vclasses |-> {}, title |-> << >>]

(***************************************************************************)
(* Mutant of historyRows: sortBy on startedDate without the .reverse(), so *)
(* the oldest backup comes first.                                          *)
(***************************************************************************)
historyRowsUnreversed(s, idx) ==
  LET bs == SetToSortSeq({b \in BIds : idx[b] # Absent /\ Service[b] = s},
                         LAMBDA x, y : Started[x] < Started[y])
  IN  [k \in DOMAIN bs |-> FreshRow(bs[k], idx)]

(* backups.sortBy(startedDate).reverse(): one row per indexed backup of   *)
(* the service, newest first.                                              *)
historyRows(s, idx) ==
  LET bs == Reverse(SetToSortSeq({b \in BIds : idx[b] # Absent /\ Service[b] = s},
                                 LAMBDA x, y : Started[x] < Started[y]))
  IN  [k \in DOMAIN bs |-> FreshRow(bs[k], idx)]

(* render: _.forEach over getByService(), appending one panel per service *)
(* (the order of the object's keys is left open: SetToSeq).               *)
render(idx) ==
  LET ss == SetToSeq(IndexedServices(idx))
  IN  panels \o [k \in DOMAIN ss |-> [service |-> ss[k], rows |-> historyRows(ss[k], idx)]]

Init ==
  /\ Backups!Init
  /\ Verifications!Init
  /\ panels = << >>

(* A backups GET completes: set, onSync, "b:indexed" -> render.            *)
BackupsSynced(i) ==
  /\ Backups!Sync(i)
  /\ panels' = render(Backups!IndexView')
  /\ UNCHANGED vVars

(* A verifications GET completes: set, onSync, "v:indexed" ->              *)
(* updateVerificationStatuses(this.$(".i-backup-status")): every row of    *)
(* every panel on the page.                                                *)
VerificationsSynced(i) ==
  /\ Verifications!Sync(i)
  /\ panels' = [k \in DOMAIN panels |->
                  [panels[k] EXCEPT !.rows =
                     [r \in DOMAIN @ |-> DecorateElement(@[r], Verifications!IndexView')]]]
  /\ UNCHANGED bVars

Next ==
  \/ Backups!Environment /\ UNCHANGED << vVars, panels >>
  \/ Verifications!Environment /\ UNCHANGED << bVars, panels >>
  \/ \E i \in 1..Len(bInflight) : BackupsSynced(i)
  \/ \E i \in 1..Len(vInflight) : VerificationsSynced(i)

Spec == Init /\ [][Next]_vars

-----------------------------------------------------------------------------
Rows == [id : BIds, state : BackupStates,
         vclasses : SUBSET {"FINISHED", "FAILED", "TIMEDOUT", "STARTED", "unknown"},
         title : Seq(VerificationStates)]

TypeOK ==
  /\ Backups!TypeOK
  /\ Verifications!TypeOK
  /\ panels \in Seq([service : {Service[b] : b \in BIds}, rows : Seq(Rows)])

(* The panel of service s appended last, if any.                          *)
LastPanel(s) == panels[SelectLastInSeq(panels, LAMBDA p : p.service = s)]

(***************************************************************************)
(* The newest panel of every service is the service's history as the      *)
(* collection has it: every backup the backups collection holds has a row *)
(* there with its current state, and the rows run newest first.  It needs  *)
(* onSync to index every model, the index objects to follow merges, a     *)
(* render on every "b:indexed" and the sortBy/reverse order to agree.      *)
(***************************************************************************)
HistoryShowsCollection ==
  \A b \in BIds : bModels[b] # Absent =>
    /\ \E k \in DOMAIN panels : panels[k].service = Service[b]
    /\ LET rows == LastPanel(Service[b]).rows
       IN  /\ \E r \in DOMAIN rows : rows[r].id = b /\ rows[r].state = bModels[b]
           /\ \A r \in 1 .. Len(rows) - 1 : Started[rows[r].id] > Started[rows[r + 1].id]

(***************************************************************************)
(* The backups collection and its service index implement                  *)
(* IndexedCollection: every successful GET, with its set() and onSync,    *)
(* is one refresh that indexes every record of the response with its       *)
(* current attributes and keeps the entries of records it lacks; failed    *)
(* GETs and server-side changes leave both unchanged.                      *)
(***************************************************************************)
BackupsImplementIndexedCollection == Backups!Abstract!Spec

(***************************************************************************)
(* A row's title ends with the backup's current best verification: after  *)
(* every "v:indexed" the last verification line of every decorated row    *)
(* names the state getByBackupId gives now.  It needs the title to be     *)
(* extended at its end, and every row of every panel to be revisited.     *)
(***************************************************************************)
TitleNamesCurrentVerification ==
  \A k \in DOMAIN panels : \A r \in DOMAIN panels[k].rows :
    LET row == panels[k].rows[r]
    IN  row.title # << >> =>
          Last(row.title) = getByBackupId(row.id, Verifications!IndexView).state

=============================================================================

------------------------------ MODULE DetailView ------------------------------
(***************************************************************************)
(* The detail page of one backup: B.View.DetailView (views/detail.js),     *)
(* created with options {service, id} for the backup PageId, over the     *)
(* backups collection and the verifications collection.                    *)
(*                                                                         *)
(*   "b:indexed" -> render: prepareModelData(service, id) looks the backup *)
(*                  up with getByServiceAndId, rewrites attributes of that *)
(*                  shared model object, and the template is APPENDED.     *)
(*   "v:indexed" -> updateVerificationStatuses on every .i-backup-status,  *)
(*                  then updateVerificationView(getByBackupId(id)), which  *)
(*                  appends a log link to every .b-details.                *)
(*                                                                         *)
(* prepareModelData replaces the model's "chunks" ({filename: [chunk]})    *)
(* by the view's list [{chunks, filename}].  Run on that list again, it    *)
(* takes each {chunks, filename} for a file's chunk list and calls         *)
(* niceifySize on its members' undefined .size, which throws (toFixed of  *)
(* undefined) unless the list is empty.  A Backbone merge                  *)
(* (set() on a response holding the backup) puts the server's chunks      *)
(* back.  So each model object carries one bit, "prepared": its chunks     *)
(* already are the view's list.  The page's backup is the only object      *)
(* render touches: the collection's object and, once the index holds a     *)
(* removed object for it, that stale object.                               *)
(*                                                                         *)
(* A copy of the template keeps the backup state it shows, the             *)
(* verification links in its                                               *)
(* .b-details (the verification ids), its decorated status span and, per   *)
(* file panel it lists, whether the panel is open.  The panel clicks       *)
(* (_collapseFile, _expandAllFiles, _collapseAllFiles) search this.$el,   *)
(* which holds every copy.                                                 *)
(***************************************************************************)
EXTENDS Integers, Sequences, SequencesExt, FiniteSets, Decoration

CONSTANTS
  BIds, Service, BackupStates, BackupInitStates,
  VerificationStates, VerificationInitStates, Gone,
  PageId,        \* options.id (options.service is Service[PageId])
  FileNames,     \* the keys of the backup's "chunks" object
  MaxServerSteps, MaxFetches, MaxInFlight,
  MaxClicks      \* bound on the user's clicks on the file panels

VARIABLES
  bServer, bSteps, bInflight, bFetches, bModels, bIndexRef, bFrozen,
  vServer, vSteps, vInflight, vFetches, vModels, vIndexRef, vFrozen,
  prepared,   \* prepared[o], o \in {"live", "stale"}: the object's chunks are the view list
  page,       \* the element's content: every copy of the template appended
  threw,      \* history: a "b:indexed" render has thrown
  clicks      \* the number of panel clicks so far (bounded by MaxClicks)

bVars == << bServer, bSteps, bInflight, bFetches, bModels, bIndexRef, bFrozen >>
vVars == << vServer, vSteps, vInflight, vFetches, vModels, vIndexRef, vFrozen >>
vars == << bVars, vVars, prepared, page, threw, clicks >>

Backups == INSTANCE SyncedCollection
  WITH Ids <- BIds, States <- BackupStates, InitStates <- BackupInitStates,
       KeyOf <- Service, server <- bServer, serverSteps <- bSteps,
       inflight <- bInflight, fetches <- bFetches, models <- bModels,
       indexRef <- bIndexRef, frozen <- bFrozen

Verifications == INSTANCE SyncedCollection
  WITH Ids <- VIds, States <- VerificationStates,
       InitStates <- VerificationInitStates, KeyOf <- BackupOf,
       server <- vServer, serverSteps <- vSteps, inflight <- vInflight,
       fetches <- vFetches, models <- vModels, indexRef <- vIndexRef,
       frozen <- vFrozen

(***************************************************************************)
(* getByServiceAndId(service, id): the object the service's sub-collection *)
(* holds for the id ("live" or "stale"), or "none": then either the       *)
(* sub-collection is undefined (serviceBackups.forEach throws) or the id   *)
(* is not in it (theBackup stays null and backupData.get throws).          *)
(***************************************************************************)
getByServiceAndId == bIndexRef[PageId]

(* What set() does to the page's objects: the collection's object is a   *)
(* fresh one or has the server's chunks merged back; an object set()       *)
(* removes keeps its chunks, and the index may keep it.                    *)
ObjectsAfterSync(resp) ==
  [live  |-> FALSE,
   stale |-> IF bIndexRef[PageId] = "live" /\ resp[PageId] = Absent
             THEN prepared.live ELSE prepared.stale]

(* prepareModelData completes when getByServiceAndId found an object whose *)
(* chunks are the server's, or are the view's list of no files; on a list  *)
(* already rewritten with a file, niceifySize(chunk.size) of the entry's   *)
(* members throws.                                                          *)
Preparable(obj, objs) == obj # "none" /\ (~objs[obj] \/ FileNames = {})

(* render: Mustache.render(template, prepareModelData(...)) appended.      *)
(* The copy shows the indexed object's state and a closed panel per file  *)
(* ({{#chunks}}, one .panel-collapse.collapse named {{filename}}); the     *)
(* object's chunks are the view list afterwards.                           *)
render(obj, idx, objs) ==
  /\ page' = Append(page, [id |-> PageId, state |-> idx[PageId],
                           links |-> << >>, vclasses |-> {}, title |-> << >>,
                           panels |-> [f \in FileNames |-> FALSE]])
  /\ prepared' = [objs EXCEPT ![obj] = TRUE]

Init ==
  /\ Backups!Init
  /\ Verifications!Init
  /\ prepared = [o \in {"live", "stale"} |-> FALSE]
  /\ page = << >>
  /\ threw = FALSE
  /\ clicks = 0

(* A backups GET completes: set, onSync, "b:indexed" -> render.            *)
BackupsSynced(i) ==
  /\ Backups!Sync(i)
  /\ Preparable(getByServiceAndId', ObjectsAfterSync(bInflight[i]))
  /\ render(getByServiceAndId', Backups!IndexView', ObjectsAfterSync(bInflight[i]))
  /\ UNCHANGED << vVars, threw, clicks >>

(* The same, when the listener throws a TypeError: getByServiceAndId finds *)
(* no object (before prepareModelData changes anything), or the object's  *)
(* chunks are already the view's list of files (before it sets "chunks"). *)
BackupsSyncedRenderThrows(i) ==
  /\ Backups!Sync(i)
  /\ ~Preparable(getByServiceAndId', ObjectsAfterSync(bInflight[i]))
  /\ prepared' = ObjectsAfterSync(bInflight[i])
  /\ threw' = TRUE
  /\ UNCHANGED << vVars, page, clicks >>

(***************************************************************************)
(* Mutant of updateVerificationView: the link goes to the newest          *)
(* .b-details only (this.$(".b-details").last()).                          *)
(***************************************************************************)
updateVerificationViewNewestOnly(p, ver) ==
  IF ver = NoEntity \/ p = << >> THEN p
  ELSE [p EXCEPT ![Len(p)].links = Append(@, ver.id)]

(* updateVerificationView(verification): nothing for undefined, else a    *)
(* link to the verification's log appended to every .b-details of p.       *)
updateVerificationView(p, ver) ==
  IF ver = NoEntity THEN p
  ELSE [k \in DOMAIN p |-> [p[k] EXCEPT !.links = Append(@, ver.id)]]

(* A verifications GET completes: set, onSync, "v:indexed" -> decorate     *)
(* the status span of every copy, then                                     *)
(* updateVerificationView(getByBackupId(options.id)).                      *)
VerificationsSynced(i) ==
  /\ Verifications!Sync(i)
  /\ LET vidx == Verifications!IndexView'
     IN  page' = updateVerificationView(
                   [k \in DOMAIN page |-> DecorateElement(page[k], vidx)],
                   getByBackupId(PageId, vidx))
  /\ UNCHANGED << bVars, prepared, threw, clicks >>

(***************************************************************************)
(* _collapseFile: a click on the heading link of panel f of copy k toggles *)
(* every element of this.$el with data-filename f, in every copy.          *)
(***************************************************************************)
SetPanels(p, chosen, toggle, v) ==
  [j \in DOMAIN p |-> [p[j] EXCEPT !.panels =
                         [g \in DOMAIN @ |-> IF g \notin chosen THEN @[g]
                                             ELSE IF toggle THEN ~@[g] ELSE v]]]

CollapseFile(k, f) ==
  /\ f \in DOMAIN page[k].panels
  /\ page' = SetPanels(page, {f}, TRUE, FALSE)
  /\ UNCHANGED << bVars, vVars, prepared, threw >>

(* _expandAllFiles / _collapseAllFiles: a click on a control of copy k     *)
(* (one is rendered per file) shows / hides every .panel-collapse of       *)
(* every copy.                                                             *)
SetAllFiles(k, v) ==
  /\ DOMAIN page[k].panels # {}
  /\ page' = SetPanels(page, FileNames, FALSE, v)
  /\ UNCHANGED << bVars, vVars, prepared, threw >>

ExpandAllFiles(k) == SetAllFiles(k, TRUE)
CollapseAllFiles(k) == SetAllFiles(k, FALSE)

(* The user's clicks on the file panels of a copy.                         *)
Click ==
  /\ clicks < MaxClicks
  /\ clicks' = clicks + 1
  /\ \E k \in DOMAIN page :
       \/ \E f \in DOMAIN page[k].panels : CollapseFile(k, f)
       \/ ExpandAllFiles(k)
       \/ CollapseAllFiles(k)

Next ==
  \/ Backups!Environment /\ UNCHANGED << vVars, prepared, page, threw, clicks >>
  \/ Verifications!Environment /\ UNCHANGED << bVars, prepared, page, threw, clicks >>
  \/ \E i \in 1..Len(bInflight) : BackupsSynced(i)
  \/ \E i \in 1..Len(bInflight) : BackupsSyncedRenderThrows(i)
  \/ \E i \in 1..Len(vInflight) : VerificationsSynced(i)
  \/ Click

Spec == Init /\ [][Next]_vars

-----------------------------------------------------------------------------
Copies == [id : {PageId}, state : BackupStates,
           links : Seq(VIds),
           vclasses : SUBSET {"FINISHED", "FAILED", "TIMEDOUT", "STARTED", "unknown"},
           title : Seq(VerificationStates),
           panels : [FileNames -> BOOLEAN]]

TypeOK ==
  /\ Backups!TypeOK
  /\ Verifications!TypeOK
  /\ prepared \in [{"live", "stale"} -> BOOLEAN]
  /\ page \in Seq(Copies)
  /\ threw \in BOOLEAN
  /\ clicks \in 0..MaxClicks

(***************************************************************************)
(* While the backups collection holds the page's backup, the newest copy  *)
(* of the page shows the backup's current state.  It needs onSync to index *)
(* the backup under its service, getByServiceAndId to find it, the index   *)
(* object to follow merges and a render on every "b:indexed".             *)
(***************************************************************************)
DetailShowsCurrentState ==
  bModels[PageId] # Absent => page # << >> /\ Last(page).state = bModels[PageId]

(***************************************************************************)
(* Every verification-log link the page shows last in a copy points to    *)
(* the backup's current best verification: a copy never keeps an outdated *)
(* link as its newest one.  It needs every "v:indexed" to reach the       *)
(* .b-details of every copy, getByBackupId to be asked for options.id and *)
(* the index to keep verifications it once held.                          *)
(***************************************************************************)
LinkNamesBestVerification ==
  \A k \in DOMAIN page : page[k].links # << >> =>
    Last(page[k].links) = getByBackupId(PageId, Verifications!IndexView).id

(***************************************************************************)
(* Spec 4.1 and 7: a missing grouping key is skipped silently, and no      *)
(* error other than a failed fetch or a short id is raised: the            *)
(* "b:indexed" listener never throws.                                      *)
(***************************************************************************)
RenderNeverThrows == ~threw

(***************************************************************************)
(* Spec 4.4: the page shows one backup's file breakdown, each file a      *)
(* panel the user opens and closes.  A click on the heading of a file's   *)
(* panel changes that panel only: no other copy of the template on the    *)
(* page changes.  _collapseFile toggles [data-filename=f] across the whole *)
(* element, which holds every appended copy.                               *)
(***************************************************************************)
ClickChangesOnlyItsCopy ==
  [][\A k \in DOMAIN page, f \in FileNames :
       CollapseFile(k, f) => \A j \in DOMAIN page \ {k} : page'[j] = page[j]]_vars

=============================================================================

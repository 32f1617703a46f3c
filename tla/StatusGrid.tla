------------------------------ MODULE StatusGrid ------------------------------
(***************************************************************************)
(* The status page: B.View.StatusGrid (views/status.js) over the backups   *)
(* collection and the verifications collection (models/*.js), each         *)
(* refreshed by its own GETs that complete in any order on the single      *)
(* event loop.                                                             *)
(*                                                                         *)
(*   "b:indexed"        (end of Backups.onSync)       -> render            *)
(*   "b:servicesLoaded" (services collection loaded)  -> render            *)
(*   "v:indexed"        (end of Verifications.onSync) ->                   *)
(*                         updateVerificationStatuses on the cells         *)
(*                                                                         *)
(* render empties the element and rebuilds one row per indexed service, a *)
(* cell per age 0..13 days, each showing getStateBasedBackup of the        *)
(* backups indexed in that age bucket.  updateVerificationStatuses adds a  *)
(* verification-* class to every cell showing a backup; classes are only  *)
(* ever added, and a render replaces the cells by fresh undecorated ones.  *)
(* The page and each cell keep only what the properties tell apart: the    *)
(* backup id, state and glyph a cell shows and its set of verification   *)
(* classes.  The browser's clock runs on between events; a render buckets *)
(* the backups by the clock's value when it runs (new Date()), and nothing *)
(* re-renders when the clock alone moves.                                 *)
(***************************************************************************)
EXTENDS Integers, Sequences, SequencesExt, FiniteSets, Decoration, AgeBuckets

CONSTANTS
  BIds, Service, Started, BackupStates, BackupInitStates,
  VerificationStates, VerificationInitStates,
  Gone, NoBackup, NoRow,
  Disabled,     \* services whose disableHealthcheck is true
  Now,          \* the browser's clock when the page is loaded
  ClockStep,    \* how far the clock moves in one step
  MaxClock,     \* the clock is not followed past this time
  RenderGap,    \* how far the clock may move while one render runs
  Window,       \* the number of age columns: _.range(0, 14)
  MaxServerSteps, MaxFetches, MaxInFlight

VARIABLES
  bServer, bSteps, bInflight, bFetches, bModels, bIndexRef, bFrozen,
  vServer, vSteps, vInflight, vFetches, vModels, vIndexRef, vFrozen,
  servicesLoaded,  \* "b:servicesLoaded" has fired
  grid,            \* grid[service]: NoRow, or age -> cell
  disabledLabel,   \* disabledLabel[service]: its row is labelled "(disabled)"
  head,            \* the header row: << >>, or column -> [age, from, to]
  lastEvent,       \* history: the notification that last changed the grid
  clock,           \* the browser's clock (new Date().getTime())
  rowsNow          \* history: the new Date() the last _renderRows read

bVars == << bServer, bSteps, bInflight, bFetches, bModels, bIndexRef, bFrozen >>
vVars == << vServer, vSteps, vInflight, vFetches, vModels, vIndexRef, vFrozen >>
gridVars == << grid, head, disabledLabel, lastEvent, rowsNow >>
vars == << bVars, vVars, servicesLoaded, gridVars, clock >>

Backups == INSTANCE SyncedCollection
  WITH Ids <- BIds, States <- BackupStates, InitStates <- BackupInitStates,
       KeyOf <- Service, server <- bServer, serverSteps <- bSteps,
       inflight <- bInflight, fetches <- bFetches, models <- bModels,
       indexRef <- bIndexRef, frozen <- bFrozen

Verifications == INSTANCE SyncedCollection
  WITH Ids <- VIds, States <- VerificationStates,
       InitStates <- VerificationInitStates, KeyOf <- BackupOf,
       server <- vServer, serverSteps <- vSteps, inflight <- vInflight,
       fetches <- vFetches, models <- vModels, indexRef <- vIndexRef,
       frozen <- vFrozen

ASSUME RenderGap \in Nat

Services == {Service[b] : b \in BIds}
Ages == 0 .. Window - 1

(* _renderHead's ages: _.range(0, 14).reverse(), oldest column first.      *)
HeadAges == [k \in 1..Window |-> Window - k]

(* _renderRows' ages, the same expression written a second time.           *)
Columns == [k \in 1..Window |-> Window - k]

(* getByService() over an index view idx: per service, its indexed        *)
(* backups (the sub-collection's order is left open: SetToSeq).           *)
ByService(idx) ==
  [s \in Services |->
     SetToSeq({[id |-> b, state |-> idx[b], started |-> Started[b]] :
                 b \in {b \in BIds : idx[b] # Absent /\ Service[b] = s}})]

(* The best backup of a service's bucket: (age in backups) ? backups[age] *)
(* : [] handed to getStateBasedBackup.                                     *)
BestBackup(buckets, a) ==
  getStateBasedBackup(IF a \in DOMAIN buckets THEN buckets[a] ELSE << >>)

(* Mutant of Cell: "status: bestState" without the "Unknown" fallback.     *)
CellNoFallback(buckets, a) ==
  LET best == BestBackup(buckets, a)
  IN  IF best = NoEntity
      THEN [id |-> NoBackup, state |-> NoEntity, glyph |-> getGlyphForBackupState(NoEntity),
            active |-> FALSE, vclasses |-> {}]
      ELSE [id |-> best.id, state |-> best.state,
            glyph |-> getGlyphForBackupState(best.state), active |-> FALSE, vclasses |-> {}]

(* _renderRows: the cell of one age: the best backup's id, state and      *)
(* glyph, or "Unknown", the default glyph and no data-backup-id when the  *)
(* bucket has none.                                                        *)
Cell(buckets, a) ==
  LET best == BestBackup(buckets, a)
  IN  IF best = NoEntity
      THEN [id |-> NoBackup, state |-> "Unknown", glyph |-> getGlyphForBackupState(NoEntity),
            active |-> FALSE, vclasses |-> {}]
      ELSE [id |-> best.id, state |-> best.state,
            glyph |-> getGlyphForBackupState(best.state), active |-> FALSE, vclasses |-> {}]

(* "highlight the right-most row": the last cell of a row is active.      *)
highlightLast(cells) == [cells EXCEPT ![Len(cells)].active = TRUE]

(* The row label of each service: services.get(service) is undefined until *)
(* the services collection is loaded, so a row is marked disabled only     *)
(* when the collection is loaded and the service's disableHealthcheck is  *)
(* true.                                                                   *)
isDisabled(loaded) == [s \in Services |-> loaded /\ s \in Disabled]

(* Mutant of HeadOf: the header's ages without the .reverse(), newest      *)
(* column first while the rows still run oldest first.                     *)
HeadOfUnreversed(now) ==
  [k \in 1..Window |-> [age  |-> k - 1,
                        to   |-> now - DayLen * (k - 1),
                        from |-> now - DayLen * (k - 1) - DayLen]]

(* _renderHead at the clock's value now: per column its age label and the *)
(* endDate (now - age days) and startDate (a day earlier) of its title.    *)
(* Dates are kept as the instants formatDate prints.                       *)
HeadOf(now) ==
  [k \in 1..Window |-> [age  |-> HeadAges[k],
                        to   |-> now - DayLen * HeadAges[k],
                        from |-> now - DayLen * HeadAges[k] - DayLen]]

(* Mutant of RenderOf: the rows bucketed by a date taken once, when the   *)
(* page was loaded, instead of a new Date() per render.                    *)
RenderOfAtLoad(idx, now) ==
  LET buckets == getByServiceAndDateBucket(ByService(idx), Now)
  IN  [s \in Services |->
         IF s \notin DOMAIN buckets THEN NoRow
         ELSE highlightLast([k \in 1..Window |-> Cell(buckets[s], Columns[k])])]

(* _renderRows at the clock's value now: one row per service of            *)
(* getByServiceAndDateBucket(now), a cell per column, built afresh.        *)
RenderOf(idx, now) ==
  LET buckets == getByServiceAndDateBucket(ByService(idx), now)
  IN  [s \in Services |->
         IF s \notin DOMAIN buckets THEN NoRow
         ELSE highlightLast([k \in 1..Window |-> Cell(buckets[s], Columns[k])])]

(* render: empty the element, append the header, then the rows.  Each     *)
(* calls new Date() itself; the clock runs on while the header is built,  *)
(* so _renderRows reads it up to RenderGap later than _renderHead.         *)
render(idx, loaded) ==
  \E gap \in 0..RenderGap :
    /\ clock + gap =< MaxClock
    /\ head' = HeadOf(clock)
    /\ grid' = RenderOf(idx, clock + gap)
    /\ rowsNow' = clock + gap
    /\ clock' = clock + gap
    /\ disabledLabel' = isDisabled(loaded)

(* updateVerificationStatuses: every cell with a data-backup-id gets the   *)
(* class of its backup's best verification added to the ones it has.     *)
updateVerificationStatuses(g, vidx) ==
  [s \in Services |->
     IF g[s] = NoRow THEN NoRow
     ELSE [a \in DOMAIN g[s] |->
             IF g[s][a].id = NoBackup THEN g[s][a]
             ELSE [g[s][a] EXCEPT !.vclasses =
                     @ \cup {VerificationClass(getByBackupId(g[s][a].id, vidx))}]]]

Init ==
  /\ Backups!Init
  /\ Verifications!Init
  /\ servicesLoaded = FALSE
  /\ grid = [s \in Services |-> NoRow]
  /\ disabledLabel = [s \in Services |-> FALSE]
  /\ lastEvent = "none"
  /\ head = << >>
  /\ clock = Now
  /\ rowsNow = Now

(* A backups GET completes: set, onSync, "b:indexed" -> render.            *)
BackupsSynced(i) ==
  /\ Backups!Sync(i)
  /\ render(Backups!IndexView', servicesLoaded)
  /\ lastEvent' = "b:indexed"
  /\ UNCHANGED << vVars, servicesLoaded >>

(* A verifications GET completes: set, onSync, "v:indexed" -> decorate.    *)
VerificationsSynced(i) ==
  /\ Verifications!Sync(i)
  /\ grid' = updateVerificationStatuses(grid, Verifications!IndexView')
  /\ lastEvent' = "v:indexed"
  /\ UNCHANGED << bVars, servicesLoaded, clock, head, disabledLabel, rowsNow >>

(* Mutant of ServicesLoaded: nothing listens to "b:servicesLoaded", so    *)
(* the rows keep the labels of the render before the load.               *)
ServicesLoadedUnheard ==
  /\ ~servicesLoaded
  /\ servicesLoaded' = TRUE
  /\ UNCHANGED << bVars, vVars, gridVars, clock >>

(* The services collection is loaded: "b:servicesLoaded" -> render.       *)
ServicesLoaded ==
  /\ ~servicesLoaded
  /\ servicesLoaded' = TRUE
  /\ render(Backups!IndexView, TRUE)
  /\ lastEvent' = "b:servicesLoaded"
  /\ UNCHANGED << bVars, vVars >>

(* Time passes in the browser; no listener runs.                           *)
Tick ==
  /\ clock + ClockStep =< MaxClock
  /\ clock' = clock + ClockStep
  /\ UNCHANGED << bVars, vVars, servicesLoaded, gridVars >>

Next ==
  \/ Backups!Environment /\ UNCHANGED << vVars, servicesLoaded, gridVars, clock >>
  \/ Verifications!Environment /\ UNCHANGED << bVars, servicesLoaded, gridVars, clock >>
  \/ \E i \in 1..Len(bInflight) : BackupsSynced(i)
  \/ \E i \in 1..Len(vInflight) : VerificationsSynced(i)
  \/ ServicesLoaded
  \/ Tick

Spec == Init /\ [][Next]_vars

-----------------------------------------------------------------------------
Cells == [id : BIds \cup {NoBackup},
          state : BackupStates \cup {"Unknown"},
          glyph : {getGlyphForBackupState(x) : x \in BackupStates \cup {NoEntity}},
          active : BOOLEAN,
          vclasses : SUBSET {"FINISHED", "FAILED", "TIMEDOUT", "STARTED", "unknown"}]

TypeOK ==
  /\ Backups!TypeOK
  /\ Verifications!TypeOK
  /\ servicesLoaded \in BOOLEAN
  /\ grid \in [Services -> {NoRow} \cup [1..Window -> Cells]]
  /\ head \in {<< >>} \cup [1..Window -> [age : Ages, from : Int, to : Int]]
  /\ lastEvent \in {"none", "b:indexed", "v:indexed", "b:servicesLoaded"}
  /\ disabledLabel \in [Services -> BOOLEAN]
  /\ clock \in Now..MaxClock
  /\ rowsNow \in Now..MaxClock

RankOf(s) == CHOOSE k \in DOMAIN BackupPriority : BackupPriority[k] = s

(* A header column covers the instants its title spans: from startDate,  *)
(* exclusive, to endDate.  Titles print dates to the minute, so which end *)
(* an instant exactly a whole number of days old belongs to is not shown; *)
(* the bucket's half-open day is taken.                                    *)
Covers(col, t) == col.from < t /\ t =< col.to

(***************************************************************************)
(* The grid never hides a better backup the page knows of: for every       *)
(* backup in the backups collection, the column of its age in days at the *)
(* clock _renderRows read shows, in the backup's service row, a backup     *)
(* whose state ranks at least as high.  It needs onSync to index every     *)
(* collection model, the index objects to follow merges, the selector, and *)
(* a render on every "b:indexed".                                          *)
(***************************************************************************)
NoBetterBackupHidden ==
  \A b \in BIds : bModels[b] # Absent =>
    \A k \in DOMAIN head : DayBucket(rowsNow, Started[b]) = Columns[k] =>
      LET row == grid[Service[b]]
      IN  /\ row # NoRow
          /\ row[k].id # NoBackup
          /\ RankOf(row[k].state) =< RankOf(bModels[b])

(***************************************************************************)
(* Spec 4.1 and 4.4: the header describes the cells under it.  A cell     *)
(* shows only a backup started within the dates its column's title gives,  *)
(* give or take the time one render takes (RenderGap: _renderHead and     *)
(* _renderRows each call new Date()), a backup dated in the future is in   *)
(* no column, and the highlighted cell of a row is the one under the      *)
(* column labelled 0 (today).  Header and rows are built by separate code  *)
(* from separate clock readings and lists of ages; the clock moves during  *)
(* and between renders, and one backup is dated ahead of the clock.        *)
(***************************************************************************)
HeaderDescribesCells ==
  \A s \in Services : grid[s] # NoRow =>
    \A k \in DOMAIN grid[s] :
      /\ grid[s][k].active <=> head[k].age = 0
      /\ grid[s][k].id # NoBackup =>
           Covers([head[k] EXCEPT !.to = @ + RenderGap], Started[grid[s][k].id])

(***************************************************************************)
(* Right after "v:indexed" a backup with a FINISHED verification in the   *)
(* verifications collection is shown as verified: its cell carries the    *)
(* FINISHED class.  It needs Verifications.onSync to index every          *)
(* verification under its backupId, getByBackupId to rank FINISHED first *)
(* and updateVerificationStatuses to reach every cell showing a backup.   *)
(***************************************************************************)
FinishedVerificationShown ==
  lastEvent = "v:indexed" =>
    \A s \in Services : grid[s] # NoRow =>
      \A a \in DOMAIN grid[s] :
        LET b == grid[s][a].id
        IN  (b # NoBackup /\ \E v \in VIds : BackupOf[v] = b /\ vModels[v] = "FINISHED")
              => "FINISHED" \in grid[s][a].vclasses

(***************************************************************************)
(* Spec 4.1: reindexing fully replaces the prior index contents, so the    *)
(* index (what the views read) is exactly the backups collection.         *)
(***************************************************************************)
IndexMatchesCollection == Backups!IndexView = bModels

(***************************************************************************)
(* Spec 5: verification decorations are applied once verification data    *)
(* exists.  Once the verifications have been indexed, every cell showing   *)
(* a backup carries the class of that backup's best verification.         *)
(***************************************************************************)
VerificationStatusShown ==
  (\E v \in VIds : vIndexRef[v] # "none") =>
    \A s \in Services : grid[s] # NoRow =>
      \A a \in DOMAIN grid[s] :
        grid[s][a].id # NoBackup =>
          VerificationClass(getByBackupId(grid[s][a].id, Verifications!IndexView))
            \in grid[s][a].vclasses

(***************************************************************************)
(* Spec 4.4: a cell is augmented with the state of its backup's best      *)
(* verification.  Right after "v:indexed", a cell showing a backup carries *)
(* one verification class, that verification's, and no class left by an   *)
(* earlier "v:indexed".  updateVerificationStatuses only ever calls        *)
(* addClass.                                                               *)
(***************************************************************************)
OnlyCurrentVerificationClass ==
  lastEvent = "v:indexed" =>
    \A s \in Services : grid[s] # NoRow =>
      \A a \in DOMAIN grid[s] :
        grid[s][a].id # NoBackup =>
          grid[s][a].vclasses =
            {VerificationClass(getByBackupId(grid[s][a].id, Verifications!IndexView))}

(***************************************************************************)
(* Once the services collection is loaded, every row of the grid says      *)
(* whether its service's healthcheck is disabled, whichever of the backups *)
(* GET and the services load finished first.  It needs the render on      *)
(* "b:servicesLoaded" to relabel rows rendered before the load, and every *)
(* later render to read the loaded services.                              *)
(***************************************************************************)
DisabledServiceLabelled ==
  servicesLoaded =>
    \A s \in Services : grid[s] # NoRow => disabledLabel[s] = (s \in Disabled)

=============================================================================

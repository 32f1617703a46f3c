# TLA+ models of the backups dashboard (browser side)

The code under `src/backups-service/src/main/resources/assets/js/` is the
browser half of the backups service. It fetches backup and verification
records from the service's REST API, indexes them, and renders three pages:
a status grid, a history table and a detail page.

The code has no threads. All of its concurrency comes from one thing: the
backups, verifications and services GETs are independent and complete in any
order on the browser's single event loop. Each completion runs a whole chain
of listeners synchronously. So the models treat one completed GET, with
everything it triggers, as one atomic step.

## 1. Inventory

### Components, their state and operations

| Component | Source | State | Operations |
|---|---|---|---|
| Record models | `models/backup.js` 20-48, `models/verification.js` 20-47 | attributes of one record | `parse`: shortId, duration (completed - started, or browser now - started), Date conversion |
| Backups collection | `models/backup.js` 51-114 | the Backbone collection; `_indexByService`: service -> sub-collection of model objects | `initialize`; `onSync` (add every model to its service's sub-collection, trigger `b:indexed`); `getByService`; `getByServiceAndDateBucket(now)`; `getByServiceAndId` |
| Verifications collection | `models/verification.js` 50-85 | the collection; `_indexByBackupId` | `initialize`; `onSync` (trigger `v:indexed`); `getByBackupId` (best verification of a backup) |
| Selector | `b.js` 54-81 | none (pure) | `getStateBasedEntity`, `getStateBasedBackup`, `getStateBasedVerification` |
| Formatter | `b.js` 28-50, 96-141 | none (pure) | `getGlyphForBackupState`, `getLabelForAge`, `formatDate`, `niceifyDate`, `niceifySize`, `niceifyDuration` |
| Verification decoration | `b.js` 83-94, 143-164 | CSS classes and title of the DOM cells | `updateVerificationStatuses`, `extendElementTitleWithVerificationStatus` |
| Status grid | `views/status.js` | the DOM table | listeners on `b:indexed`, `b:servicesLoaded` (render) and `v:indexed` (decorate); `render` = empty + head + one row per indexed service |
| History view | `views/history.js` | the DOM panels | listeners on `b:indexed` (render, which appends) and `v:indexed` (decorate) |
| Detail view | `views/detail.js` | the DOM page; mutates the shared backup model (`chunks`, `status`, `htmlSize`...) | listeners on `b:indexed` (render, which appends) and `v:indexed` (decorate, append a verification-log link) |

These parts are in the repository but not under `src/`: the backend that
serves `/api/backup` and `/api/verification`, the services collection that
fires `b:servicesLoaded`, and the page bootstrap that creates the views and
calls `fetch()`. Backbone, underscore, jQuery, Mustache and moment are
libraries.

### How the components interact

```
 backend --GET--> Backups.set() --"sync"--> onSync --"b:indexed"--> StatusGrid.render / History.render / Detail.render
 backend --GET--> Verifications.set() --"sync"--> onSync --"v:indexed"--> updateVerificationStatuses (+ Detail link)
 services --"b:servicesLoaded"--> StatusGrid.render
 render reads getByServiceAndDateBucket(new Date()) + getStateBasedBackup
 decorate reads the cells' data-backup-id + Verifications.getByBackupId
```

The index holds model objects, not copies. Backbone's `set()` merges a
refreshed record into the existing object, so the index sees the change. It
removes records the response lacks from the collection, but not from the
index. Backbone's `add()` ignores a model whose id is already present.

### What is hard

* **Ordering of independent refreshes.** A render caused by `b:indexed` or
  `b:servicesLoaded` replaces the cells and loses the classes that an earlier
  `v:indexed` added.
* **Responses out of order.** If the bootstrap issues a GET while another is
  outstanding, a late old response can remove a record and a newer one re-add
  it as a new object. The index then keeps the old object for the rest of the
  page's life.
* **Deletion and staleness.** `onSync` never clears the index.
* **Accumulation.** Classes, titles, history panels and detail links are
  appended on every event, never replaced.
* **Clocks.** Age buckets and durations mix the browser's clock with the
  server's timestamps, so negative ages and negative durations are possible.
* **Numeric edges** in the formatters: the unit boundary in `niceifySize`,
  negative input to `niceifyDuration`.

### What makes each component correct

* Selector: the record it returns has the best ranked state present. Among
  records with that state it is the most recent, or undefined when no state
  is ranked.
* Collections: the index is the collection grouped by key, and each entry
  carries the collection's current attributes (spec 4.1).
* Status grid: no backup the page knows of is hidden behind a worse one. Once
  verification data exists, every cell shows exactly its backup's best
  verification (spec 4.4, 5).
* Formatter: the spec's values (section 8), non-negative durations, and a
  mantissa below 1024.
* History and detail: one copy of each panel and link per page, and no
  exception in a listener.

## 2. Plan

The order follows importance: the event-driven core first, then the pure
parts, then the remaining views.

1. `Selector.tla`, checked by `MCAlgorithms.tla`: the pure selection rule,
   checked against a reference definition. **Done.**
2. `SyncedCollection.tla`: one generic Backbone collection with its sync
   index. The backend and the bootstrap are its environment. **Done.**
3. `StatusGrid.tla` with `MCStatusGrid.tla`: composes two instances of
   SyncedCollection (backups keyed by service, verifications keyed by
   backupId) with the status grid, its header and its decoration. **Done**,
   except the title text.
4. `Formatter.tla`, checked by `MCAlgorithms.tla`: `niceifySize` (RECURSIVE unit loop,
   `toFixed(1)` as round-half-up on exact binary fractions), `niceifyDuration`,
   and `parse`'s duration. **Done.** The glyph table is a table in
   `Selector.tla`, used by the cells and rows of the three views. Left:
   feeding parse's duration into niceifyDuration in the history model.
5. A clock extension of StatusGrid: the browser's clock becomes a variable
   that advances, and a start time lies in the future. The day bucket
   becomes its own module, `AgeBuckets.tla`, checked at millisecond values.
   **Done.**
6. `HistoryView.tla` and `DetailView.tla`, composed with SyncedCollection the
   same way, with the decoration helpers factored into `Decoration.tla`.
   **Done.** The title text is modelled there as a sequence of verification
   lines, and the detail page's panel clicks as actions on every copy.
7. An abstract specification `IndexedCollection`, with SyncedCollection
   checked against it through `INSTANCE ... WITH`. **Done.** It uses the
   weaker promise the code keeps: the collection is laid over the previous
   index. Spec 4.1's full replacement is what `grid_stale_index` refutes.

## 3. Modules

### Selector.tla (b.js 54-81)

The pure operators `SortByStartedDesc` (underscore's stable `sortBy` on
`-startedDate`), `GroupByState`, `getStateBasedEntity`, and the two priority
lists. An entity is a record `[state, started, ...]`. Other fields pass
through unchanged.

### SyncedCollection.tla (models/backup.js 51-77, verification.js 50-74)

State:

* `server[id]`: the backend's record. It is abstracted to the record's state,
  or `Absent`, or `Gone` once deleted.
* `inflight`: the responses of outstanding GETs, each a snapshot of the
  server taken when the GET is issued.
* `models[id]`: the collection.
* `indexRef[id]`: one of `"none"`, `"live"` (the index shares the
  collection's object) or `"stale"` (the index holds an object the collection
  dropped).
* `frozen[id]`: the last attributes of a stale object.

A record's key (service or backupId) and its start time are constants of its
id, because the server never changes them.

Actions:

* `ServerPut` and `ServerDelete`: the backend (spec_modelled).
* `Fetch` and `FetchFails`: the bootstrap's `fetch()` and its error path.
* `Sync(i)`: Backbone `set()` of the i-th response followed by `onSync`.

`IndexView` is what `getByService` returns, as the views read it.

### Formatter.tla (b.js 111-141, models/backup.js 36-44)

Pure operators:

* `UnitSteps`: the `while (bytes >= 1024)` loop, as a RECURSIVE operator.
* `ToFixed1`: `toFixed(1)` in tenths.
* `niceifySize`: the tenths printed and the unit.
* `niceifyDuration`: the printed `<<value, unit>>` components, using floor
  division as `Math.floor` does.
* `ParseDuration`: the duration `parse` computes, in ms.

`spec.md` section 8 gives `niceifyDuration(90)` as "1m". The code prints
every non-zero component, so 90 s is "1m 30s". `DurationComponentsExact`
follows the code, and this disagreement is not kept as a run because it is
pure text.

`MCAlgorithms` checks the pure operators of Selector, Formatter and
AgeBuckets. Its initial states are every call over the bounded inputs, and
its one step marks the call done, so the state count grows linearly with the
inputs. Each call is checked against a reference definition that does not
loop:

* for `getStateBasedEntity`, a record of the best rank present that is at
  least as recent as every record of that rank;

* the largest unit not above the size;
* the nearest tenth, with halves rounded up;
* a total of hours, minutes and seconds that equals the whole seconds.

### StatusGrid.tla (views/status.js, b.js 143-164, verification.js 76-84)

Instantiates SyncedCollection twice. `grid[service]` is `NoRow` or a row: a
function from column (1 to 14, oldest first) to a cell `[id, state, glyph,
active, vclasses]`. `head` is the header: per column, its age and the day
range `(from, to]` that `_renderHead` prints. `lastEvent` is a history variable
recording the notification that last changed the grid.

* `BackupsSynced(i)`: `Sync` followed by `render`.
* `VerificationsSynced(i)`: `Sync` followed by `updateVerificationStatuses`.
* `ServicesLoaded`: `render`.

`render` is `$el.empty()`, `_renderHead` and `_renderRows`, as one step.
`_renderHead` and `_renderRows` each build the age list
(`_.range(0, 14).reverse()`, `HeadAges` and `Columns`) and each call
`new Date()`. Time passes while the header is built, so the rows read the
clock up to `RenderGap` later than the header did: `render` chooses that
gap, advances the clock by it, and records the rows' reading in the history
variable `rowsNow`. `highlightLast` marks the right-most cell `active`.

Each is one event-loop task.

`clock` is the browser's clock. It starts at `Now` and `Tick` advances it
by `ClockStep` up to `MaxClock`; no listener runs on a tick. Each render
computes the header's day ranges from the clock, then buckets the indexed
backups with `getByServiceAndDateBucket` of AgeBuckets at the rows' own,
possibly later, reading. A cell also carries the glyph
of its best backup's state (`getGlyphForBackupState`). `disabledLabel[s]` is
the "(disabled)" label of a row. It is set only when the services collection
is loaded and the service is in the constant `Disabled` (its
`disableHealthcheck`), because `services.get(service)` is undefined before
the load.

### AgeBuckets.tla (models/backup.js 79-102, b.js 52)

`DayBucket(now, started)` is `Math.floor((now - started) / DAY_IN_MILLISECONDS)`.
`\div` is floor division for a positive divisor, so a future date gives a
negative bucket. `getByServiceAndDateBucket(byService, now)` builds
service -> day -> list, creating a service entry and a bucket only for a
backup that lands there, and keeping the sub-collection's order in each
bucket. `DayLen` is a constant. It is 86,400,000 in the algorithms run and 10
(tenths of a day) in the grid runs.

### IndexedCollection.tla (models/backup.js 54-73)

This is the abstract specification of a collection and its index. Its state
is `coll` and `index`, and it has one action, `Refresh(c)`:

* the collection becomes the response `c`;
* every record of `c` is indexed with its current attributes;
* every other entry keeps what it had.

`SyncedCollection` defines the refinement mapping as
`Abstract == INSTANCE IndexedCollection WITH coll <- models,
index <- IndexView`. Server changes, failed GETs and issuing a GET are
stuttering steps of the abstract specification.

This only holds while GETs do not overlap. With overlap, an old response can
re-add a record as a new object that the index never picks up. Since the
server never reuses an id, that cannot happen with one GET at a time.

### Decoration.tla (b.js 83-94, 143-164, verification.js 76-84)

The operators that all three views use when `v:indexed` fires:

* `getByBackupId`: the best indexed verification of a backup, or undefined.
* `VerificationClass`: the `verification-*` class added for it.
* `extendElementTitleWithVerificationStatus`: appends one verification line
  to a title, or nothing for undefined. A title is the sequence of the
  verification states appended to it. The constant backup line is left out.
* `DecorateElement`: one pass of `updateVerificationStatuses`' loop body.

### HistoryView.tla (views/history.js)

Instantiates SyncedCollection twice, like StatusGrid. `panels` is the
element's content: every panel ever appended, each `[service, rows]`, and a
row `[id, state, vclasses, title]`.

* `BackupsSynced(i)`: `Sync`, then `render`. It **appends** one panel per
  indexed service, with rows sorted by `startedDate` and then reversed.
* `VerificationsSynced(i)`: `Sync`, then `DecorateElement` on every row of
  every panel. This is what `this.$(".i-backup-status")` selects.

### DetailView.tla (views/detail.js, models/backup.js 104-113)

The page of one backup `PageId`. `page` is every copy of the template ever
appended. A copy records:

* the state it shows;
* its verification-log links;
* its decorated status span;
* per file panel it lists, whether the panel is open (`panels`).

`prepared[o]` records whether an object's `chunks` attribute already holds
the view's list. `o` is either `"live"` (the collection's object) or
`"stale"` (the removed object the index kept). `threw` records that a
`b:indexed` listener threw.

* `BackupsSynced(i)`: `Sync`, then `render`. `getByServiceAndId` finds the
  indexed object and `prepareModelData` rewrites its chunks. The copy is then
  appended.
* `BackupsSyncedRenderThrows(i)`: `Sync`, then a `TypeError`. Either
  `getByServiceAndId` or `backupData.get` raises it because the backup is
  not indexed, or `prepareModelData` raises it on an object whose chunks it
  already rewrote. Run on its own view list, it takes each
  `{chunks, filename}` entry for a file's chunk list and calls `niceifySize`
  on undefined sizes, and `toFixed` of undefined throws (`b.js` 120). With
  no files the list is empty and nothing throws. `Preparable` is the guard
  between the two actions.
* `VerificationsSynced(i)`: `Sync`, then decorate every copy. After that,
  `updateVerificationView` appends a link to every `.b-details`.

* `Click`: one click of the user, bounded by `MaxClicks`. `CollapseFile(k, f)`
  is `_collapseFile` on the heading of panel `f` in copy `k`: it toggles
  `[data-filename=f]` in **every** copy, because `this.$el` holds them all.
  `ExpandAllFiles(k)` and `CollapseAllFiles(k)` are the two controls, which
  are rendered once per file and act on every `.panel-collapse` of the page.
  Bootstrap's collapse animation is left out: a toggle takes effect at once.

A merge from a response puts the server's chunks back, so the collection's
object is always unprepared after a sync. Only a stale object can be
prepared twice without a merge in between, and then the listener throws.

## 4. Runs

| Run | Expect | Shows |
|---|---|---|
| `algorithms` (`MCAlgorithms.cfg`) | pass | `RepresentativeIsBest`: every list of up to 4 records over the 6 backup states, STARTED and "N/A" (a state in no list), with 2 start times so that ties occur (69,905 lists). `SizeShownToNearestTenth`, `DurationComponentsExact`, `BucketsAreFloorDaysInOrder`. Inputs: every size from 1000 to 1100 bytes, plus the boundaries near 1 KB, 1 MB and 64 MB and the rounding ties (1280 bytes prints as 1.3 KB). Durations: quarter seconds up to 10 s, plus the minute and hour boundaries. Bucketing: two services with up to 2 backups each, at ages of one day ahead, 1 ms ahead, 0, 1 ms, both sides of 1 day and both sides of 14 days, at two values of now, in real milliseconds. The bucketing is compared with a reference that finds the day d with d days <= age < d + 1 days. About 86.7K calls in all, 5 s. |
| `formatter_clock_skew` (`MCAlgorithms_Skew.cfg`) | violation | `DurationNonNegative`: a running record whose startedDate is ahead of the browser's clock gets a negative duration (spec 3), which niceifyDuration prints as e.g. "59m 59s". |
| `grid_backups` (`MCStatusGrid_Backups.cfg`) | pass | `TypeOK`, `NoBetterBackupHidden`, `HeaderDescribesCells`, `DisabledServiceLabelled`. `NoBetterBackupHidden` says that for every backup the collection holds, the column of its age at the rows' clock reading shows a backup at least as good. `HeaderDescribesCells` says that the active cell is the column the header labels age 0, and that every cell's backup started inside its column's header range, widened at the recent end by the render's duration `RenderGap`. Without that allowance TLC finds the property violated: a render that straddles b2's day boundary puts b2 under a header that ends before b2 started. 3 backups, 2 of them in the same service and bucket, and the third dated 0.3 day ahead of the page's load. The clock may move once, across a day boundary, and by 1 during a render. 2 server changes including deletions, 3 GETs, one outstanding at a time. About 1.65M states, 90 s. |
| `grid_verifications` (`MCStatusGrid_Verifications.cfg`) | pass | `FinishedVerificationShown`. 1 backup with 2 verifications, 2 server changes, 3 GETs per collection. About 2.5M states, 90 s. |
| `grid_overlapping_fetches` | violation | `NoBetterBackupHidden` with two GETs outstanding. An old response removes b1, and a newer one re-adds it as a new object that the index never picks up. The cell is stuck at RECEIVING while the collection says FINISHED. |
| `grid_stale_index` | violation | `IndexMatchesCollection`: a backup deleted on the server stays indexed (spec 4.1 says the index is replaced). |
| `grid_lost_decoration` | violation | `VerificationStatusShown`: `v:indexed` and then `b:indexed` leave the cells undecorated (spec 5). |
| `grid_stacked_classes` | violation | `OnlyCurrentVerificationClass`: a `v:indexed` without verifications marks the cell `verification-unknown`. A later one, after v1 finished, adds `verification-finished` next to it, because `updateVerificationStatuses` only adds classes (spec 4.4: the cell shows the best verification's state). |
| `history` (`MCHistoryView.cfg`) | pass | `HistoryShowsCollection`, `TitleNamesCurrentVerification`, and the PROPERTY `BackupsImplementIndexedCollection` (the refinement). Two backups of one service with different start times and one verification. 2 server changes and 2 GETs per collection. About 490K states, 10 s. |
| `detail` (`MCDetailView.cfg`) | pass | `DetailShowsCurrentState`, `LinkNamesBestVerification`. The page's backup has a sibling in its service and two verifications, and one file. Backup states RECEIVING and FINISHED. 2 server changes, 2 GETs per collection and one click. About 3.8M states, 2 min. |
| `detail_render_throws` | violation | `RenderNeverThrows`: the first backups response lacks the page's backup, and the `b:indexed` listener throws a `TypeError`. The same property catches the second way to throw: render, delete on the server, then one more backups GET. The index keeps the removed object, whose chunks are already the view's list, and `prepareModelData` fails on it. |
| `detail_click_scope` | violation | `ClickChangesOnlyItsCopy` (an action property): two backups GETs append two copies of the page, and a click on the heading of "db.tar" in one copy opens it in the other as well. |

### Behaviour that follows directly from the append-only code

These behaviours are certain after two events of the same kind. TLC
exhibited each of them while the models were built. They are not kept as
runs, so that the run list holds the violations that need an interleaving to
show:

* The grid buckets the backups only when it renders. When the clock alone
  crosses a day boundary, every cell stays a day behind until the next
  `b:indexed` or `b:servicesLoaded`. `NoBetterBackupHidden` therefore
  uses the rows' clock reading, and `HeaderDescribesCells` the header that
  the same render drew. The mutant that buckets by the page-load time breaks
  `NoBetterBackupHidden`.
* `extendElementTitleWithVerificationStatus` adds a title line per
  `v:indexed`, so titles grow on a page that refreshes.
* The history view appends every panel on each `b:indexed`.
* The detail view appends a copy on each `b:indexed` and a link per
  `v:indexed`. If `v:indexed` comes before the first render, the link is
  lost, as the status grid's decorations are in `grid_lost_decoration`.

The passing properties `HistoryShowsCollection`,
`TitleNamesCurrentVerification` and `LinkNamesBestVerification` check that
the newest content on the page is right despite this accumulation.

Each passing property has a mutant (PROJECT.json) that TLC must catch:

* an ascending sort;
* `while (bytes > 1024)` in niceifySize;
* minutes in niceifyDuration computed without subtracting the hours;
* onSync filling a key's sub-collection only when it creates it;
* a cell without the "Unknown" fallback;
* the header's ages not reversed, so the header labels the columns newest
  first while the rows run oldest first;
* the grid bucketed by the clock at page load instead of at each render;
* the day bucket truncated toward zero instead of floored (in the
  algorithms run);
* nothing listening to `b:servicesLoaded`;
* STARTED ranked above FINISHED;
* history rows sorted without the `.reverse()`;
* the title line joined in front of the old title;
* onSync filling a key's sub-collection only when it creates it, again for
  the detail page and for the refinement;
* the verification link appended to the newest `.b-details` only.

### Bounds

* **Two backups in one service and bucket.** This makes the selector choose
  between them.
* **A third backup in another service.** It gives a second row.
* **Three backup states** (RECEIVING, FINISHED, FAILED). These are the top,
  middle and bottom of the priority list.
* **Three server changes.** Enough to create, change and delete a record.
  `grid_backups` uses two: create and change, or create and delete.
* **Clock.** In `grid_backups` the page loads at 3.0 days and the clock
  may move to 3.5 days. That moves b1 and b2 from bucket 1 to bucket 2, and
  the future-dated b3 from bucket -1 to bucket 0. A render may take 0.1 day
  (`RenderGap = 1`). b2 starts at 1.1 days, so it is 1.9 days old at load,
  and a render at load can cross its day boundary between header and rows. The other grid runs keep
  the clock fixed (`MaxClock = Now`, `RenderGap = 0`), because their questions do not
  involve time.
* **Three GETs.** Enough for a refresh after a change after a refresh.
* **Verification states** STARTED, FINISHED and FAILED. Two verifications of
  one backup make getByBackupId choose.

* **History:** two backups of one service with different start times, so
  the row order is visible, and one verification whose state can change
  twice. Two GETs per collection are enough for a second panel and a second
  title line.
* **Detail:** one file, so each copy has one panel, and one click: the
  clicks change only the panels, which the run's two properties do not
  read, so one click is enough to fire each handler. FAILED is left out of
  the backup states to keep the run within a few minutes; the state
  properties need a change of state, not a third state.
  The page's backup has a sibling in the same service. The
  sibling lets the service's sub-collection exist while the page's backup
  is missing, which is the second way `getByServiceAndId` fails. Two
  verifications of the backup let the best one change.

Each violation above appears within 9 steps, well inside these bounds.

### Fairness and deadlock

No run states liveness. The code schedules nothing by itself, so it gives no
reason to assume a GET is ever issued or answered. Every refresh comes from
the bootstrap, which is not under `src/`. For the same reason the runs set
`CHECK_DEADLOCK FALSE`: a page with no outstanding GET and no further events
really does sit idle.

## 5. Not modelled, and why

* The format of dates (`formatDate`, `niceifyDate`, moment.js), the age
  labels (`getLabelForAge`) and the Mustache templates. The header row is
  modelled by the numbers it prints. The rest only produce text, and no property
  distinguishes them. Note that `formatDate` uses moment's `hh`, a 12-hour
  clock with no am/pm marker. Spec 4.3 asks for 24-hour time. This is left
  unchecked because it is pure formatting.
* Bootstrap's collapse animation. A toggle on a panel still moving is
  ignored by Bootstrap; the model lets every toggle take effect at once.
* The duration a history row shows for a running backup goes stale until the
  next GET (`models/backup.js` 42). The history model keeps no durations, so
  no run checks it.
* Backbone versions before 1.0, where `fetch` resets the collection instead
  of merging. The models assume Backbone 1.x `set()` semantics, which the
  `"sync"` listener signature suggests.

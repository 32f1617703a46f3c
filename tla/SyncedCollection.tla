-------------------------- MODULE SyncedCollection --------------------------
(***************************************************************************)
(* A Backbone collection refreshed from a REST resource, with the index    *)
(* its "sync" listener keeps: B.Collection.Backups (_indexByService, key   *)
(* = service) and B.Collection.Verifications (_indexByBackupId, key =      *)
(* backupId).  A record is abstracted to its state; its key and start time *)
(* never change on the server, so they are constants of the id.            *)
(*                                                                         *)
(* Backbone (1.x, not part of this repository) is modelled by what it      *)
(* does: fetch() issues a GET; on success set() merges the parsed response *)
(* into the collection (add new ids, merge into the existing model object, *)
(* remove ids the response lacks) and then triggers "sync", whose listener *)
(* onSync runs in the same event-loop task.  A failed GET triggers no      *)
(* "sync" at all.                                                          *)
(*                                                                         *)
(* The index holds model OBJECTS.  As long as an id stays in the           *)
(* collection the index shares its object and sees every merge ("live").   *)
(* onSync never clears the index, so an object removed from the           *)
(* collection stays indexed with its last attributes ("stale"); and        *)
(* Backbone's add() skips a model whose id is already present, so an id    *)
(* that comes back as a new object is never re-indexed.                    *)
(***************************************************************************)
EXTENDS Integers, Sequences, SequencesExt

CONSTANTS
  Ids,             \* record ids
  States,          \* states the server may give a record
  InitStates,      \* states a record may have when the dashboard loads
  KeyOf,           \* KeyOf[id]: the index key of the record
  Absent,          \* no record with this id
  Gone,            \* server side: the record has been deleted
  MaxServerSteps,  \* bound on server-side changes
  MaxFetches,      \* bound on GET requests issued
  MaxInFlight      \* bound on GET requests outstanding at once

VARIABLES
  server,       \* server[id] \in States \cup {Absent, Gone}
  serverSteps,  \* server-side changes so far
  inflight,     \* responses of outstanding GETs, in the order issued
  fetches,      \* GETs issued so far
  models,       \* models[id]: state of the collection's model, or Absent
  indexRef,     \* indexRef[id] \in {"none", "live", "stale"}
  frozen        \* frozen[id]: attributes of a stale indexed object

vars == << server, serverSteps, inflight, fetches, models, indexRef, frozen >>

Record == States \cup {Absent}

(* The body of GET /api/...: every record the server holds.                *)
Snapshot == [id \in Ids |-> IF server[id] = Gone THEN Absent ELSE server[id]]

(* The index as the views read it: the attributes of the indexed object.  *)
IndexView ==
  [id \in Ids |-> CASE indexRef[id] = "live"  -> models[id]
                    [] indexRef[id] = "stale" -> frozen[id]
                    [] OTHER                  -> Absent]

(* initialize: an empty collection and this._indexByX = {}                 *)
Init ==
  /\ server \in [Ids -> InitStates \cup {Absent}]
  /\ serverSteps = 0
  /\ inflight = << >>
  /\ fetches = 0
  /\ models = [id \in Ids |-> Absent]
  /\ indexRef = [id \in Ids |-> "none"]
  /\ frozen = [id \in Ids |-> Absent]

(* Server side (the backend, not modelled): a record is created or changes  *)
(* state, or is deleted for good (ids are never reused).                   *)
ServerPut(id, s) ==
  /\ serverSteps < MaxServerSteps
  /\ server[id] \notin {Gone, s}
  /\ server' = [server EXCEPT ![id] = s]
  /\ serverSteps' = serverSteps + 1
  /\ UNCHANGED << inflight, fetches, models, indexRef, frozen >>

ServerDelete(id) ==
  /\ serverSteps < MaxServerSteps
  /\ server[id] \in States
  /\ server' = [server EXCEPT ![id] = Gone]
  /\ serverSteps' = serverSteps + 1
  /\ UNCHANGED << inflight, fetches, models, indexRef, frozen >>

(* collection.fetch(): the server answers with its records at this point. *)
Fetch ==
  /\ fetches < MaxFetches
  /\ Len(inflight) < MaxInFlight
  /\ inflight' = Append(inflight, Snapshot)
  /\ fetches' = fetches + 1
  /\ UNCHANGED << server, serverSteps, models, indexRef, frozen >>

(* The GET fails: Backbone calls the error callback, no "sync" fires.      *)
FetchFails(i) ==
  /\ inflight' = RemoveAt(inflight, i)
  /\ UNCHANGED << server, serverSteps, fetches, models, indexRef, frozen >>

(***************************************************************************)
(* Mutant of Sync: the key's sub-collection is filled only when onSync     *)
(* creates it, so a record of an already indexed key is never indexed.    *)
(***************************************************************************)
SyncAddsOnlyNewKeys(i) ==
  LET resp == inflight[i]
      keyIndexed(id) == \E o \in Ids : KeyOf[o] = KeyOf[id] /\ indexRef[o] # "none"
  IN  /\ models' = resp
      /\ indexRef' =
           [id \in Ids |->
              IF resp[id] # Absent /\ indexRef[id] = "none" /\ ~keyIndexed(id)
                 THEN "live"
              ELSE IF resp[id] = Absent /\ indexRef[id] = "live" THEN "stale"
              ELSE indexRef[id]]
      /\ frozen' = [id \in Ids |-> IF resp[id] = Absent /\ indexRef[id] = "live"
                                   THEN models[id] ELSE frozen[id]]
      /\ inflight' = RemoveAt(inflight, i)
      /\ UNCHANGED << server, serverSteps, fetches >>

(***************************************************************************)
(* The i-th outstanding GET succeeds.  set(): the collection becomes the   *)
(* response (parse + add/merge/remove).  Then "sync" -> onSync: for every  *)
(* model of the collection, create the key's sub-collection if missing and *)
(* add() the model, which is a no-op when its id is already indexed.       *)
(* Objects removed by set() stay in the index with their last attributes. *)
(* The caller adds what "b:indexed" / "v:indexed" triggers.               *)
(***************************************************************************)
Sync(i) ==
  LET resp == inflight[i]
  IN  /\ models' = resp
      /\ indexRef' =
           [id \in Ids |->
              IF resp[id] # Absent /\ indexRef[id] = "none" THEN "live"
              ELSE IF resp[id] = Absent /\ indexRef[id] = "live" THEN "stale"
              ELSE indexRef[id]]
      /\ frozen' = [id \in Ids |-> IF resp[id] = Absent /\ indexRef[id] = "live"
                                   THEN models[id] ELSE frozen[id]]
      /\ inflight' = RemoveAt(inflight, i)
      /\ UNCHANGED << server, serverSteps, fetches >>

Environment ==
  \/ \E id \in Ids, s \in States : ServerPut(id, s)
  \/ \E id \in Ids : ServerDelete(id)
  \/ Fetch
  \/ \E i \in 1..Len(inflight) : FetchFails(i)

(* The refinement mapping: IndexedCollection's collection is the Backbone *)
(* collection, its index what the views read through the index.           *)
Abstract == INSTANCE IndexedCollection WITH coll <- models, index <- IndexView

TypeOK ==
  /\ server \in [Ids -> States \cup {Absent, Gone}]
  /\ serverSteps \in 0..MaxServerSteps
  /\ inflight \in Seq([Ids -> Record])
  /\ fetches \in 0..MaxFetches
  /\ models \in [Ids -> Record]
  /\ indexRef \in [Ids -> {"none", "live", "stale"}]
  /\ frozen \in [Ids -> Record]

=============================================================================

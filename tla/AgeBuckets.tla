------------------------------ MODULE AgeBuckets ------------------------------
(***************************************************************************)
(* Backups.getByServiceAndDateBucket(now) (models/backup.js): the backups  *)
(* of getByService(), slotted per service into buckets keyed by their age  *)
(* in whole days.  A backup is kept as its startedDate in milliseconds;    *)
(* the service index is a function from service to the list of its        *)
(* backups in the order the sub-collection holds them.                     *)
(***************************************************************************)
EXTENDS Integers, Sequences

CONSTANT DayLen   \* DAY_IN_MILLISECONDS (b.js), in the model's time unit

ASSUME DayLen \in Nat \ {0}

(* Mutant of DayBucket: the quotient truncated toward zero (~~ or          *)
(* parseInt instead of Math.floor), so a backup dated less than a day in  *)
(* the future lands in bucket 0.                                           *)
DayBucketTruncated(now, started) ==
  IF now - started < 0 THEN -((started - now) \div DayLen)
  ELSE (now - started) \div DayLen

(* Math.floor((now.getTime() - date.getTime()) / DAY_IN_MILLISECONDS).     *)
(* \div is floor division for a positive divisor, so a future date gives  *)
(* a negative bucket, which is kept.                                       *)
DayBucket(now, started) == (now - started) \div DayLen

(***************************************************************************)
(* getByServiceAndDateBucket(now) over a service index byService: a        *)
(* service gets an object as soon as one of its backups is visited (an    *)
(* indexed service always has one), a bucket an array as soon as one of    *)
(* its backups is; push keeps the sub-collection's order in the bucket.   *)
(***************************************************************************)
getByServiceAndDateBucket(byService, now) ==
  [s \in {t \in DOMAIN byService : byService[t] # << >>} |->
     LET days == {DayBucket(now, byService[s][k].started) : k \in DOMAIN byService[s]}
     IN  [d \in days |->
            SelectSeq(byService[s], LAMBDA b : DayBucket(now, b.started) = d)]]

=============================================================================

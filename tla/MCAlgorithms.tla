--------------------------- MODULE MCAlgorithms ---------------------------
(***************************************************************************)
(* Checks the pure operators of the dashboard against reference           *)
(* definitions over bounded inputs: the selector, the formatters and the  *)
(* age bucketing.  The variable holds one call, its function and its      *)
(* argument.  Every call is an initial state and one step ends the check,  *)
(* so every input is checked once.                                         *)
(***************************************************************************)
EXTENDS Formatter, AgeBuckets, Selector

CONSTANTS
  Sizes,       \* byte counts for niceifySize
  Durations,   \* durations in ms for niceifyDuration
  StartTimes,  \* server startedDate values
  EndTimes,    \* server completedDate values (NoDate: still running)
  ClockTimes,  \* the browser's clock when parse runs
  BucketNows,  \* the now passed to getByServiceAndDateBucket
  Ages,        \* now - startedDate of the backups bucketed
  Services,    \* services of the index
  MaxPerService, \* longest sub-collection bucketed
  States,      \* states a selected record may carry, including ones in no list
  Times,       \* start times of selected records; few, so that ties occur
  MaxLen       \* longest record list handed to the selector

Records == {r \in [started : StartTimes, completed : EndTimes, now : ClockTimes] :
              r.completed \in {NoDate} \cup {t \in EndTimes \ {NoDate} : t >= r.started}}

(* A service index: per service, its backups (their startedDates) in the  *)
(* sub-collection's order (empty: the service has no entry).              *)
Indexes(now) ==
  [Services -> UNION {[1..n -> [started : {now - a : a \in Ages}]] : n \in 0..MaxPerService}]

(* Every list of up to MaxLen records over States x Times.                 *)
Lists == UNION {[1..n -> [state : States, started : Times]] : n \in 0..MaxLen}

Calls == [fn : {"select"}, arg : Lists]
         \cup [fn : {"size"}, arg : Sizes]
         \cup [fn : {"duration"}, arg : Durations]
         \cup [fn : {"parse"}, arg : Records]
         \cup UNION {[fn : {"bucket"}, arg : [now : {n}, byService : Indexes(n)]] :
                     n \in BucketNows}

(* Inputs: every size around the 1 KB boundary, and the boundaries of the  *)
(* units, of toFixed's rounding and of the unit step near 1 MB and 64 MB. *)
MCSizes == (1000..1100) \cup
  {0, 1, 1280, 1536, 2047, 2048, 10239, 10240, 102348, 102349, 1047552,
   1048063, 1048064, 1048575, 1048576, 1101004, 1101005, 1572864, 67108863}

(* Inputs: quarter seconds up to 10 s, and the minute and hour boundaries. *)
MCDurations == {k * 250 : k \in 0..40} \cup
  {59999, 60000, 90000, 3599999, 3600000, 3660000, 3661000, 3661999,
   86399000, 90061000}

(* Ages: a day in the future, just in the future, now, and both sides of  *)
(* the 1-day and the 14-day boundaries, in ms.                            *)
MCAges == {-86400000, -1, 0, 1, 86399999, 86400000, 86400001,
           1209599999, 1209600000}

VARIABLE call

Init == call \in Calls

(* The call has been checked.                                              *)
Done == call.fn # "done" /\ call' = [fn |-> "done"]

Next == Done
Spec == Init /\ [][Next]_call

(* Reference definition: position of a state in a priority list.          *)
RankIn(s, states) == CHOOSE k \in DOMAIN states : states[k] = s

(* Record i is at least as good as record j under the priority list.      *)
AtLeastAsGood(ents, states, i, j) ==
  LET ri == RankIn(ents[i].state, states)
      rj == RankIn(ents[j].state, states)
  IN  \/ ri < rj
      \/ ri = rj /\ ents[i].started > ents[j].started
      \/ ri = rj /\ ents[i].started = ents[j].started /\ i =< j

Reference(ents, states) ==
  LET ranked == {i \in DOMAIN ents :
                   \E k \in DOMAIN states : states[k] = ents[i].state}
  IN  IF ranked = {} THEN NoEntity
      ELSE ents[CHOOSE i \in ranked :
                  \A j \in ranked : AtLeastAsGood(ents, states, i, j)]

(***************************************************************************)
(* getStateBasedBackup and getStateBasedVerification return the best       *)
(* ranked, most recently started record of a list, or undefined when no    *)
(* record's state is ranked (the empty list included).                     *)
(***************************************************************************)
RepresentativeIsBest ==
  \A states \in {BackupPriority, VerificationPriority} :
    call.fn = "select" =>
      getStateBasedEntity(call.arg, states) = Reference(call.arg, states)

AbsVal(x) == IF x < 0 THEN -x ELSE x

(* Reference: the largest unit whose size in bytes is at most size.  TLC  *)
(* integers are 32-bit, so Sizes stay below 1024^3 and units up to GB are *)
(* the candidates.                                                         *)
RefUnit(size) == CHOOSE i \in 0..3 : (1024^i =< size \/ i = 0)
                   /\ \A j \in 0..3 : 1024^j =< size => j =< i

(* Reference: the tenths nearest 10 * size / den, the larger on a tie.     *)
RefTenths(size, den) ==
  LET near(n) == 2 * AbsVal(n * den - 10 * size) =< den
  IN  CHOOSE n \in 0..((10 * size) \div den + 1) :
        near(n) /\ \A m \in 0..((10 * size) \div den + 1) : near(m) => m =< n

(***************************************************************************)
(* niceifySize prints the size in the largest unit not above it, rounded   *)
(* to the nearest tenth (halves up), e.g. 0 -> "0.0 B", 1024 -> "1.0 KB",  *)
(* 1536 -> "1.5 KB".                                                       *)
(***************************************************************************)
SizeShownToNearestTenth ==
  call.fn = "size" =>
    LET i == RefUnit(call.arg)
    IN  niceifySize(call.arg) = [tenths |-> RefTenths(call.arg, 1024^i),
                                 unit |-> Units[i + 1]]

(***************************************************************************)
(* For a duration >= 0, niceifyDuration prints whole hours, minutes < 60   *)
(* and seconds < 60 whose total is the whole seconds of the duration,      *)
(* leaving out zero parts: 0 -> "", 90 s -> "1m 30s", 3661 s -> "1h 1m 1s". *)
(***************************************************************************)
DurationComponentsExact ==
  call.fn = "duration" /\ call.arg >= 0 =>
    LET parts == niceifyDuration(call.arg)
        weight == [u \in {"h", "m", "s"} |-> CASE u = "h" -> 3600
                                               [] u = "m" -> 60
                                               [] u = "s" -> 1]
        total == LET RECURSIVE Sum(_)
                     Sum(k) == IF k = 0 THEN 0
                               ELSE parts[k][1] * weight[parts[k][2]] + Sum(k - 1)
                 IN  Sum(Len(parts))
    IN  /\ total = call.arg \div 1000
        /\ \A k \in DOMAIN parts : parts[k][1] > 0
        /\ \A k \in DOMAIN parts : parts[k][2] # "h" => parts[k][1] < 60

(***************************************************************************)
(* Spec 3: a record's duration is always non-negative.  parse computes it  *)
(* from the server's timestamps, or from the browser's clock while the     *)
(* record is still running.                                                *)
(***************************************************************************)
DurationNonNegative ==
  call.fn = "parse" =>
    ParseDuration(call.arg.started, call.arg.completed, call.arg.now) >= 0

(* Reference: the whole number of days d with d days <= now - started <   *)
(* d + 1 days, looked for among the days the inputs can reach.            *)
RefDay(now, started) ==
  CHOOSE d \in -2..20 : d * DayLen =< now - started /\ now - started < (d + 1) * DayLen

(***************************************************************************)
(* Spec 4.1 and 8: every backup of an indexed service is in the bucket of  *)
(* its whole days of age, floor-divided, so that a backup started exactly  *)
(* N days before now and one started 1 ms earlier are both in bucket N,   *)
(* and one dated in the future is in a negative bucket, not clamped to     *)
(* today; each bucket keeps the sub-collection's order, and no service or  *)
(* bucket without a backup appears.                                        *)
(***************************************************************************)
BucketsAreFloorDaysInOrder ==
  call.fn = "bucket" =>
    LET idx == call.arg.byService
        res == getByServiceAndDateBucket(idx, call.arg.now)
        days(s) == {RefDay(call.arg.now, idx[s][k].started) : k \in DOMAIN idx[s]}
    IN  /\ DOMAIN res = {s \in Services : idx[s] # << >>}
        /\ \A s \in DOMAIN res :
             /\ DOMAIN res[s] = days(s)
             /\ \A d \in days(s) :
                  res[s][d] = SelectSeq(idx[s], LAMBDA b : RefDay(call.arg.now, b.started) = d)

=============================================================================

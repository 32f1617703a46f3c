------------------------------ MODULE Formatter ------------------------------
(***************************************************************************)
(* The numeric conversions of the dashboard: B.ViewUtil.niceifySize and    *)
(* niceifyDuration (b.js) and the duration that Backup/Verification.parse  *)
(* derives (models/*.js).  Times are integer milliseconds, as the server  *)
(* sends them; a duration in seconds is ms / 1000.  A formatted value is   *)
(* kept as the numbers it prints, not as the string: niceifySize as the    *)
(* number of tenths toFixed(1) prints and the unit; niceifyDuration as the *)
(* list of <<value, unit>> components it prints.                          *)
(***************************************************************************)
EXTENDS Integers, Sequences

CONSTANT NoDate   \* completedDate absent from the server's record

Units == << "B", "KB", "MB", "GB", "TB", "PB", "EB", "ZB", "YB" >>

(* Mutant of UnitSteps: "while (bytes > 1024)".                            *)
RECURSIVE UnitStepsStrict(_, _)
UnitStepsStrict(size, i) ==
  IF size > 1024^(i + 1) THEN UnitStepsStrict(size, i + 1) ELSE i

(***************************************************************************)
(* while (bytes >= 1024) { bytes /= 1024; i++; } -- after i divisions      *)
(* bytes is size / 1024^i, so the test is size >= 1024^(i+1).              *)
(***************************************************************************)
RECURSIVE UnitSteps(_, _)
UnitSteps(size, i) == IF size >= 1024^(i + 1) THEN UnitSteps(size, i + 1) ELSE i

(***************************************************************************)
(* x.toFixed(1) for x = num / den >= 0, in tenths: the n closest to 10x,   *)
(* the larger one on a tie (ECMA-262).  den is a power of two, so x is     *)
(* exact in a double and the tie really occurs (1280 bytes -> "1.3").      *)
(***************************************************************************)
ToFixed1(num, den) ==
  10 * (num \div den) + (20 * (num % den) + den) \div (2 * den)

(* niceifySize: the tenths printed and units[i] ("undefined" past YB).    *)
niceifySize(size) ==
  LET i == UnitSteps(size, 0)
  IN  [tenths |-> ToFixed1(size, 1024^i),
       unit   |-> IF i < Len(Units) THEN Units[i + 1] ELSE "undefined"]

(* Mutant of niceifyDuration: minutes = Math.floor(seconds / 60), the     *)
(* hours not subtracted.                                                   *)
niceifyDurationMinutesUnreduced(ms) ==
  LET hours   == ms \div 3600000
      minutes == ms \div 60000
      seconds == (ms - hours * 3600000 - minutes * 60000) \div 1000
  IN  SelectSeq(<< <<hours, "h">>, <<minutes, "m">>, <<seconds, "s">> >>,
                LAMBDA c : c[1] > 0)

(***************************************************************************)
(* niceifyDuration(ms / 1000): Math.floor hours, then minutes of the rest, *)
(* then seconds of the rest; only components > 0 are printed, in order.   *)
(* \div is floor division, as Math.floor of the quotient.                  *)
(***************************************************************************)
niceifyDuration(ms) ==
  LET hours   == ms \div 3600000
      minutes == (ms - hours * 3600000) \div 60000
      seconds == (ms - hours * 3600000 - minutes * 60000) \div 1000
  IN  SelectSeq(<< <<hours, "h">>, <<minutes, "m">>, <<seconds, "s">> >>,
                LAMBDA c : c[1] > 0)

(***************************************************************************)
(* parse: if (resp.completedDate) the duration is completed - started,     *)
(* else the browser's new Date().getTime() - started.  An absent or zero   *)
(* completedDate is falsy.                                                 *)
(***************************************************************************)
ParseDuration(started, completed, browserNow) ==
  IF completed \notin {NoDate, 0} THEN completed - started
  ELSE browserNow - started

=============================================================================

------------------------------- MODULE Fields --------------------------------
(***************************************************************************)
(* An auxiliary field of the history: a sensor of sensor.py that reports   *)
(* measurements, the tracker of common.py that makes one value of those of *)
(* a job, and the total and maximum of all jobs that history.py keeps.     *)
(***************************************************************************)
EXTENDS Host, Integers

VARIABLES
  strategy,    \* of the field: TrackingStrategy
  resetsTo,    \* init_tracker: whether there is a reset_callback
  sensorValue, \* last_measurements
  tracked,     \* tracked_value; of an average, times its count
  counted,     \* count, of an average
  lastValue,   \* last_value, of a delta
  primed,      \* initialized, of a maximum or minimum
  collected,   \* tracked_value, of a collection
  ofJob,       \* there is a current_job
  jobPaused,   \* job_paused
  rowValue,    \* what the job that is being finished has in its row
  rowsSum,     \* the sum, and the greatest, of the rows since totals were reset
  rowsMax,
  fieldTotals, \* aux_totals, None without this field
  savedTotals, \* and in the database
  heard,       \* what was reported since the job started, and whether it counts
  before,      \* what the job began with
  late         \* a measurement came while the row was written

fieldConfig == <<strategy, resetsTo>>
trackerVars == <<tracked, counted, lastValue, primed, collected>>
totalsVars == <<rowValue, rowsSum, rowsMax, fieldTotals, savedTotals>>
fieldVars == <<fieldConfig, sensorValue, trackerVars, ofJob, jobPaused, totalsVars, heard, before,
               late>>

Strategies == {"basic", "delta", "accumulate", "average", "maximum", "minimum", "collect"}
Measures == 1..2
MaxCollected == 2   \* MAX_SIZE, which is 100

ASSUME FieldConstants == None \notin Int /\ None \notin [total : Int, maximum : Int]

Start == [total |-> 0, maximum |-> 0]
(* has_totals: a basic field has them once it has a value; an average is *)
(* taken to be configured to report none.                                *)
HasTotals == strategy \in Strategies \ {"basic", "collect", "average"}
             \/ (strategy = "basic" /\ tracked # None)

FieldsInit ==
  /\ strategy \in Among(Strategies, "fields")
  /\ resetsTo \in Among(BOOLEAN, "fields")
  /\ sensorValue = None
  /\ tracked = (IF strategy = "basic" THEN None ELSE 0)
  /\ counted = 0 /\ lastValue = None /\ primed = FALSE /\ collected = <<>>
  /\ ofJob = FALSE /\ jobPaused = FALSE
  /\ rowValue = None /\ rowsSum = 0 /\ rowsMax = 0
  /\ fieldTotals = (IF HasTotals THEN Start ELSE None) /\ savedTotals = None
  /\ heard = <<>> /\ before = 0 /\ late = FALSE

FieldsTypeOK ==
  /\ strategy \in Strategies
  /\ {resetsTo, primed, ofJob, jobPaused, late} \subseteq BOOLEAN
  /\ sensorValue \in Measures \cup {None}
  /\ lastValue \in Measures \cup {0, None}
  /\ strategy \notin {"basic", "delta"} => tracked \in Nat
  /\ Len(collected) <= MaxCollected
  /\ \A t \in {fieldTotals, savedTotals} : t = None \/ t.total >= t.maximum \/ strategy = "delta"
  /\ \A k \in 1..Len(heard) : heard[k].value \in Measures
-----------------------------------------------------------------------------
(* FieldTracker.reset, of each strategy *)
ResetValue == IF ~resetsTo THEN 0 ELSE IF sensorValue = None THEN 0 ELSE sensorValue

ResetTracker ==
  /\ tracked' = CASE strategy = "basic" -> (IF resetsTo THEN ResetValue ELSE tracked)
                  [] strategy = "delta" -> 0
                  [] OTHER -> ResetValue
  /\ counted' = 0
  /\ lastValue' = IF strategy = "delta" /\ resetsTo THEN ResetValue ELSE None
  /\ primed' = (strategy \in {"maximum", "minimum"} /\ resetsTo)
  /\ collected' = <<>>

(* Mutant: what comes during a pause is tracked. *)
PausedToo == ofJob
(* tracking_enabled of a field with exclude_paused *)
Tracking == ofJob /\ ~jobPaused

Greater(a, b) == IF a > b THEN a ELSE b
Lesser(a, b) == IF a < b THEN a ELSE b
InList(v, s) == \E k \in 1..Len(s) : s[k] = v

(* update *)
Tracks(v) ==
  CASE strategy = "basic" -> v
    [] strategy = "delta" -> IF lastValue = None THEN tracked ELSE tracked + v - lastValue
    [] strategy = "accumulate" -> tracked + v
    [] strategy = "average" -> IF counted = 0 THEN v ELSE tracked + v
    [] strategy = "maximum" -> IF primed THEN Greater(tracked, v) ELSE v
    [] strategy = "minimum" -> IF primed THEN Lesser(tracked, v) ELSE v
    [] OTHER -> tracked

Collects(v) ==
  IF InList(v, collected) THEN collected
  ELSE IF Len(collected) = MaxCollected THEN Append(Tail(collected), v) ELSE Append(collected, v)

(* _on_state_update of MQTTSensor *)
Measured ==
  /\ Spends("changes")
  /\ \E v \in Measures :
       /\ sensorValue' = v
       /\ IF Tracking
          THEN /\ tracked' = Tracks(v) /\ counted' = counted + 1 /\ primed' = TRUE
               /\ collected' = IF strategy = "collect" THEN Collects(v) ELSE <<>>
          ELSE UNCHANGED <<tracked, counted, primed, collected>>
       /\ lastValue' = IF strategy = "delta" THEN v ELSE None
       /\ heard' = IF ofJob /\ pc["event"] = "idle"
                   THEN Append(heard, [value |-> v, counts |-> ~jobPaused]) ELSE heard
       /\ late' = (late \/ (Tracking /\ pc["event"] = "saving"))
  /\ PrinterStays /\ UNCHANGED <<pc, fieldConfig, ofJob, jobPaused, totalsVars, before>>

SensorLost ==
  /\ sensorValue # None /\ Spends("failures") /\ sensorValue' = None
  /\ PrinterStays
  /\ UNCHANGED <<pc, fieldConfig, trackerVars, ofJob, jobPaused, totalsVars, heard, before, late>>
-----------------------------------------------------------------------------
(* The history's part *)

JobAdded ==
  /\ ~ofJob /\ Spends("asks")
  /\ ofJob' = TRUE /\ jobPaused' = FALSE
  /\ ResetTracker
  /\ heard' = <<>>
  /\ before' = IF strategy = "basic" THEN tracked' ELSE ResetValue
  /\ PrinterStays /\ UNCHANGED <<pc, fieldConfig, sensorValue, totalsVars, late>>

PausedOrNot ==
  /\ ofJob /\ pc["event"] = "idle" /\ Spends("changes")
  /\ jobPaused' = ~jobPaused
  /\ PrinterStays
  /\ UNCHANGED <<pc, fieldConfig, sensorValue, trackerVars, ofJob, totalsVars, heard, before, late>>

(* finish_job: the row, then the totals, then there is no job *)
JobFinishes ==
  /\ ofJob /\ pc["event"] = "idle"
  /\ Goes("event", "saving") /\ jobPaused' = FALSE
  /\ rowValue' = tracked
  /\ PrinterStays
  /\ UNCHANGED <<left, fieldConfig, sensorValue, trackerVars, ofJob, rowsSum, rowsMax, fieldTotals,
                 savedTotals, heard, before, late>>

(* Mutant: a maximum is that of the last job. *)
LastTotals(t) == [total |-> tracked + t.total, maximum |-> tracked]
(* get_totals *)
AddsTo(t) == [total |-> tracked + t.total, maximum |-> Greater(tracked, t.maximum)]

TotalsUpdated ==
  /\ pc["event"] = "saving" /\ Goes("event", "storing")
  /\ fieldTotals' = IF ~HasTotals THEN None
                    ELSE AddsTo(IF fieldTotals = None THEN Start ELSE fieldTotals)
  /\ rowsSum' = IF rowValue = None THEN rowsSum ELSE rowsSum + rowValue
  /\ rowsMax' = IF rowValue = None THEN rowsMax ELSE Greater(rowsMax, rowValue)
  /\ PrinterStays
  /\ UNCHANGED <<left, fieldConfig, sensorValue, trackerVars, ofJob, jobPaused, rowValue,
                 savedTotals, heard, before, late>>

(* A field without totals leaves its row as it is. *)
TotalsSaved ==
  /\ pc["event"] = "storing" /\ Goes("event", "idle")
  /\ savedTotals' = IF fieldTotals = None THEN savedTotals ELSE fieldTotals
  /\ ofJob' = FALSE /\ rowValue' = None
  /\ PrinterStays
  /\ UNCHANGED <<left, fieldConfig, sensorValue, trackerVars, jobPaused, rowsSum, rowsMax,
                 fieldTotals, heard, before, late>>

TotalsReset ==
  /\ ~ofJob /\ rowsSum # 0
  /\ fieldTotals' = (IF HasTotals THEN Start ELSE None) /\ savedTotals' = fieldTotals'
  /\ rowsSum' = 0 /\ rowsMax' = 0
  /\ PrinterStays
  /\ UNCHANGED <<pc, left, fieldConfig, sensorValue, trackerVars, ofJob, jobPaused, rowValue, heard,
                 before, late>>

(* Moonraker stops and starts; component_init loads what has totals. *)
FieldsRestart ==
  /\ ~ofJob /\ Spends("failures")
  /\ tracked' = (IF strategy = "basic" THEN None ELSE 0)
  /\ counted' = 0 /\ lastValue' = None /\ primed' = FALSE /\ collected' = <<>>
  /\ sensorValue' = None
  /\ fieldTotals' = IF strategy \in Strategies \ {"basic", "collect", "average"}
                    THEN savedTotals ELSE None
  /\ PrinterStays
  /\ UNCHANGED <<pc, fieldConfig, ofJob, jobPaused, rowValue, rowsSum, rowsMax, savedTotals, heard,
                 before, late>>
-----------------------------------------------------------------------------
FieldsNext ==
  \/ Measured \/ SensorLost \/ JobAdded \/ PausedOrNot \/ JobFinishes
  \/ TotalsUpdated \/ TotalsSaved \/ TotalsReset \/ FieldsRestart

FieldsWorks(t) == t = "event" /\ (TotalsUpdated \/ TotalsSaved)

(* What configuration.md says of the strategies                             *)
Counting == {k \in 1..Len(heard) : heard[k].counts}
Sum[n \in Nat] == IF n = 0 THEN 0
                  ELSE Sum[n - 1] + (IF n \in Counting THEN heard[n].value ELSE 0)
Deltas[n \in Nat] ==
  IF n = 0 THEN 0
  ELSE Deltas[n - 1] + (IF n \notin Counting THEN 0
                        ELSE IF n > 1 THEN heard[n].value - heard[n - 1].value
                        ELSE IF resetsTo THEN heard[n].value - before ELSE 0)
Told == {heard[k].value : k \in Counting}
          \cup (IF resetsTo THEN {before} ELSE {})
LastTold == heard[CHOOSE k \in Counting : \A j \in Counting : j <= k].value

Described ==
  CASE strategy = "basic" -> IF Counting = {} THEN before ELSE LastTold
    [] strategy = "delta" -> Deltas[Len(heard)]
    [] strategy = "accumulate" -> Sum[Len(heard)] + before
    [] strategy = "average" -> IF Counting = {} THEN before ELSE Sum[Len(heard)]
    [] strategy = "maximum" -> IF Told = {} THEN 0 ELSE CHOOSE m \in Told : \A x \in Told : x <= m
    [] strategy = "minimum" -> IF Told = {} THEN 0 ELSE CHOOSE m \in Told : \A x \in Told : m <= x
    [] OTHER -> tracked

(* The value of a job is what its strategy makes of the measurements that   *)
(* count, and no others, since the job started.                             *)
FieldIsDescribed ==
  ofJob /\ pc["event"] = "idle" =>
    /\ tracked = Described
    /\ strategy = "average" => counted = Cardinality(Counting)
    /\ strategy = "collect" =>
         \A v \in Measures : InList(v, collected) <=> \E k \in Counting : heard[k].value = v

(* Totals are of the rows there are, after restarts too.  Those of a basic  *)
(* field are not loaded (history.py:236), and a measurement that comes      *)
(* while a row is written is only in the total.                             *)
TotalsAddUp ==
  pc["event"] = "idle" /\ ~late /\ strategy \notin {"basic", "collect", "average"} =>
    \/ fieldTotals = [total |-> rowsSum, maximum |-> rowsMax]
    \/ fieldTotals = None /\ rowsSum = 0 /\ rowsMax = 0
=============================================================================

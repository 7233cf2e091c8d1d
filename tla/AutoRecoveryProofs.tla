------------------------- MODULE AutoRecoveryProofs -------------------------
(***************************************************************************)
(* The safety of the recovery for any number of handlers, attempts, faults *)
(* and requests.  Only the owner of _mcu_lock is past the lock, so what it *)
(* read is what the database holds until it writes itself, and a restart   *)
(* that is not started yet is counted already.                             *)
(***************************************************************************)
EXTENDS AutoRecovery, TLAPS

Critical == PCs \ {"idle", "wait"}

(* Who is past _mcu_lock owns it. *)
LockOK == \A t \in Task : pc[t] \in Critical => lock # <<>> /\ Head(lock) = t

(* A reboot comes after the last attempt, giving up after both. *)
RecordOK ==
  /\ mcu.rebooted => mcu.attempt = MaxAttempts
  /\ mcu.gaveUp => mcu.attempt = MaxAttempts /\ (RebootEnabled => mcu.rebooted)

Agree(r, s) == r.attempt = s.attempt /\ r.rebooted = s.rebooted /\ r.gaveUp = s.gaveUp

(* What the owner knows of the record at each of its awaits. *)
Knows(t) ==
  /\ pc[t] \in Saving => Agree(loaded[t], mcu)
  /\ pc[t] = "saveAttempt" => mcu.attempt < MaxAttempts
  /\ pc[t] = "saveReboot" => RebootEnabled /\ mcu.attempt = MaxAttempts /\ ~mcu.rebooted
  /\ pc[t] = "saveGaveUp" => mcu.attempt = MaxAttempts /\ (RebootEnabled => mcu.rebooted)
  /\ pc[t] \in Triggering =>
       /\ mcu.attempt = loaded[t].attempt + 1 /\ restarts <= loaded[t].attempt
       /\ ~mcu.rebooted /\ ~mcu.gaveUp /\ ~loaded[t].rebooted /\ ~loaded[t].gaveUp
  /\ pc[t] \in Rebooting => mcu.rebooted /\ reboots = 0
OwnerOK == \A t \in Task : Knows(t)

(* Whoever checks for a running restart, or starts one, holds _restart_lock. *)
ServiceOK ==
  /\ \A t \in Task : pc[t] \in {"checking", "starting"} => restartLock = t
  /\ request # "idle" => restartLock = User
  /\ RestartsExclusive

IInv == TypeOK /\ LockOK /\ RecordOK /\ OwnerOK /\ AttemptsCapped /\ ServiceOK

LEMMA InitIInv == Init => IInv
<1> SUFFICES ASSUME Init PROVE IInv
  OBVIOUS
<1> USE DEF Init, NoIncident
<1>1. TypeOK
  <2>1. lock \in Seq(Task) /\ pc \in [Task -> PCs] /\ op \in [Task -> {"recover", "ready"}]
    BY DEF PCs
  <2>2. NoIncident \in Records
    BY MaxAttemptsAssumption DEF Records
  <2>3. mcu \in Records /\ loaded \in [Task -> Records]
    BY <2>2
  <2>4. faults \in 0..MaxFaults /\ requests \in 0..MaxRequests
    BY BoundsAssumption
  <2>5. QED
    BY <2>1, <2>3, <2>4 DEF TypeOK
<1>2. LockOK /\ OwnerOK
  BY DEF LockOK, OwnerOK, Knows, Critical, Saving, Triggering, Rebooting
<1>3. RecordOK /\ AttemptsCapped /\ ServiceOK
  BY MaxAttemptsAssumption DEF RecordOK, AttemptsCapped, ServiceOK, RestartsExclusive
<1>4. QED
  BY <1>1, <1>2, <1>3 DEF IInv
(* What a handler does, and what an event does. *)
Step(t) == Recover(t) \/ RebootFails(t) \/ StartFails(t)
Spawns == \E t \in Task, o \in {"recover", "ready"} : Spawn(t, o)
-----------------------------------------------------------------------------
(* Types *)

TaskTypes == lock \in Seq(Task) /\ pc \in [Task -> PCs] /\ op \in [Task -> {"recover", "ready"}]

LEMMA SpawnTypes ==
  ASSUME TaskTypes, NEW t \in Task, NEW o \in {"recover", "ready"}, Spawn(t, o)
  PROVE  TaskTypes'
BY DEF TaskTypes, Spawn, PCs

LEMMA ReturnTypes ==
  ASSUME TaskTypes, NEW t \in Task, lock # <<>>, Return(t)
  PROVE  lock' \in Seq(Task) /\ pc' \in [Task -> PCs]
BY DEF TaskTypes, Return, PCs

LEMMA ProceedTypes ==
  ASSUME TaskTypes, NEW t \in Task, NEW where \in PCs, Proceed(t, where)
  PROVE  lock' \in Seq(Task) /\ pc' \in [Task -> PCs]
BY DEF TaskTypes, Proceed

(* A handler past the lock: the lock is not empty, and nobody else is. *)
LEMMA Owner ==
  ASSUME LockOK, NEW t \in Task, pc[t] \in Critical
  PROVE  lock # <<>> /\ \A u \in Task : pc[u] \in Critical => u = t
BY DEF LockOK

(* The steps of a handler that leave the record alone. *)
LEMMA DecideTypes ==
  ASSUME TypeOK, LockOK, NEW t \in Task, Loaded(t)
  PROVE  TypeOK'
<1>1. lock # <<>> /\ TaskTypes
  BY Owner DEF TypeOK, TaskTypes, Loaded, Critical, PCs
<1>2. lock' \in Seq(Task) /\ pc' \in [Task -> PCs] /\ recheck' \in BOOLEAN
  <2>1. (Return(t) \/ \E where \in Saving : Proceed(t, where)) /\ recheck' \in BOOLEAN
    BY DEF Loaded, Decide, Saving, TypeOK, Records
  <2>2. QED
    BY <1>1, <2>1, ReturnTypes, ProceedTypes DEF PCs
<1>3. loaded' \in [Task -> Records]
  BY DEF Loaded, TypeOK
<1>4. QED
  BY <1>2, <1>3 DEF Loaded, TypeOK, SameKlippy, klippyVars, persistent, serviceVars

(* The handler's writes.  What it knows keeps the attempts in their range. *)
LEMMA SaveTypes ==
  ASSUME TypeOK, LockOK, OwnerOK, NEW t \in Task,
         SaveAttempt(t) \/ SaveReboot(t) \/ SaveGaveUp(t) \/ SaveReset(t) \/ SaveBack(t)
  PROVE  TypeOK'
<1>1. lock # <<>> /\ TaskTypes
  BY Owner DEF TypeOK, TaskTypes, SaveAttempt, SaveReboot, SaveGaveUp, SaveReset, SaveBack,
               Critical, PCs, Saving, Triggering
<1>2. lock' \in Seq(Task) /\ pc' \in [Task -> PCs]
  <2>1. Return(t) \/ \E where \in {"trigger", "announce"} : Proceed(t, where)
    BY DEF SaveAttempt, SaveReboot, SaveGaveUp, SaveReset, SaveBack
  <2>2. QED
    BY <1>1, <2>1, ReturnTypes, ProceedTypes DEF PCs, Triggering, Rebooting
<1>3. mcu' \in Records
  <2>1. mcu \in Records /\ loaded[t] \in Records
    BY DEF TypeOK
  <2>2. CASE SaveAttempt(t)
    <3>1. loaded[t].attempt + 1 \in 0..MaxAttempts
      BY <2>1, <2>2, MaxAttemptsAssumption
      DEF SaveAttempt, OwnerOK, Knows, Saving, Agree, Records
    <3>2. QED
      BY <2>2, <3>1 DEF SaveAttempt, NoIncident, Records
  <2>3. CASE SaveReset(t)
    BY <2>3, MaxAttemptsAssumption DEF SaveReset, NoIncident, Records
  <2>4. CASE SaveReboot(t) \/ SaveGaveUp(t) \/ SaveBack(t)
    BY <2>1, <2>4 DEF SaveReboot, SaveGaveUp, SaveBack, Records
  <2>5. QED
    BY <2>2, <2>3, <2>4
    DEF SaveAttempt, SaveReboot, SaveGaveUp, SaveReset, SaveBack
<1>4. restarts' \in Nat /\ reboots' \in Nat /\ recheck' \in BOOLEAN
  <2>1. restarts' \in Nat /\ reboots' \in Nat
    BY DEF SaveAttempt, SaveReboot, SaveGaveUp, SaveReset, SaveBack, TypeOK
  <2>2. recheck' = recheck \/ recheck' = TRUE
    BY DEF SaveAttempt, SaveReboot, SaveGaveUp, SaveReset, SaveBack
  <2>3. QED
    BY <2>1, <2>2 DEF TypeOK
<1>5. SameRun
  BY DEF SaveAttempt, SaveReboot, SaveGaveUp, SaveReset, SaveBack
<1>6. QED
  BY <1>2, <1>3, <1>4, <1>5 DEF TypeOK, SameRun, SameKlippy, klippyVars, serviceVars

(* The handler's other steps past the lock, with _restart_lock and without. *)
LEMMA TriggerTypes ==
  ASSUME TypeOK, LockOK, NEW t \in Task,
         Announced(t) \/ RebootFails(t) \/ Trigger(t) \/ Checked(t) \/ Started(t) \/ StartFails(t)
  PROVE  TypeOK'
<1>1. lock # <<>> /\ TaskTypes
  BY Owner DEF TypeOK, TaskTypes, Announced, RebootFails, Trigger, Checked, Started, StartFails,
               Critical, PCs, Triggering, Rebooting
<1>2. lock' \in Seq(Task) /\ pc' \in [Task -> PCs]
  <2>1. Return(t) \/ \E where \in {"rebooting", "checking", "starting", "saveBack"} : Proceed(t, where)
    BY DEF Announced, RebootFails, Trigger, Checked, Started, StartFails
  <2>2. QED
    BY <1>1, <2>1, ReturnTypes, ProceedTypes DEF PCs, Triggering, Rebooting
<1>3. restartLock' \in Task \cup {Nobody, User} /\ job' \in {"idle", "stopping", "starting"}
      /\ restarts' \in Nat
  BY DEF Announced, RebootFails, Trigger, Checked, Started, StartFails, Acquire, StartJob,
         TypeOK, SameRun, SameRecord, persistent, serviceVars
<1>4. UNCHANGED <<op, loaded, recheck, mcu, reboots, request>> /\ SameKlippy
  BY DEF Announced, RebootFails, Trigger, Checked, Started, StartFails,
         SameRun, SameRecord, persistent, serviceVars
<1>5. QED
  BY <1>2, <1>3, <1>4 DEF TypeOK, SameKlippy, klippyVars

LEMMA DiesTypes ==
  ASSUME TypeOK, MoonrakerDies
  PROVE  /\ moonraker' = "down" /\ connected' = FALSE
         /\ lock' \in Seq(Task) /\ pc' \in [Task -> PCs] /\ recheck' \in BOOLEAN
         /\ restartLock' \in Task \cup {Nobody, User} /\ request' = "idle"
         /\ UNCHANGED <<op, loaded>>
<1>1. pc' \in [Task -> PCs] /\ lock' \in Seq(Task)
  BY DEF MoonrakerDies, PCs
<1>2. QED
  BY <1>1 DEF MoonrakerDies

KlippyTypes ==
  /\ reliable \in BOOLEAN /\ moonraker \in {"up", "down"}
  /\ klippy \in {"ready", "fault", "deliberate", "off"}
  /\ connected \in BOOLEAN /\ printing \in BOOLEAN
  /\ faults \in 0..MaxFaults /\ requests \in 0..MaxRequests
RecordTypes == mcu \in Records /\ loaded \in [Task -> Records] /\ restarts \in Nat /\ reboots \in Nat
ServiceTypes ==
  /\ recheck \in BOOLEAN
  /\ restartLock \in Task \cup {Nobody, User}
  /\ request \in {"idle", "checking", "starting"}
  /\ job \in {"idle", "stopping", "starting"}

LEMMA TypeParts == TypeOK <=> KlippyTypes /\ TaskTypes /\ RecordTypes /\ ServiceTypes
BY DEF TypeOK, KlippyTypes, TaskTypes, RecordTypes, ServiceTypes

LEMMA NextTypeOK == IInv /\ [Next]_vars => TypeOK'
<1> SUFFICES ASSUME IInv, [Next]_vars PROVE TypeOK'
  OBVIOUS
<1>0. /\ TypeOK /\ LockOK /\ OwnerOK
      /\ KlippyTypes /\ TaskTypes /\ RecordTypes /\ ServiceTypes
  BY TypeParts DEF IInv
<1> USE DEF klippyVars, persistent, handlerVars, serviceVars, SameKlippy, SameMemory
<1>1. ASSUME NEW t \in Task, Enter(t) PROVE TypeOK'
  <2>1. lock' \in Seq(Task) /\ pc' \in [Task -> PCs]
    <3>1. Return(t) \/ Proceed(t, "load")
      BY <1>1 DEF Enter
    <3>2. QED
      BY <1>0, <1>1, <3>1, ReturnTypes, ProceedTypes DEF Enter, PCs
  <2>2. QED
    BY <1>0, <1>1, <2>1 DEF Enter, TypeOK
<1>2. ASSUME MoonrakerDies, UNCHANGED <<reliable, faults>>,
             klippy' = klippy \/ klippy' = "off", printing' = printing \/ printing' = FALSE,
             requests' \in 0..MaxRequests, job' \in {"idle", "stopping", "starting"},
             RecordTypes'
      PROVE TypeOK'
  <2>1. TaskTypes' /\ ServiceTypes'
    BY <1>0, <1>2, DiesTypes DEF TaskTypes, ServiceTypes
  <2>2. KlippyTypes'
    BY <1>0, <1>2, DiesTypes DEF KlippyTypes
  <2>3. QED
    BY <1>2, <2>1, <2>2, TypeParts, PTL
<1>3. ASSUME NEW t \in Task, Step(t) PROVE TypeOK'
  <2>1. CASE RebootHost(t)
    <3>1. RecordTypes' /\ requests' \in 0..MaxRequests
      BY <1>0, <2>1 DEF RebootHost, MoonrakerDies, RecordTypes, KlippyTypes
    <3>2. QED
      BY <1>2, <2>1, <3>1 DEF RebootHost
  <2>2. CASE Enter(t)
    BY <1>1, <2>2
  <2>3. QED
    BY <1>0, <1>3, <2>1, <2>2, DecideTypes, SaveTypes, TriggerTypes DEF Step, Recover
<1>4. CASE UserRequests \/ UserStep
  <2>1. KlippyTypes' /\ TaskTypes' /\ RecordTypes'
    BY BoundsAssumption, <1>0, <1>4 DEF UserRequests, UserStep, UserChecked, UserStarted,
                      KlippyTypes, TaskTypes, RecordTypes
  <2>2. ServiceTypes'
    BY <1>0, <1>4 DEF UserRequests, UserStep, UserChecked, UserStarted, Acquire, StartJob,
                      ServiceTypes
  <2>3. QED
    BY <2>1, <2>2, TypeParts, PTL
<1>5. CASE JobStops
  <2>1. RecordTypes' /\ requests' \in 0..MaxRequests
    BY <1>0, <1>5 DEF JobStops, MoonrakerDies, RecordTypes, KlippyTypes
  <2>2. QED
    BY <1>2, <1>5, <2>1 DEF JobStops
<1>6. CASE MoonrakerRestarts
  <2>1. RecordTypes' /\ requests' \in 0..MaxRequests /\ job' \in {"idle", "stopping", "starting"}
    BY BoundsAssumption, <1>0, <1>6
    DEF MoonrakerRestarts, MoonrakerDies, RecordTypes, KlippyTypes, ServiceTypes
  <2>2. QED
    BY <1>2, <1>6, <2>1 DEF MoonrakerRestarts
<1>7. CASE Connect \/ KlippyShutsDown \/ RecheckFires
  <2>1. TaskTypes'
    <3>1. Spawns \/ UNCHANGED <<lock, pc, op>>
      BY <1>7 DEF Connect, KlippyShutsDown, RecheckFires, Spawns
    <3>2. QED
      BY <1>0, <3>1, SpawnTypes DEF Spawns, TaskTypes
  <2>2. KlippyTypes'
    <3>1. CASE Connect
      BY <1>0, <3>1 DEF Connect, KlippyTypes
    <3>2. CASE KlippyShutsDown
      BY BoundsAssumption, <1>0, <3>2 DEF KlippyShutsDown, KlippyTypes
    <3>3. CASE RecheckFires
      BY <1>0, <3>3 DEF RecheckFires, KlippyTypes
    <3>4. QED
      BY <1>7, <3>1, <3>2, <3>3
  <2>3. RecordTypes'
    BY <1>0, <1>7 DEF Connect, KlippyShutsDown, RecheckFires, RecordTypes
  <2>4. ServiceTypes'
    <3>1. recheck' = recheck \/ recheck' = FALSE
      BY <1>7 DEF Connect, KlippyShutsDown, RecheckFires
    <3>2. UNCHANGED serviceVars
      BY <1>7 DEF Connect, KlippyShutsDown, RecheckFires
    <3>3. QED
      BY <1>0, <3>1, <3>2 DEF ServiceTypes
  <2>5. QED
    BY <2>1, <2>2, <2>3, <2>4, TypeParts, PTL
<1>8. CASE JobEnds \/ KlippyStarts \/ KlippyRestarts \/ PrintStarts \/ PrintEnds
           \/ MoonrakerStarts \/ CooldownEnds \/ UNCHANGED vars
  <2>1. TaskTypes' /\ UNCHANGED recheck
    BY <1>0, <1>8 DEF JobEnds, KlippyStarts, KlippyRestarts, PrintStarts, PrintEnds,
                      MoonrakerStarts, CooldownEnds, vars, TaskTypes
  <2>2. KlippyTypes'
    <3>1. CASE JobEnds \/ CooldownEnds \/ UNCHANGED vars
      BY <1>0, <3>1 DEF JobEnds, CooldownEnds, vars, KlippyTypes
    <3>2. CASE KlippyStarts
      BY <1>0, <3>2 DEF KlippyStarts, KlippyTypes
    <3>3. CASE KlippyRestarts
      <4>1. requests' \in 0..MaxRequests
        BY BoundsAssumption, <1>0, <3>3 DEF KlippyRestarts, KlippyTypes
      <4>2. klippy' = "off" /\ connected' = FALSE /\ printing' = FALSE
        BY <3>3 DEF KlippyRestarts
      <4>3. UNCHANGED <<reliable, moonraker, faults>>
        BY <3>3 DEF KlippyRestarts
      <4>4. QED
        BY <1>0, <4>1, <4>2, <4>3 DEF KlippyTypes
    <3>4. CASE PrintStarts \/ PrintEnds
      <4>1. printing' = TRUE \/ printing' = FALSE
        BY <3>4 DEF PrintStarts, PrintEnds
      <4>2. UNCHANGED <<reliable, moonraker, klippy, connected, faults, requests>>
        BY <3>4 DEF PrintStarts, PrintEnds
      <4>3. QED
        BY <1>0, <4>1, <4>2 DEF KlippyTypes
    <3>5. CASE MoonrakerStarts
      BY <1>0, <3>5 DEF MoonrakerStarts, KlippyTypes
    <3>6. QED
      BY <1>8, <3>1, <3>2, <3>3, <3>4, <3>5
  <2>3. RecordTypes'
    BY <1>0, <1>8 DEF JobEnds, KlippyStarts, KlippyRestarts, PrintStarts, PrintEnds,
                      MoonrakerStarts, CooldownEnds, vars, RecordTypes, Records
  <2>4. ServiceTypes'
    <3>1. /\ restartLock' = restartLock /\ request' = request
          /\ job' \in {job, "idle"}
      BY <1>8 DEF JobEnds, KlippyStarts, KlippyRestarts, PrintStarts, PrintEnds,
                  MoonrakerStarts, CooldownEnds, vars
    <3>2. QED
      BY <1>0, <2>1, <3>1 DEF ServiceTypes
  <2>5. QED
    BY <2>1, <2>2, <2>3, <2>4, TypeParts, PTL
<1>9. QED
  BY <1>3, <1>4, <1>5, <1>6, <1>7, <1>8 DEF Next, JobStep, Step

-----------------------------------------------------------------------------
(* The lock *)

Only(t) == \A u \in Task : pc[u] \in Critical => u = t

(* A handler moves only at the head of the lock, and then nobody else can. *)
LEMMA Alone ==
  ASSUME LockOK, NEW t \in Task, Step(t)
  PROVE  Only(t) /\ lock # <<>> /\ Head(lock) = t
<1>1. CASE Enter(t)
  BY <1>1 DEF Enter, LockOK, Only
<1>2. CASE ~Enter(t)
  <2>1. pc[t] \in Critical
    BY <1>2 DEF Step, Recover, Loaded, SaveAttempt, SaveReboot, SaveGaveUp, SaveReset, SaveBack,
       Announced, RebootHost, RebootFails, Trigger, Checked, Started, StartFails,
       Critical, PCs, Saving, Triggering, Rebooting
  <2>2. QED
    BY <2>1 DEF LockOK, Only
<1>3. QED
  BY <1>1, <1>2

(* What a handler's step does to the lock and to where it is suspended. *)
LEMMA StepMoves ==
  ASSUME NEW t \in Task, Step(t)
  PROVE  Return(t) \/ (\E where \in Critical : Proceed(t, where)) \/ MoonrakerDies
<1> USE DEF Critical, PCs, Saving, Triggering, Rebooting
<1>1. CASE Loaded(t)
  BY <1>1 DEF Loaded, Decide
<1>2. CASE RebootHost(t)
  BY <1>2 DEF RebootHost
<1>3. CASE Enter(t) \/ SaveAttempt(t) \/ SaveReboot(t) \/ SaveGaveUp(t) \/ SaveReset(t) \/ SaveBack(t)
  BY <1>3 DEF Enter, SaveAttempt, SaveReboot, SaveGaveUp, SaveReset, SaveBack
<1>4. CASE Announced(t) \/ RebootFails(t) \/ Trigger(t) \/ Checked(t) \/ Started(t) \/ StartFails(t)
  BY <1>4 DEF Announced, RebootFails, Trigger, Checked, Started, StartFails
<1>5. QED
  BY <1>1, <1>2, <1>3, <1>4 DEF Step, Recover

(* A step of Klipper, of Moonraker's life or of an event, seen from a handler. *)
LEMMA OtherMoves ==
  ASSUME [Next]_vars, \A t \in Task : ~Step(t)
  PROVE  Spawns \/ MoonrakerDies \/ UNCHANGED <<lock, pc, op>>
<1> USE DEF SameKlippy, SameMemory, handlerVars
<1>1. CASE UserRequests \/ UserStep
  BY <1>1 DEF UserRequests, UserStep, UserChecked, UserStarted
<1>2. CASE JobStep
  BY <1>2 DEF JobStep, JobStops, JobEnds
<1>3. CASE Connect \/ KlippyShutsDown \/ RecheckFires
  BY <1>3 DEF Connect, KlippyShutsDown, RecheckFires, Spawns
<1>4. CASE KlippyStarts \/ KlippyRestarts \/ PrintStarts \/ PrintEnds
           \/ MoonrakerStarts \/ CooldownEnds
  BY <1>4 DEF KlippyStarts, KlippyRestarts, PrintStarts, PrintEnds, MoonrakerStarts, CooldownEnds
<1>5. CASE MoonrakerRestarts
  BY <1>5 DEF MoonrakerRestarts
<1>6. CASE UNCHANGED vars
  BY <1>6 DEF vars
<1>7. QED
  BY <1>1, <1>2, <1>3, <1>4, <1>5, <1>6 DEF Next, Step

LEMMA NextLockOK == IInv /\ [Next]_vars => LockOK'
<1> SUFFICES ASSUME IInv, [Next]_vars PROVE LockOK'
  OBVIOUS
<1>0. LockOK /\ TaskTypes
  BY DEF IInv, TypeOK, TaskTypes
<1>1. ASSUME MoonrakerDies PROVE LockOK'
  BY <1>1 DEF MoonrakerDies, LockOK, Critical
<1>2. ASSUME NEW t \in Task, Step(t) PROVE LockOK'
  <2>1. Only(t) /\ lock # <<>> /\ Head(lock) = t
    BY <1>0, <1>2, Alone
  <2>2. CASE Return(t)
    BY <1>0, <2>1, <2>2 DEF Return, Only, LockOK, TaskTypes, Critical
  <2>3. ASSUME NEW where \in Critical, Proceed(t, where) PROVE LockOK'
    BY <1>0, <2>1, <2>3 DEF Proceed, Only, LockOK, TaskTypes
  <2>4. QED
    BY <1>1, <1>2, <2>2, <2>3, StepMoves
<1>3. ASSUME NEW t \in Task, NEW o \in {"recover", "ready"}, Spawn(t, o) PROVE LockOK'
  BY <1>0, <1>3 DEF Spawn, LockOK, TaskTypes, Critical
<1>4. CASE UNCHANGED <<lock, pc, op>>
  BY <1>0, <1>4 DEF LockOK
<1>5. QED
  BY <1>1, <1>2, <1>3, <1>4, OtherMoves DEF Spawns

-----------------------------------------------------------------------------
(* The record *)

Sound == RecordOK /\ AttemptsCapped
Busy == Saving \cup Triggering \cup Rebooting

(* Only the handler that moves has to be looked at. *)
LEMMA OthersIdle ==
  ASSUME TaskTypes, NEW t \in Task, Only(t), pc' = [pc EXCEPT ![t] = pc'[t]], Knows(t)'
  PROVE  OwnerOK'
<1> SUFFICES ASSUME NEW u \in Task, u # t PROVE Knows(u)'
  BY DEF OwnerOK
<1>1. pc'[u] \notin Busy
  BY DEF Only, TaskTypes, Critical, Busy, PCs, Saving, Triggering, Rebooting
<1>2. QED
  BY <1>1 DEF Knows, Busy, Saving, Triggering, Rebooting

LEMMA LoadedSound ==
  ASSUME TypeOK, Sound, NEW t \in Task, Loaded(t)
  PROVE  Knows(t)' /\ Sound'
<1>0. mcu \in Records /\ MaxAttempts \in Nat
  BY MaxAttemptsAssumption DEF TypeOK
<1>1. UNCHANGED <<mcu, restarts, reboots>> /\ loaded'[t] = mcu
  BY DEF Loaded, TypeOK, persistent
<1>2. Sound'
  BY <1>1 DEF Sound, RecordOK, AttemptsCapped
<1>3. \/ pc'[t] \in {"idle", "saveReset"}
      \/ pc'[t] = "saveAttempt" /\ mcu.attempt < MaxAttempts
      \/ pc'[t] = "saveReboot" /\ ~(mcu.attempt < MaxAttempts) /\ RebootEnabled /\ ~mcu.rebooted
      \/ pc'[t] = "saveGaveUp" /\ ~(mcu.attempt < MaxAttempts) /\ (RebootEnabled => mcu.rebooted)
  BY DEF Loaded, Decide, Return, Proceed, TypeOK
<1>4. QED
  BY <1>0, <1>1, <1>2, <1>3 DEF Knows, Agree, Saving, Triggering, Rebooting, Records

LEMMA SaveSound ==
  ASSUME TypeOK, Sound, NEW t \in Task, Knows(t),
         SaveAttempt(t) \/ SaveReboot(t) \/ SaveGaveUp(t) \/ SaveReset(t) \/ SaveBack(t)
  PROVE  Knows(t)' /\ Sound'
<1>0. /\ mcu \in Records /\ loaded[t] \in Records /\ restarts \in Nat /\ reboots \in Nat
      /\ MaxAttempts \in Nat \ {0}
  BY MaxAttemptsAssumption DEF TypeOK
<1>1. loaded' = loaded
  BY DEF SaveAttempt, SaveReboot, SaveGaveUp, SaveReset, SaveBack, SameRun
<1> USE DEF Sound, RecordOK, AttemptsCapped
<1>2. CASE SaveAttempt(t)
  <2>1. pc'[t] = "trigger" /\ UNCHANGED <<restarts, reboots>>
    BY <1>2 DEF SaveAttempt, Proceed, TypeOK
  <2>2. mcu.attempt < MaxAttempts /\ Agree(loaded[t], mcu)
    BY <1>2 DEF SaveAttempt, Knows, Saving
  <2>3. mcu'.attempt = loaded[t].attempt + 1 /\ ~mcu'.rebooted /\ ~mcu'.gaveUp
    BY <1>2 DEF SaveAttempt, NoIncident
  <2>4. ~mcu.rebooted /\ ~mcu.gaveUp
    BY <1>0, <2>2 DEF Records
  <2>5. QED
    BY <1>0, <1>1, <2>1, <2>2, <2>3, <2>4 DEF Knows, Agree, Saving, Triggering, Rebooting, Records
<1>3. CASE SaveReboot(t)
  <2>1. pc'[t] = "announce" /\ UNCHANGED <<restarts, reboots>>
    BY <1>3 DEF SaveReboot, Proceed, TypeOK
  <2>2. /\ RebootEnabled /\ mcu.attempt = MaxAttempts /\ ~mcu.rebooted
        /\ Agree(loaded[t], mcu)
    BY <1>3 DEF SaveReboot, Knows, Saving
  <2>3. mcu'.attempt = mcu.attempt /\ mcu'.rebooted /\ mcu'.gaveUp = mcu.gaveUp
    BY <1>0, <1>3, <2>2 DEF SaveReboot, Agree, Records
  <2>4. QED
    BY <1>0, <2>1, <2>2, <2>3 DEF Knows, Saving, Triggering, Rebooting, Records
<1>4. CASE SaveGaveUp(t)
  <2>1. pc'[t] = "idle" /\ UNCHANGED <<restarts, reboots>>
    BY <1>4 DEF SaveGaveUp, Return, TypeOK
  <2>2. mcu.attempt = MaxAttempts /\ (RebootEnabled => mcu.rebooted) /\ Agree(loaded[t], mcu)
    BY <1>4 DEF SaveGaveUp, Knows, Saving
  <2>3. mcu'.attempt = mcu.attempt /\ mcu'.rebooted = mcu.rebooted /\ mcu'.gaveUp
    BY <1>0, <1>4, <2>2 DEF SaveGaveUp, Agree, Records
  <2>4. QED
    BY <1>0, <2>1, <2>2, <2>3 DEF Knows, Saving, Triggering, Rebooting, Records
<1>5. CASE SaveReset(t)
  <2>1. pc'[t] = "idle" /\ restarts' = 0 /\ reboots' = 0
    BY <1>5 DEF SaveReset, Return, TypeOK
  <2>2. mcu'.attempt = 0 /\ ~mcu'.rebooted /\ ~mcu'.gaveUp
    BY <1>5 DEF SaveReset, NoIncident
  <2>3. QED
    BY <1>0, <2>1, <2>2 DEF Knows, Saving, Triggering, Rebooting
<1>6. CASE SaveBack(t)
  <2>1. pc'[t] = "idle" /\ UNCHANGED <<restarts, reboots>> /\ mcu' = loaded[t]
    BY <1>6 DEF SaveBack, Return, TypeOK
  <2>2. /\ mcu.attempt = loaded[t].attempt + 1 /\ restarts <= loaded[t].attempt
        /\ ~mcu.rebooted /\ ~loaded[t].rebooted /\ ~loaded[t].gaveUp
    BY <1>6 DEF SaveBack, Knows, Triggering
  <2>3. QED
    BY <1>0, <2>1, <2>2 DEF Knows, Saving, Triggering, Rebooting, Records
<1>7. QED
  BY <1>2, <1>3, <1>4, <1>5, <1>6

LEMMA TriggerSound ==
  ASSUME TypeOK, Sound, NEW t \in Task, Knows(t),
         Announced(t) \/ RebootFails(t) \/ Trigger(t) \/ Checked(t) \/ Started(t) \/ StartFails(t)
  PROVE  Knows(t)' /\ Sound'
<1>0. /\ mcu \in Records /\ loaded[t] \in Records /\ restarts \in Nat /\ reboots \in Nat
  BY DEF TypeOK
<1>1. UNCHANGED <<loaded, mcu, reboots>>
  BY DEF Announced, RebootFails, Trigger, Checked, Started, StartFails, SameRun, SameRecord, persistent
<1>2. CASE Started(t)
  <2>1. pc'[t] = "idle" /\ restarts' = restarts + 1
    BY <1>2 DEF Started, Return, TypeOK
  <2>2. mcu.attempt = loaded[t].attempt + 1 /\ restarts <= loaded[t].attempt
    BY <1>2 DEF Started, Knows, Triggering
  <2>3. QED
    BY <1>0, <1>1, <2>1, <2>2
    DEF Knows, Saving, Triggering, Rebooting, Sound, RecordOK, AttemptsCapped, Records
<1>3. CASE ~Started(t)
  <2>1. UNCHANGED restarts
    BY <1>3 DEF Announced, RebootFails, Trigger, Checked, StartFails, SameRecord, persistent
  <2>2. \/ pc'[t] = "idle"
        \/ pc[t] \in Triggering /\ pc'[t] \in Triggering
        \/ pc[t] \in Rebooting /\ pc'[t] \in Rebooting
    BY <1>3 DEF Announced, RebootFails, Trigger, Checked, StartFails, Return, Proceed,
                Triggering, Rebooting, TypeOK
  <2>3. QED
    BY <1>1, <2>1, <2>2
    DEF Knows, Saving, Triggering, Rebooting, Sound, RecordOK, AttemptsCapped
<1>4. QED
  BY <1>2, <1>3

LEMMA DiesKnows ==
  ASSUME MoonrakerDies
  PROVE  OwnerOK'
BY DEF MoonrakerDies, OwnerOK, Knows, Saving, Triggering, Rebooting

LEMMA StepSound ==
  ASSUME IInv, NEW t \in Task, Step(t)
  PROVE  OwnerOK' /\ Sound'
<1>0. TypeOK /\ TaskTypes /\ Sound /\ Knows(t)
  BY DEF IInv, TypeOK, TaskTypes, Sound, OwnerOK
<1>1. CASE RebootHost(t)
  <2>1. mcu.rebooted /\ reboots = 0 /\ reboots' = 1 /\ UNCHANGED <<mcu, restarts>>
    BY <1>0, <1>1 DEF RebootHost, Knows, Rebooting
  <2>2. QED
    BY <1>0, <1>1, <2>1, DiesKnows DEF RebootHost, Sound, RecordOK, AttemptsCapped
<1>2. CASE ~RebootHost(t)
  <2>1. Only(t)
    BY <1>2, Alone DEF IInv
  <2>2. Return(t) \/ (\E where \in Critical : Proceed(t, where))
    <3>1. CASE Loaded(t)
      BY <3>1 DEF Loaded, Decide, Critical, PCs, Saving
    <3>2. CASE ~Loaded(t)
      BY <1>2, <3>2 DEF Step, Recover, Enter, SaveAttempt, SaveReboot, SaveGaveUp, SaveReset,
         SaveBack, Announced, RebootFails, Trigger, Checked, Started, StartFails,
         Critical, PCs, Saving, Triggering, Rebooting
    <3>3. QED
      BY <3>1, <3>2
  <2>3. pc' = [pc EXCEPT ![t] = pc'[t]]
    BY <1>0, <2>2 DEF Return, Proceed, TaskTypes
  <2>4. Knows(t)' /\ Sound'
    <3>1. CASE Enter(t)
      <4>1. pc'[t] \in {"idle", "load"} /\ UNCHANGED persistent
        BY <1>0, <3>1 DEF Enter, Return, Proceed, TaskTypes
      <4>2. QED
        BY <1>0, <4>1 DEF persistent, Knows, Saving, Triggering, Rebooting,
                          Sound, RecordOK, AttemptsCapped
    <3>2. QED
      BY <1>0, <1>2, <3>1, LoadedSound, SaveSound, TriggerSound DEF Step, Recover
  <2>5. QED
    BY <1>0, <2>1, <2>3, <2>4, OthersIdle
<1>3. QED
  BY <1>1, <1>2

(* Only handlers and the passing of time change the record. *)
LEMMA Unwritten ==
  ASSUME [Next]_vars, \A t \in Task : ~Step(t), ~CooldownEnds
  PROVE  UNCHANGED persistent
<1>1. CASE UserRequests \/ UserStep \/ JobStep
  BY <1>1 DEF UserRequests, UserStep, UserChecked, UserStarted, JobStep, JobStops, JobEnds
<1>2. CASE Connect \/ KlippyShutsDown \/ RecheckFires \/ KlippyStarts \/ KlippyRestarts
  BY <1>2 DEF Connect, KlippyShutsDown, RecheckFires, KlippyStarts, KlippyRestarts, SameMemory
<1>3. CASE PrintStarts \/ PrintEnds \/ MoonrakerRestarts \/ MoonrakerStarts \/ UNCHANGED vars
  BY <1>3 DEF PrintStarts, PrintEnds, MoonrakerRestarts, MoonrakerStarts, vars, SameMemory
<1>4. QED
  BY <1>1, <1>2, <1>3 DEF Next, Step

LEMMA NextSound == IInv /\ [Next]_vars => OwnerOK' /\ Sound'
<1> SUFFICES ASSUME IInv, [Next]_vars PROVE OwnerOK' /\ Sound'
  OBVIOUS
<1>0. TypeOK /\ TaskTypes /\ Sound /\ OwnerOK
  BY DEF IInv, TypeOK, TaskTypes, Sound
<1>1. CASE \E t \in Task : Step(t)
  BY <1>1, StepSound
<1>2. CASE \A t \in Task : ~Step(t)
  <2>1. /\ UNCHANGED <<restarts, reboots>>
        /\ Agree(mcu', mcu)
    <3>1. CASE CooldownEnds
      BY <1>0, <3>1 DEF CooldownEnds, Agree, TypeOK, Records
    <3>2. CASE ~CooldownEnds
      BY <1>2, <3>2, Unwritten DEF persistent, Agree
    <3>3. QED
      BY <3>1, <3>2
  <2>2. Sound'
    BY <1>0, <2>1 DEF Sound, RecordOK, AttemptsCapped, Agree
  <2>3. CASE MoonrakerDies
    BY <2>2, <2>3, DiesKnows
  <2>4. ASSUME ~MoonrakerDies PROVE OwnerOK'
    <3>1. UNCHANGED loaded
      BY <1>2, <2>4
      DEF Next, Step, UserRequests, UserStep, UserChecked, UserStarted, JobStep, JobStops, JobEnds,
          Connect, KlippyShutsDown, RecheckFires, KlippyStarts, KlippyRestarts, PrintStarts,
          PrintEnds, CooldownEnds, MoonrakerRestarts, MoonrakerStarts, vars, handlerVars, SameMemory
    <3>2. SUFFICES ASSUME NEW t \in Task PROVE Knows(t)'
      BY DEF OwnerOK
    <3>3. pc'[t] = pc[t] \/ pc'[t] = "wait"
      BY <1>0, <1>2, <2>4, OtherMoves DEF Spawns, Spawn, TaskTypes
    <3>4. Knows(t)
      BY <1>0 DEF OwnerOK
    <3>5. QED
      BY <2>1, <3>1, <3>3, <3>4 DEF Knows, Agree, Saving, Triggering, Rebooting
  <2>5. QED
    BY <2>2, <2>3, <2>4
<1>3. QED
  BY <1>1, <1>2

-----------------------------------------------------------------------------
(* The restart of all services *)

AtService == {"checking", "starting"}
ServicePart == <<reliable, restartLock, request, job>>

(* Handlers that stay away from the service, or leave it, disturb nothing. *)
LEMMA AwayFromService ==
  ASSUME ServiceOK, UNCHANGED ServicePart,
         \A t \in Task : pc'[t] = pc[t] \/ pc'[t] \notin AtService
  PROVE  ServiceOK'
<1>1. UNCHANGED <<reliable, restartLock, request, job>>
  BY DEF ServicePart
<1>2. QED
  BY <1>1 DEF AtService, ServiceOK, RestartsExclusive, Running

LEMMA DiesService ==
  ASSUME MoonrakerDies
  PROVE  ServiceOK'
BY DEF MoonrakerDies, ServiceOK, RestartsExclusive

LEMMA HandlerService ==
  ASSUME TypeOK, ServiceOK, NEW t \in Task, Step(t)
  PROVE  ServiceOK'
<1>0. pc \in [Task -> PCs] /\ t # User /\ t # Nobody
  BY TaskAssumption DEF TypeOK
<1> DEFINE Others == \A u \in Task : u # t => pc'[u] = pc[u]
<1>1. CASE Enter(t) \/ Loaded(t)
  <2>1. Others /\ pc'[t] \notin AtService
    BY <1>0, <1>1 DEF Enter, Loaded, Decide, Return, Proceed, AtService
  <2>2. UNCHANGED ServicePart
    BY <1>1 DEF Enter, Loaded, serviceVars, SameKlippy, ServicePart
  <2>3. QED
    BY <2>1, <2>2, AwayFromService
<1>2. CASE \/ SaveAttempt(t) \/ SaveReboot(t) \/ SaveGaveUp(t) \/ SaveReset(t) \/ SaveBack(t)
           \/ Announced(t) \/ RebootFails(t)
  <2>1. Others /\ pc'[t] \notin AtService
    BY <1>0, <1>2 DEF SaveAttempt, SaveReboot, SaveGaveUp, SaveReset, SaveBack,
                      Announced, RebootFails, Return, Proceed, AtService
  <2>2. UNCHANGED ServicePart
    BY <1>2 DEF SaveAttempt, SaveReboot, SaveGaveUp, SaveReset, SaveBack,
                Announced, RebootFails, SameRun, serviceVars, SameKlippy, ServicePart
  <2>3. QED
    BY <2>1, <2>2, AwayFromService
<1>3. CASE RebootHost(t)
  BY <1>3, DiesService DEF RebootHost
<1>4. CASE Trigger(t)
  <2>1. \A u \in Task : pc[u] \notin AtService
    BY <1>4, TaskAssumption DEF Trigger, Acquire, ServiceOK, AtService
  <2>2. request = "idle" /\ request' = request /\ restartLock' = t
    BY <1>4 DEF Trigger, Acquire, ServiceOK, Nobody, User
  <2>3. Others /\ pc'[t] = "checking"
    BY <1>0, <1>4 DEF Trigger, Proceed
  <2>4. QED
    BY <2>1, <2>2, <2>3 DEF ServiceOK, RestartsExclusive, AtService
<1>5. CASE Checked(t) \/ Started(t) \/ StartFails(t)
  <2>1. pc[t] \in AtService /\ restartLock = t /\ request = "idle" /\ request' = request
    BY <1>0, <1>5 DEF Checked, Started, StartFails, AtService, ServiceOK
  <2>2. \A u \in Task : u # t => pc[u] \notin AtService
    BY <2>1 DEF ServiceOK, AtService
  <2>3. Others
    BY <1>0, <1>5 DEF Checked, Started, StartFails, Return, Proceed
  <2>4. \/ pc'[t] \notin AtService
        \/ pc'[t] = "starting" /\ restartLock' = t /\ (~Running \/ ~reliable) /\ job' = job
    BY <1>0, <1>5, <2>1 DEF Checked, Started, StartFails, Return, Proceed, AtService
  <2>5. reliable' = reliable
    BY <1>5 DEF Checked, Started, StartFails, SameRecord, SameKlippy
  <2>6. QED
    BY <2>1, <2>2, <2>3, <2>4, <2>5 DEF ServiceOK, RestartsExclusive, AtService, Running
<1>6. QED
  BY <1>1, <1>2, <1>3, <1>4, <1>5 DEF Step, Recover

LEMMA NextServiceOK == IInv /\ [Next]_vars => ServiceOK'
<1> SUFFICES ASSUME IInv, [Next]_vars PROVE ServiceOK'
  OBVIOUS
<1>0. TypeOK /\ TaskTypes /\ ServiceOK
  BY DEF IInv, TypeOK, TaskTypes
<1>1. CASE \E t \in Task : Step(t)
  BY <1>0, <1>1, HandlerService
<1>2. CASE UserRequests
  <2>1. UNCHANGED <<reliable, pc, job>> /\ request' = "checking"
        /\ restartLock = Nobody /\ restartLock' = User
    BY <1>2 DEF UserRequests, Acquire, handlerVars
  <2>2. \A t \in Task : pc[t] \notin AtService
    BY <1>0, <2>1, TaskAssumption DEF ServiceOK, AtService
  <2>3. QED
    BY <2>1, <2>2 DEF ServiceOK, RestartsExclusive, AtService
<1>3. CASE UserStep
  <2>1. UNCHANGED <<reliable, pc>> /\ request # "idle"
    BY <1>3 DEF UserStep, UserChecked, UserStarted, handlerVars, SameKlippy
  <2>2. \A t \in Task : pc[t] \notin AtService
    BY <1>0, <2>1, TaskAssumption DEF ServiceOK, AtService
  <2>3. \/ request' = "idle"
        \/ restartLock' = restartLock /\ job' = job /\ (~Running \/ ~reliable)
    BY <1>3 DEF UserStep, UserChecked, UserStarted
  <2>4. restartLock = User
    BY <1>0, <2>1 DEF ServiceOK
  <2>5. QED
    BY <2>1, <2>2, <2>3, <2>4 DEF ServiceOK, RestartsExclusive, AtService, Running
<1>4. CASE JobStops \/ MoonrakerRestarts
  BY <1>4, DiesService DEF JobStops, MoonrakerRestarts
<1>5. CASE JobEnds
  BY <1>0, <1>5 DEF JobEnds, handlerVars, SameKlippy, ServiceOK, RestartsExclusive, Running
<1>6. CASE Connect \/ KlippyShutsDown \/ RecheckFires
  <2>1. UNCHANGED ServicePart
    BY <1>6 DEF Connect, KlippyShutsDown, RecheckFires, SameMemory, serviceVars, ServicePart
  <2>2. Spawns \/ UNCHANGED pc
    BY <1>6 DEF Connect, KlippyShutsDown, RecheckFires, Spawns
  <2>3. \A t \in Task : pc'[t] = pc[t] \/ pc'[t] \notin AtService
    BY <1>0, <2>2 DEF Spawns, Spawn, TaskTypes, AtService
  <2>4. QED
    BY <1>0, <2>1, <2>3, AwayFromService
<1>7. CASE KlippyStarts \/ KlippyRestarts \/ PrintStarts \/ PrintEnds \/ CooldownEnds
           \/ MoonrakerStarts \/ UNCHANGED vars
  <2>1. UNCHANGED ServicePart /\ UNCHANGED pc
    BY <1>7 DEF KlippyStarts, KlippyRestarts, PrintStarts, PrintEnds, CooldownEnds, MoonrakerStarts,
                vars, SameMemory, serviceVars, handlerVars, ServicePart
  <2>2. QED
    BY <1>0, <2>1, AwayFromService
<1>8. QED
  BY <1>1, <1>2, <1>3, <1>4, <1>5, <1>6, <1>7 DEF Next, Step, JobStep

LEMMA NextIInv == IInv /\ [Next]_vars => IInv'
BY NextTypeOK, NextLockOK, NextSound, NextServiceOK DEF IInv, Sound
-----------------------------------------------------------------------------
(* The incident *)

LEMMA InitIncident == Init => Incident!Init
BY DEF Init, NoIncident, Incident!Init

LEMMA NextIncident == IInv /\ [Next]_vars => [Incident!Next]_(Incident!vars)
<1> SUFFICES ASSUME IInv, [Next]_vars PROVE [Incident!Next]_(Incident!vars)
  OBVIOUS
<1>0. TypeOK /\ RecordOK /\ OwnerOK /\ MaxAttempts \in Nat \ {0}
  BY MaxAttemptsAssumption DEF IInv
<1>1. ASSUME NEW t \in Task,
             SaveAttempt(t) \/ SaveReboot(t) \/ SaveGaveUp(t) \/ SaveReset(t) \/ SaveBack(t)
      PROVE  Incident!Next
  <2>0. mcu \in Records /\ loaded[t] \in Records /\ Knows(t)
    BY <1>0 DEF TypeOK, OwnerOK
  <2>1. CASE SaveAttempt(t)
    <3>1. mcu.attempt < MaxAttempts /\ loaded[t].attempt = mcu.attempt
      BY <2>0, <2>1 DEF SaveAttempt, Knows, Saving, Agree
    <3>2. mcu.rebooted = FALSE /\ mcu.gaveUp = FALSE
      BY <1>0, <2>0, <3>1 DEF RecordOK, Records
    <3>3. mcu'.attempt = mcu.attempt + 1 /\ mcu'.rebooted = FALSE /\ mcu'.gaveUp = FALSE
      BY <2>1, <3>1 DEF SaveAttempt, NoIncident
    <3>4. Incident!Attempt
      BY <3>1, <3>2, <3>3 DEF Incident!Attempt
    <3>5. QED
      BY <3>4 DEF Incident!Next
  <2>2. CASE SaveReboot(t)
    <3>1. /\ RebootEnabled /\ mcu.attempt = MaxAttempts /\ ~mcu.rebooted
          /\ Agree(loaded[t], mcu)
      BY <2>0, <2>2 DEF SaveReboot, Knows, Saving
    <3>2. mcu'.attempt = mcu.attempt /\ mcu'.rebooted = TRUE /\ mcu'.gaveUp = mcu.gaveUp
      BY <2>0, <2>2, <3>1 DEF SaveReboot, Agree, Records
    <3>3. ~mcu.gaveUp
      BY <1>0, <3>1 DEF RecordOK
    <3>4. Incident!Reboot
      BY <3>1, <3>2, <3>3 DEF Incident!Reboot
    <3>5. QED
      BY <3>4 DEF Incident!Next
  <2>3. CASE SaveGaveUp(t)
    <3>1. mcu.attempt = MaxAttempts /\ (RebootEnabled => mcu.rebooted) /\ Agree(loaded[t], mcu)
      BY <2>0, <2>3 DEF SaveGaveUp, Knows, Saving
    <3>2. mcu'.attempt = mcu.attempt /\ mcu'.rebooted = mcu.rebooted /\ mcu'.gaveUp = TRUE
      BY <2>0, <2>3, <3>1 DEF SaveGaveUp, Agree, Records
    <3>3. Incident!GiveUp
      BY <3>1, <3>2 DEF Incident!GiveUp
    <3>4. QED
      BY <3>3 DEF Incident!Next
  <2>4. CASE SaveReset(t)
    BY <2>4 DEF SaveReset, NoIncident, Incident!Resolved, Incident!Next
  <2>5. CASE SaveBack(t)
    <3>1. /\ mcu.attempt = loaded[t].attempt + 1
          /\ ~mcu.rebooted /\ ~mcu.gaveUp /\ ~loaded[t].rebooted /\ ~loaded[t].gaveUp
      BY <2>0, <2>5 DEF SaveBack, Knows, Triggering
    <3>2. mcu' = loaded[t]
      BY <2>5 DEF SaveBack
    <3>3. mcu'.attempt = mcu.attempt - 1 /\ mcu.attempt > 0
      BY <2>0, <3>1, <3>2 DEF Records
    <3>4. mcu'.rebooted = mcu.rebooted /\ mcu'.gaveUp = mcu.gaveUp
      BY <2>0, <3>1, <3>2 DEF Records
    <3>5. Incident!Withdraw
      BY <3>1, <3>3, <3>4 DEF Incident!Withdraw
    <3>6. QED
      BY <3>5 DEF Incident!Next
  <2>6. QED
    BY <1>1, <2>1, <2>2, <2>3, <2>4, <2>5
<1>2. ASSUME NEW t \in Task,
             \/ Enter(t) \/ Loaded(t) \/ Announced(t) \/ RebootHost(t) \/ RebootFails(t)
             \/ Trigger(t) \/ Checked(t) \/ Started(t) \/ StartFails(t)
      PROVE  mcu' = mcu
  BY <1>2 DEF Enter, Loaded, Announced, RebootHost, RebootFails, Trigger, Checked, Started,
              StartFails, SameRun, SameRecord, persistent
<1>3. CASE \A t \in Task : ~Step(t)
  <2>1. CASE CooldownEnds
    BY <1>0, <2>1 DEF CooldownEnds, TypeOK, Records, Incident!vars
  <2>2. CASE ~CooldownEnds
    <3>1. mcu' = mcu
      BY <1>3, <2>2, Unwritten DEF persistent
    <3>2. QED
      BY <3>1 DEF Incident!vars
  <2>3. QED
    BY <2>1, <2>2
<1>4. QED
  <2>1. CASE \E t \in Task : Step(t)
    <3>1. PICK t \in Task : Step(t)
      BY <2>1
    <3>2. CASE mcu' = mcu
      BY <3>2 DEF Incident!vars
    <3>3. QED
      BY <1>1, <1>2, <3>1, <3>2 DEF Step, Recover
  <2>2. QED
    BY <1>3, <2>1
-----------------------------------------------------------------------------
(* The theorems *)

LEMMA Invariance == Spec => []IInv
BY InitIInv, NextIInv, PTL DEF Spec

(* Every variable has its type: in particular the record that a handler     *)
(* writes from what it read before an await is one the configuration allows.*)
THEOREM TypeCorrect == Spec => []TypeOK
BY Invariance, PTL DEF IInv

(* Of one incident, no more restarts and reboots are done than configured,  *)
(* however handlers, users, crashes and restarts of Moonraker interleave    *)
(* (auto_recovery.py:273, 301).                                             *)
THEOREM AttemptsNeverExceeded == Spec => []AttemptsCapped
BY Invariance, PTL DEF IInv

(* Nobody is about to start the restart of all services while one runs, if   *)
(* systemctl can be relied upon (printer_services.py:52).                    *)
THEOREM OneRestart == Spec => []RestartsExclusive
<1>1. IInv => RestartsExclusive
  BY DEF IInv, ServiceOK
<1>2. QED
  BY <1>1, Invariance, PTL

(* The record only changes as RecoveryIncident allows: attempts one by one,  *)
(* the reboot after the last of them, a person after the reboot, and a fresh *)
(* start only by a Klipper that was ready.                                   *)
THEOREM ImplementsIncidentSteps == Spec => ImplementsIncident
BY InitIncident, NextIncident, Invariance, PTL DEF Spec, ImplementsIncident, Incident!Spec

=============================================================================

--------------------------- MODULE JobQueueProofs ---------------------------
(***************************************************************************)
(* The print queue's safety properties for any number of requests, timers  *)
(* and jobs.  The heart of every proof is LockOK: a task that is suspended *)
(* inside the critical section is the head of the lock's queue, so whoever *)
(* else touches the queue under the lock finds no pop under way.           *)
(***************************************************************************)
EXTENDS JobQueue, TLAPS

(* The lock's queue: no task twice, the waiters wait, and a task inside the *)
(* critical section is its head.                                            *)
LockOK ==
  /\ \A i, j \in 1..Len(lock) : lock[i] = lock[j] => i = j
  /\ \A i \in 2..Len(lock) : pc[lock[i]] = "wait"
  /\ lock # <<>> => pc[lock[1]] \in Critical \cup {"wait"}
  /\ \A t \in Task : pc[t] \in Critical => lock # <<>> /\ lock[1] = t

LEMMA InitTypeOK == Init => TypeOK
<1> SUFFICES ASSUME Init PROVE TypeOK
  OBVIOUS
<1>1. lock \in Seq(Task) /\ before \subseteq Job \X Job /\ keys \subseteq Job
  BY DEF Init
<1>2. pc \in [Task -> PCs] /\ op \in [Task -> Ops] /\ saved \in [Caller -> BOOLEAN]
  BY DEF Init, Ops, PCs
<1>3. picked \in [Popper -> Job \cup {None}]
  BY DEF Init
<1>4. QED
  BY <1>1, <1>2, <1>3 DEF Init, TypeOK, QueueStates

(* What the moves on the lock preserve. *)
TaskTypes == lock \in Seq(Task) /\ pc \in [Task -> PCs] /\ op \in [Task -> Ops]

LEMMA ReturnTypes ==
  ASSUME TaskTypes, NEW t \in Task, Return(t)
  PROVE  TaskTypes'
BY DEF TaskTypes, Return, Release, PCs, Ops

LEMMA HoldTypes ==
  ASSUME TaskTypes, NEW t \in Task, Hold(t)
  PROVE  (lock \in Seq(Task))'
BY DEF TaskTypes, Hold

LEMMA ArmTypes ==
  ASSUME TaskTypes, NEW t \in Caller, NEW p \in Popper, NEW kind \in PopOps, Arm(t, p, kind)
  PROVE  TaskTypes' /\ queueState' = "loading" /\ handle' = p
BY DEF TaskTypes, Arm, Release, PCs, Ops, Task

LEMMA BlocksTypes ==
  ASSUME TaskTypes, NEW t \in Task, NEW o \in Ops, Blocks(t, o)
  PROVE  TaskTypes'
BY DEF TaskTypes, Blocks, PCs

LEMMA NextTypeOK == TypeOK /\ [Next]_vars => TypeOK'
<1> SUFFICES ASSUME TypeOK, [Next]_vars PROVE TypeOK'
  OBVIOUS
<1>0. TaskTypes
  BY DEF TypeOK, TaskTypes
<1> USE DEF TypeOK, QueueStates, SameKlippy, SameQueue, queueVars, stateVars, klippyVars
<1>1. ASSUME NEW t \in Caller, Wait(t) PROVE TypeOK'
  BY <1>0, <1>1, BlocksTypes DEF Wait, Task, Ops, TaskTypes
<1>2. ASSUME NEW t \in Caller, QueueJob(t) PROVE TypeOK'
  BY <1>0, <1>2, ReturnTypes DEF QueueJob, Orders, Task, TaskTypes
<1>3. ASSUME NEW t \in Caller, DeleteJob(t) PROVE TypeOK'
  BY <1>0, <1>3, ReturnTypes DEF DeleteJob, Discard, Task, TaskTypes
<1>4. ASSUME NEW t \in Caller, Jump(t) PROVE TypeOK'
  BY <1>0, <1>4, ReturnTypes DEF Jump, Task, TaskTypes
<1>5. ASSUME NEW t \in Caller, NEW o \in {"pause", "shutdown"}, PauseNow(t, o) PROVE TypeOK'
  <2>1. lock' \in Seq(Task)
    BY <1>5 DEF PauseNow, Task
  <2>2. pc' \in [Task -> PCs]
    BY <1>5 DEF PauseNow, PCs
  <2>3. op' \in [Task -> Ops]
    BY <1>5 DEF PauseNow, Ops, Requests, Events
  <2>4. saved' \in [Caller -> BOOLEAN] /\ pauseRequested' \in BOOLEAN /\ pausedMeanwhile' \in BOOLEAN
    BY <1>5 DEF PauseNow
  <2>5. QED
    BY <1>5, <2>1, <2>2, <2>3, <2>4 DEF PauseNow
<1>6. ASSUME NEW t \in Caller, NEW o \in {"pause", "shutdown"}, PauseDone(t, o) PROVE TypeOK'
  BY <1>0, <1>6, ReturnTypes DEF PauseDone, Task, TaskTypes
<1>7. ASSUME NEW t \in Caller, StartQueue(t) PROVE TypeOK'
  <2>1. pauseRequested' \in BOOLEAN /\ queueState' \in QueueStates
    BY <1>7 DEF StartQueue
  <2>2. TaskTypes'
    BY <1>0, <1>7, ReturnTypes, HoldTypes
       DEF StartQueue, Task, TaskTypes, PCs, Critical, Querying, Ops, Requests
  <2>3. QED
    BY <1>7, <2>1, <2>2 DEF StartQueue, TaskTypes
<1>8. ASSUME NEW t \in Caller, StartQueueAnswered(t) PROVE TypeOK'
  BY <1>0, <1>8, ArmTypes, ReturnTypes DEF StartQueueAnswered, Task, TaskTypes, PopOps
<1>9. ASSUME NEW t \in Caller, HandleReady(t) \/ OnJobComplete(t) PROVE TypeOK'
  BY <1>0, <1>9, ArmTypes, ReturnTypes
     DEF HandleReady, OnJobComplete, LoadNext, Task, TaskTypes, PopOps
<1>10. ASSUME NEW t \in Caller, OnJobAbort(t) PROVE TypeOK'
  BY <1>0, <1>10, ReturnTypes DEF OnJobAbort, Task, TaskTypes
<1>11. ASSUME NEW t \in Task, CheckCanPrint(t) PROVE TypeOK'
  BY <1>11 DEF CheckCanPrint, PCs, Critical, Querying
<1>12. ASSUME NEW p \in Popper, TimerFires(p) PROVE TypeOK'
  BY <1>12 DEF TimerFires, PCs, Task
<1>13. ASSUME NEW p \in Popper, PopWait(p) \/ PopAdmitted(p) PROVE TypeOK'
  <2>1. CASE PopWait(p)
    BY <1>0, <2>1, BlocksTypes DEF PopWait, Task, TaskTypes
  <2>2. CASE PopAdmitted(p)
    <3>1. TaskTypes'
      BY <1>0, <2>2, ReturnTypes, HoldTypes
         DEF PopAdmitted, Task, TaskTypes, PCs, Critical, Querying
    <3>2. picked' \in [Popper -> Job \cup {None}]
      BY <2>2 DEF PopAdmitted
    <3>3. QED
      BY <2>2, <3>1, <3>2 DEF PopAdmitted, TaskTypes
  <2>3. QED
    BY <1>13, <2>1, <2>2
<1>14. ASSUME NEW p \in Popper, PopAnswered(p) \/ PopTransitioned(p) PROVE TypeOK'
  <2>1. TaskTypes'
    BY <1>0, <1>14, ReturnTypes
       DEF PopAnswered, PopTransitioned, PopFails, PopStarts, Task, TaskTypes, PCs, Critical, Starting
  <2>2. picked' \in [Popper -> Job \cup {None}] /\ queueState' \in QueueStates
    BY <1>14 DEF PopAnswered, PopTransitioned, PopFails, PopStarts
  <2>3. QED
    BY <1>14, <2>1, <2>2 DEF PopAnswered, PopTransitioned, PopFails, PopStarts, TaskTypes
<1>15. ASSUME NEW p \in Popper, PopWaitRaises(p) \/ PopRefused(p) PROVE TypeOK'
  BY <1>0, <1>15, ReturnTypes DEF PopWaitRaises, PopRefused, PopFails, Task, TaskTypes
<1>16. ASSUME NEW p \in Popper, PopStarted(p) PROVE TypeOK'
  BY <1>0, <1>16, ReturnTypes DEF PopStarted, Discard, Task, TaskTypes
<1>17. ASSUME NEW p \in Popper, StartPrint(p) PROVE TypeOK'
  BY <1>17 DEF StartPrint, PCs, Critical, Starting
<1>18. CASE PrintByOther \/ PrintEnds \/ KlippyDown
  BY <1>18 DEF PrintByOther, PrintEnds, KlippyDown, SameTasks, PCs, Critical, Starting, Ops, Events
<1>19. CASE KlippyReady \/ JobStateChanged
  BY <1>19 DEF KlippyReady, JobStateChanged, Spawn, SameTasks, PCs, Ops, Events
<1>20. CASE UNCHANGED vars
  BY <1>20 DEF vars, taskVars
<1>21. QED
  BY <1>1, <1>2, <1>3, <1>4, <1>5, <1>6, <1>7, <1>8, <1>9, <1>10, <1>11, <1>12, <1>13,
     <1>14, <1>15, <1>16, <1>17, <1>18, <1>19, <1>20 DEF Next, CallerStep, PopJob, Task

-----------------------------------------------------------------------------
(* The lock. *)

(* A task about to give the lock back owns it, or found it free. *)
AtHead(t) ==
  \/ lock = <<>> /\ pc[t] \notin Critical \cup {"wait"}
  \/ lock # <<>> /\ lock[1] = t

LEMMA EntersAtHead ==
  ASSUME TaskTypes, LockOK, NEW t \in Task, NEW o \in Ops, Enters(t, o)
  PROVE  AtHead(t) /\ \A u \in Task : pc[u] \notin Critical
<1>1. CASE lock = <<>> /\ Arrives(t, o)
  <2>1. pc[t] \notin Critical \cup {"wait"}
    BY <1>1 DEF Arrives, Critical, Querying, Starting
  <2>2. AtHead(t)
    BY <1>1, <2>1 DEF AtHead
  <2>3. \A u \in Task : pc[u] \notin Critical
    BY <1>1 DEF LockOK
  <2>4. QED
    BY <2>2, <2>3
<1>2. CASE Resumes(t, o)
  <2>1. lock # <<>> /\ lock[1] = t /\ pc[t] = "wait"
    BY <1>2 DEF Resumes, TaskTypes
  <2>2. pc[t] \notin Critical
    BY <2>1 DEF Critical, Querying, Starting
  <2>3. QED
    BY <2>1, <2>2 DEF LockOK, AtHead
<1>3. QED
  BY <1>1, <1>2 DEF Enters

LEMMA CriticalAtHead ==
  ASSUME TaskTypes, LockOK, NEW t \in Task, pc[t] \in Critical
  PROVE  AtHead(t) /\ \A u \in Task \ {t} : pc[u] \notin Critical
BY DEF TaskTypes, LockOK, AtHead

LEMMA ReturnKeepsLock ==
  ASSUME TaskTypes, LockOK, NEW t \in Task, AtHead(t), Return(t)
  PROVE  LockOK'
<1>1. CASE lock = <<>>
  BY <1>1 DEF TaskTypes, LockOK, Return, Release, AtHead, Critical, Querying, Starting
<1>2. CASE lock # <<>>
  <2>1. /\ lock' = Tail(lock)
        /\ Len(lock') = Len(lock) - 1
        /\ \A i \in 1..Len(lock') : lock'[i] = lock[i + 1]
    BY <1>2 DEF Return, Release, TaskTypes
  <2>2. \A i \in 2..Len(lock) : lock[i] # t
    BY <1>2 DEF AtHead, LockOK, TaskTypes
  <2>3. /\ pc'[t] = "idle"
        /\ \A u \in Task \ {t} : pc'[u] = pc[u]
    BY DEF Return, TaskTypes
  <2>4. \A i \in 1..Len(lock') : pc'[lock'[i]] = "wait"
    BY <1>2, <2>1, <2>2, <2>3 DEF LockOK, TaskTypes
  <2>5. \A u \in Task : pc'[u] \notin Critical
    BY <1>2, <2>3 DEF LockOK, AtHead, Critical, Querying, Starting
  <2>6. \A i, j \in 1..Len(lock') : lock'[i] = lock'[j] => i = j
    BY <1>2, <2>1 DEF LockOK, TaskTypes
  <2>7. lock' # <<>> => 1 \in 1..Len(lock')
    BY <1>2, <2>1 DEF TaskTypes
  <2>8. \A i \in 2..Len(lock') : i \in 1..Len(lock')
    BY <1>2, <2>1 DEF TaskTypes
  <2>9. QED
    BY <2>4, <2>5, <2>6, <2>7, <2>8 DEF LockOK
<1>3. QED
  BY <1>1, <1>2

LEMMA HoldKeepsLock ==
  ASSUME TaskTypes, LockOK, NEW t \in Task, AtHead(t), Hold(t),
         NEW c \in Critical, pc' = [pc EXCEPT ![t] = c]
  PROVE  LockOK'
BY DEF TaskTypes, LockOK, Hold, AtHead

LEMMA ArmKeepsLock ==
  ASSUME TaskTypes, LockOK, NEW t \in Caller, NEW p \in Popper, NEW kind \in PopOps,
         AtHead(t), Arm(t, p, kind)
  PROVE  LockOK'
<1>1. t # p /\ t \in Task /\ p \in Task
  BY TasksDistinct DEF Task
<1>2. pc[p] = "idle" /\ pc' = [pc EXCEPT ![t] = "idle", ![p] = "timer"]
  BY DEF Arm
<1>3. CASE lock = <<>>
  BY <1>1, <1>2, <1>3 DEF TaskTypes, LockOK, Arm, Release, AtHead, Critical, Querying, Starting
<1>4. CASE lock # <<>>
  <2>1. /\ lock' = Tail(lock)
        /\ Len(lock') = Len(lock) - 1
        /\ \A i \in 1..Len(lock') : lock'[i] = lock[i + 1]
    BY <1>4 DEF Arm, Release, TaskTypes
  <2>2. \A i \in 2..Len(lock) : lock[i] # t /\ lock[i] # p
    BY <1>2, <1>4 DEF AtHead, LockOK, TaskTypes
  <2>3. /\ pc'[t] = "idle" /\ pc'[p] = "timer"
        /\ \A u \in Task \ {t, p} : pc'[u] = pc[u]
    BY <1>1, <1>2 DEF TaskTypes
  <2>4. \A i \in 1..Len(lock') : pc'[lock'[i]] = "wait"
    BY <1>4, <2>1, <2>2, <2>3 DEF LockOK, TaskTypes
  <2>5. \A u \in Task : pc'[u] \notin Critical
    BY <1>4, <2>3 DEF LockOK, AtHead, Critical, Querying, Starting
  <2>6. \A i, j \in 1..Len(lock') : lock'[i] = lock'[j] => i = j
    BY <1>4, <2>1 DEF LockOK, TaskTypes
  <2>7. lock' # <<>> => 1 \in 1..Len(lock')
    BY <1>4, <2>1 DEF TaskTypes
  <2>8. \A i \in 2..Len(lock') : i \in 1..Len(lock')
    BY <1>4, <2>1 DEF TaskTypes
  <2>9. QED
    BY <2>4, <2>5, <2>6, <2>7, <2>8 DEF LockOK
<1>5. QED
  BY <1>3, <1>4

LEMMA BlocksKeepsLock ==
  ASSUME TaskTypes, LockOK, NEW t \in Task, pc[t] \notin Critical \cup {"wait"},
         lock # <<>>, lock' = Append(lock, t), pc'[t] = "wait", pc' \in [Task -> PCs],
         \A u \in Task \ {t} :
            \/ pc'[u] = pc[u]
            \/ {pc[u], pc'[u]} \cap (Critical \cup {"wait"}) = {}
  PROVE  LockOK'
<1>1. /\ Len(lock') = Len(lock) + 1
      /\ lock'[Len(lock) + 1] = t
      /\ \A i \in 1..Len(lock) : lock'[i] = lock[i]
      /\ 1 \in 1..Len(lock)
  BY DEF TaskTypes
<1>2. \A i \in 1..Len(lock) : lock[i] \in Task \ {t}
  BY <1>1 DEF LockOK, TaskTypes
<1>3. \A i, j \in 1..Len(lock') : lock'[i] = lock'[j] => i = j
  BY <1>1, <1>2 DEF LockOK, TaskTypes
<1>4. \A i \in 2..Len(lock') : pc'[lock'[i]] = "wait"
  BY <1>1, <1>2 DEF LockOK, TaskTypes
<1>5. pc'[lock'[1]] \in Critical \cup {"wait"}
  BY <1>1, <1>2 DEF LockOK, TaskTypes
<1>6. \A u \in Task : pc'[u] \in Critical => lock' # <<>> /\ lock'[1] = u
  <2>1. "wait" \notin Critical
    BY DEF Critical, Querying, Starting
  <2>2. \A u \in Task : pc'[u] \in Critical => pc[u] \in Critical
    BY <2>1
  <2>3. lock' # <<>> /\ lock'[1] = lock[1]
    BY <1>1 DEF TaskTypes
  <2>4. QED
    BY <2>2, <2>3 DEF LockOK
<1>7. QED
  BY <1>3, <1>4, <1>5, <1>6 DEF LockOK

(* A step that leaves the lock alone moves tasks only within or outside the *)
(* critical section.                                                        *)
LEMMA SameLock ==
  ASSUME TaskTypes, LockOK, lock' = lock, pc' \in [Task -> PCs],
         \A u \in Task :
            \/ pc'[u] = pc[u]
            \/ {pc[u], pc'[u]} \subseteq Critical
            \/ {pc[u], pc'[u]} \cap (Critical \cup {"wait"}) = {}
  PROVE  LockOK'
BY DEF LockOK, TaskTypes

-----------------------------------------------------------------------------
(* A pop inside the critical section works on the head of the queue. *)
PicksOK ==
  \A p \in Popper :
     /\ pc[p] \in Critical => picked[p] \in Job /\ IsFirst(picked[p])
     /\ pc[p] \notin Critical => picked[p] = None

(* While a pop is starting a print, only pause_queue changes the state. *)
StartingOK == \A p \in Popper : pc[p] \in Starting => queueState \in {"starting", "paused"}

PauseOK == \A p \in Popper : Loading(p) /\ pausedMeanwhile => queueState = "paused"

IInv ==
  /\ TypeOK
  /\ LockOK
  /\ PicksOK
  /\ StartingOK
  /\ PauseOK
  /\ LoadingHasPop
  /\ PrintedEntryLeaves

(* The parts of IInv that a task outside every critical section can disturb, *)
(* and that are trivially kept when no pop is inside one.                    *)
NoPop == \A p \in Popper : pc[p] \notin Critical

LEMMA NoPopParts ==
  ASSUME NoPop, PicksOK, NoPop', picked' = picked
  PROVE  PicksOK' /\ StartingOK' /\ PauseOK'
BY DEF NoPop, PicksOK, StartingOK, PauseOK, Loading, Critical

LEMMA InitIInv == Init => IInv
<1> SUFFICES ASSUME Init PROVE IInv
  OBVIOUS
<1>1. TypeOK
  BY InitTypeOK
<1>2. LockOK
  BY DEF Init, LockOK, Critical, Querying, Starting
<1>3. PicksOK /\ StartingOK /\ PauseOK
  BY DEF Init, PicksOK, StartingOK, PauseOK, Critical, Querying, Starting, Loading, Task
<1>4. LoadingHasPop /\ PrintedEntryLeaves
  BY DEF Init, LoadingHasPop, PrintedEntryLeaves
<1>5. QED
  BY <1>1, <1>2, <1>3, <1>4 DEF IInv

KeptByCaller ==
  /\ LockOK' /\ PicksOK' /\ StartingOK' /\ PauseOK'
  /\ \A p \in Popper : pc[p] \notin Critical /\ (pc[p] # "idle" => pc'[p] = pc[p])

(* A caller that runs under the lock ends, or asks Klippy: no pop is inside *)
(* the critical section before or after.                                    *)
LEMMA CallerKeeps ==
  ASSUME IInv, NEW t \in Caller, NEW o \in Ops, Enters(t, o) \/ pc[t] \in Critical,
         \/ Return(t)
         \/ Hold(t) /\ pc' = [pc EXCEPT ![t] = "query"]
         \/ \E p \in Popper, kind \in PopOps : Arm(t, p, kind),
         picked' = picked
  PROVE  KeptByCaller
<1>0. t \in Task /\ TaskTypes /\ \A p \in Popper : p \in Task \ {t}
  BY TasksDistinct DEF IInv, TypeOK, TaskTypes, Task
<1>1. AtHead(t) /\ \A u \in Task \ {t} : pc[u] \notin Critical
  BY <1>0, EntersAtHead, CriticalAtHead DEF IInv
<1>2. NoPop
  BY <1>0, <1>1 DEF NoPop
<1>3. LockOK' /\ NoPop' /\ \A p \in Popper : pc[p] # "idle" => pc'[p] = pc[p]
  <2>1. CASE Return(t)
    BY <1>0, <1>1, <1>2, <2>1, ReturnKeepsLock DEF IInv, Return, NoPop, TaskTypes
  <2>2. CASE Hold(t) /\ pc' = [pc EXCEPT ![t] = "query"]
    <3>1. LockOK'
      BY <1>0, <1>1, <2>2, HoldKeepsLock DEF IInv, Critical, Querying
    <3>2. QED
      BY <1>0, <1>2, <2>2, <3>1 DEF NoPop, TaskTypes
  <2>3. ASSUME NEW p \in Popper, NEW kind \in PopOps, Arm(t, p, kind)
        PROVE  LockOK' /\ NoPop' /\ \A q \in Popper : pc[q] # "idle" => pc'[q] = pc[q]
    <3>1. LockOK'
      BY <1>0, <1>1, <2>3, ArmKeepsLock DEF IInv
    <3>2. pc[p] = "idle" /\ pc' = [pc EXCEPT ![t] = "idle", ![p] = "timer"]
      BY <2>3 DEF Arm
    <3>3. NoPop'
      BY <1>0, <1>2, <3>2 DEF NoPop, TaskTypes, Critical, Querying, Starting
    <3>4. QED
      BY <1>0, <3>1, <3>2, <3>3 DEF TaskTypes
  <2>4. QED
    BY <2>1, <2>2, <2>3
<1>4. QED
  BY <1>0, <1>2, <1>3, NoPopParts DEF IInv, NoPop, KeptByCaller

(* The two properties about the printed entry and the loading state, for a    *)
(* caller's step: it runs while no pop is inside, and a queue it leaves in    *)
(* "loading" was so before, or has just had a timer armed for it.             *)
LEMMA CallerStepKeeps ==
  ASSUME IInv, NEW t \in Caller, CallerStep(t)
  PROVE  IInv'
<1> USE DEF SameKlippy, SameQueue, queueVars, stateVars, klippyVars
<1>0. TypeOK' /\ TaskTypes /\ t \in Task /\ \A p \in Popper : p \in Task \ {t}
  BY NextTypeOK, TasksDistinct DEF IInv, Next, TypeOK, TaskTypes, Task
<1>1. CASE Wait(t)
  <2>1. PICK o \in (Requests \cup Events) \ {"pause", "shutdown"} : Blocks(t, o)
    BY <1>1 DEF Wait
  <2>2. /\ pc[t] \in {"idle", "run"} /\ lock # <<>> /\ lock' = Append(lock, t)
        /\ pc' = [pc EXCEPT ![t] = "wait"]
    BY <2>1 DEF Blocks, Arrives
  <2>3. pc[t] \notin Critical \cup {"wait"} /\ pc'[t] = "wait" /\ \A u \in Task \ {t} : pc'[u] = pc[u]
    BY <1>0, <2>2 DEF TaskTypes, Critical, Querying, Starting
  <2>4. LockOK'
    BY <1>0, <2>2, <2>3, BlocksKeepsLock DEF IInv, TypeOK
  <2>5. QED
    BY <1>0, <1>1, <2>3, <2>4
       DEF IInv, Wait, PicksOK, StartingOK, PauseOK, LoadingHasPop, PrintedEntryLeaves, IsFirst, Loading
<1>2. CASE QueueJob(t)
  <2>1. KeptByCaller
    BY <1>2, CallerKeeps DEF QueueJob, Ops, Requests
  <2>2. LoadingHasPop'
    BY <1>2, <2>1 DEF QueueJob, IInv, KeptByCaller, LoadingHasPop, Loading, Critical
  <2>3. PrintedEntryLeaves'
    BY <1>2, <2>1 DEF QueueJob, IInv, KeptByCaller, PrintedEntryLeaves, Critical, Starting
  <2>4. QED
    BY <1>0, <2>1, <2>2, <2>3 DEF IInv, KeptByCaller
<1>3. CASE DeleteJob(t)
  <2>1. KeptByCaller
    BY <1>3, CallerKeeps DEF DeleteJob, Ops, Requests
  <2>2. LoadingHasPop'
    BY <1>3, <2>1 DEF DeleteJob, IInv, KeptByCaller, LoadingHasPop, Loading, Critical
  <2>3. PrintedEntryLeaves'
    BY <1>3, <2>1 DEF DeleteJob, Discard, IInv, KeptByCaller, PrintedEntryLeaves, Critical, Starting
  <2>4. QED
    BY <1>0, <2>1, <2>2, <2>3 DEF IInv, KeptByCaller
<1>4. CASE Jump(t)
  <2>1. KeptByCaller
    BY <1>4, CallerKeeps DEF Jump, Ops, Requests
  <2>2. LoadingHasPop'
    BY <1>4, <2>1 DEF Jump, IInv, KeptByCaller, LoadingHasPop, Loading, Critical
  <2>3. PrintedEntryLeaves'
    BY <1>4, <2>1 DEF Jump, IInv, KeptByCaller, PrintedEntryLeaves, Critical, Starting
  <2>4. QED
    BY <1>0, <2>1, <2>2, <2>3 DEF IInv, KeptByCaller
<1>5. ASSUME NEW o \in {"pause", "shutdown"}, PauseNow(t, o) PROVE IInv'
  <2>1. pc[t] \in {"idle", "run"} /\ queueState' = "paused"
    BY <1>5 DEF PauseNow, Arrives
  <2>2. \A u \in Task \ {t} : pc'[u] = pc[u] \/ (pc[u] = "timer" /\ pc'[u] = "idle")
    BY <1>0, <1>5 DEF PauseNow, TaskTypes
  <2>3. pc[t] \notin Critical \cup {"wait"} /\ {"timer", "idle"} \cap (Critical \cup {"wait"}) = {}
    BY <2>1 DEF Critical, Querying, Starting
  <2>4. LockOK'
    <3>1. CASE lock = <<>>
      <4>1. lock' = lock /\ pc'[t] = "idle"
        BY <1>0, <1>5, <3>1 DEF PauseNow
      <4>2. QED
        BY <1>0, <2>2, <2>3, <4>1, SameLock DEF IInv, TypeOK
    <3>2. CASE lock # <<>>
      <4>1. lock' = Append(lock, t) /\ pc'[t] = "wait"
        BY <1>0, <1>5, <3>2 DEF PauseNow
      <4>2. QED
        BY <1>0, <2>2, <2>3, <3>2, <4>1, BlocksKeepsLock DEF IInv, TypeOK
    <3>3. QED
      BY <3>1, <3>2
  <2>5. \A p \in Popper : \A X \in {Critical, Starting, {"started"}} : pc'[p] \in X <=> pc[p] \in X
    BY <1>0, <2>2 DEF Critical, Querying, Starting
  <2>6. PicksOK' /\ StartingOK' /\ PauseOK' /\ LoadingHasPop'
    BY <1>5, <2>1, <2>5 DEF IInv, KeptByCaller, PauseNow, PicksOK, StartingOK, PauseOK, LoadingHasPop, IsFirst
  <2>7. PrintedEntryLeaves'
    BY <1>5, <2>5 DEF IInv, KeptByCaller, PauseNow, PrintedEntryLeaves
  <2>8. QED
    BY <1>0, <2>4, <2>6, <2>7 DEF IInv
<1>6. ASSUME NEW o \in {"pause", "shutdown"}, PauseDone(t, o) PROVE IInv'
  <2>1. KeptByCaller
    BY <1>6, CallerKeeps DEF PauseDone, Enters, Ops, Requests, Events
  <2>2. LoadingHasPop'
    BY <1>6, <2>1 DEF PauseDone, IInv, KeptByCaller, LoadingHasPop, Loading, Critical
  <2>3. PrintedEntryLeaves'
    BY <1>6, <2>1 DEF PauseDone, IInv, KeptByCaller, PrintedEntryLeaves, Critical, Starting
  <2>4. QED
    BY <1>0, <2>1, <2>2, <2>3 DEF IInv, KeptByCaller
<1>7. CASE StartQueue(t)
  <2>1. KeptByCaller
    BY <1>7, CallerKeeps DEF StartQueue, Ops, Requests
  <2>2. LoadingHasPop'
    BY <1>7, <2>1 DEF StartQueue, IInv, KeptByCaller, LoadingHasPop, Loading, Critical
  <2>3. PrintedEntryLeaves'
    BY <1>7, <2>1 DEF StartQueue, IInv, KeptByCaller, PrintedEntryLeaves, Critical, Starting
  <2>4. QED
    BY <1>0, <2>1, <2>2, <2>3 DEF IInv, KeptByCaller
<1>8. CASE StartQueueAnswered(t)
  <2>1. pc[t] \in Critical
    BY <1>8 DEF StartQueueAnswered, Critical, Querying
  <2>2. KeptByCaller
    BY <1>8, <2>1, CallerKeeps DEF StartQueueAnswered, Ops, Requests, PopOps
  <2>3. LoadingHasPop'
    BY <1>0, <1>8, <2>2 DEF StartQueueAnswered, Arm, IInv, KeptByCaller, LoadingHasPop, Loading, Critical, TaskTypes
  <2>4. PrintedEntryLeaves'
    BY <1>8, <2>2 DEF StartQueueAnswered, IInv, KeptByCaller, PrintedEntryLeaves, Critical, Starting
  <2>5. QED
    BY <1>0, <2>2, <2>3, <2>4 DEF IInv, KeptByCaller
<1>9. ASSUME NEW o \in Ops, NEW kind \in PopOps, NEW wanted, LoadNext(t, o, wanted, kind) PROVE IInv'
  <2>1. KeptByCaller
    BY <1>9, CallerKeeps DEF LoadNext
  <2>2. LoadingHasPop'
    BY <1>0, <1>9, <2>1 DEF LoadNext, Arm, IInv, KeptByCaller, LoadingHasPop, Loading, Critical, TaskTypes
  <2>3. PrintedEntryLeaves'
    BY <1>9, <2>1 DEF LoadNext, IInv, KeptByCaller, PrintedEntryLeaves, Critical, Starting
  <2>4. QED
    BY <1>0, <2>1, <2>2, <2>3 DEF IInv, KeptByCaller
<1>10. CASE HandleReady(t) \/ OnJobComplete(t)
  BY <1>9, <1>10 DEF HandleReady, OnJobComplete, Ops, Events, PopOps
<1>11. CASE OnJobAbort(t)
  <2>1. KeptByCaller
    BY <1>11, CallerKeeps DEF OnJobAbort, Ops, Events
  <2>2. LoadingHasPop'
    BY <1>11, <2>1 DEF OnJobAbort, IInv, KeptByCaller, LoadingHasPop, Loading, Critical
  <2>3. PrintedEntryLeaves'
    BY <1>11, <2>1 DEF OnJobAbort, IInv, KeptByCaller, PrintedEntryLeaves, Critical, Starting
  <2>4. QED
    BY <1>0, <2>1, <2>2, <2>3 DEF IInv, KeptByCaller
<1>12. QED
  BY <1>1, <1>2, <1>3, <1>4, <1>5, <1>6, <1>7, <1>8, <1>10, <1>11 DEF CallerStep

(* The pop that is inside the critical section is the only one. *)
LEMMA PopInside ==
  ASSUME IInv, NEW p \in Popper, pc[p] \in Critical
  PROVE  /\ AtHead(p) /\ lock # <<>>
         /\ \A q \in Popper \ {p} : pc[q] \notin Critical
         /\ picked[p] \in Job /\ IsFirst(picked[p])
<1>1. p \in Task /\ TaskTypes
  BY DEF IInv, TypeOK, TaskTypes, Task
<1>2. AtHead(p) /\ \A u \in Task \ {p} : pc[u] \notin Critical
  BY <1>1, CriticalAtHead DEF IInv
<1>3. lock # <<>>
  BY <1>1 DEF IInv, LockOK
<1>4. PicksOK
  BY DEF IInv
<1>5. picked[p] \in Job /\ IsFirst(picked[p])
  BY <1>4 DEF PicksOK
<1>6. \A q \in Popper \ {p} : pc[q] \notin Critical
  BY <1>2 DEF Task
<1>7. QED
  BY <1>2, <1>3, <1>5, <1>6

LEMMA PopStepKeeps ==
  ASSUME IInv, NEW p \in Popper, PopJob(p) \/ TimerFires(p)
  PROVE  IInv'
<1> USE DEF SameKlippy, SameQueue, queueVars, stateVars, klippyVars
<1>0. TypeOK' /\ TaskTypes /\ p \in Task
  BY NextTypeOK DEF IInv, Next, TypeOK, TaskTypes, Task
<1>1. CASE TimerFires(p)
  <2>1. /\ pc'[p] = "run" /\ pc[p] = "timer" /\ \A u \in Task \ {p} : pc'[u] = pc[u]
        /\ {"run", "timer"} \cap (Critical \cup {"wait"}) = {}
    BY <1>0, <1>1 DEF TimerFires, TaskTypes, Critical, Querying, Starting
  <2>2. LockOK'
    BY <1>0, <1>1, <2>1, SameLock DEF IInv, TypeOK, TimerFires
  <2>3. PicksOK' /\ StartingOK' /\ PauseOK' /\ LoadingHasPop' /\ PrintedEntryLeaves'
    BY <1>0, <1>1, <2>1
       DEF IInv, TimerFires, PicksOK, StartingOK, PauseOK, LoadingHasPop, PrintedEntryLeaves,
           IsFirst, Loading, Task, Critical
  <2>4. QED
    BY <1>0, <2>2, <2>3 DEF IInv
<1>2. CASE PopWait(p)
  <2>1. /\ pc[p] \in {"idle", "run"} /\ lock # <<>> /\ lock' = Append(lock, p)
        /\ pc' = [pc EXCEPT ![p] = "wait"]
    BY <1>2 DEF PopWait, Blocks, Arrives
  <2>2. pc[p] \notin Critical \cup {"wait"} /\ pc'[p] = "wait" /\ \A u \in Task \ {p} : pc'[u] = pc[u]
    BY <1>0, <2>1 DEF TaskTypes, Critical, Querying, Starting
  <2>3. LockOK'
    BY <1>0, <2>1, <2>2, BlocksKeepsLock DEF IInv, TypeOK
  <2>4. QED
    BY <1>0, <1>2, <2>2, <2>3
       DEF IInv, PopWait, PicksOK, StartingOK, PauseOK, LoadingHasPop, PrintedEntryLeaves,
           IsFirst, Loading, Task, Critical, Querying, Starting
<1>3. CASE PopAdmitted(p)
  <2>1. AtHead(p) /\ \A u \in Task : pc[u] \notin Critical
    BY <1>0, <1>3, EntersAtHead DEF IInv, PopAdmitted, TypeOK
  <2>2. CASE queueState = "paused" \/ keys = {}
    <3>1. LockOK'
      BY <1>0, <1>3, <2>1, <2>2, ReturnKeepsLock DEF IInv, PopAdmitted
    <3>2. NoPop /\ NoPop' /\ picked' = picked /\ queueState' = "paused" /\ UNCHANGED <<keys, printing>>
      BY <1>0, <1>3, <2>1, <2>2
         DEF PopAdmitted, Return, NoPop, TaskTypes, Critical, Querying, Starting, Task
    <3>3. PicksOK' /\ StartingOK' /\ PauseOK' /\ LoadingHasPop'
      BY <3>2, NoPopParts DEF IInv, LoadingHasPop
    <3>4. PrintedEntryLeaves'
      BY <3>2 DEF IInv, PrintedEntryLeaves, NoPop, Critical, Starting
    <3>5. QED
      BY <1>0, <3>1, <3>3, <3>4 DEF IInv
  <2>3. CASE ~(queueState = "paused" \/ keys = {})
    <3>1. /\ Hold(p) /\ pc' = [pc EXCEPT ![p] = "query"] /\ ~pausedMeanwhile'
          /\ UNCHANGED <<keys, before, printing, queueState>>
      BY <1>3, <2>3 DEF PopAdmitted
    <3>2. PICK j \in Job : IsFirst(j) /\ picked' = [picked EXCEPT ![p] = j]
      BY <1>3, <2>3 DEF PopAdmitted
    <3>3. pc'[p] = "query" /\ \A q \in Popper \ {p} : pc'[q] = pc[q] /\ picked'[q] = picked[q]
      BY <1>0, <3>1, <3>2 DEF TaskTypes, IInv, TypeOK, Task
    <3>4. LockOK'
      BY <1>0, <2>1, <3>1, HoldKeepsLock DEF IInv, Critical, Querying
    <3>5. picked'[p] = j /\ (IsFirst(j))'
      BY <3>1, <3>2 DEF IInv, TypeOK, IsFirst
    <3>6. PicksOK' /\ StartingOK' /\ PauseOK' /\ LoadingHasPop'
      BY <2>1, <3>1, <3>3, <3>5
         DEF IInv, PicksOK, StartingOK, PauseOK, LoadingHasPop, Loading, Critical, Querying, Starting, Task
    <3>7. PrintedEntryLeaves'
      BY <2>1, <3>1, <3>3 DEF IInv, PrintedEntryLeaves, Critical, Starting, Task
    <3>8. QED
      BY <1>0, <3>4, <3>6, <3>7 DEF IInv
  <2>4. QED
    BY <2>2, <2>3
<1>4. ASSUME pc[p] \in Critical, Return(p), picked' = [picked EXCEPT ![p] = None],
             queueState' # "loading",
             UNCHANGED printing,
             \/ UNCHANGED keys /\ (pc[p] = "started" => printing # picked[p])
             \/ keys' = keys \ {picked[p]}
      PROVE  IInv'
  <2>1. LockOK'
    BY <1>0, <1>4, PopInside, ReturnKeepsLock DEF IInv
  <2>2. /\ pc'[p] = "idle" /\ picked'[p] = None
        /\ \A q \in Popper \ {p} : pc'[q] = pc[q] /\ picked'[q] = picked[q] /\ pc[q] \notin Critical
    BY <1>0, <1>4, PopInside DEF Return, TaskTypes, IInv, TypeOK, Task
  <2>3. PicksOK' /\ StartingOK' /\ PauseOK' /\ LoadingHasPop'
    BY <1>4, <2>2
       DEF IInv, PicksOK, StartingOK, PauseOK, LoadingHasPop, Loading, Critical, Querying, Starting
  <2>4. PrintedEntryLeaves'
    BY <1>4, <2>2 DEF IInv, PrintedEntryLeaves, Critical, Starting
  <2>5. QED
    BY <1>0, <2>1, <2>3, <2>4 DEF IInv
<1>5. ASSUME pc[p] \in Critical, NEW c \in {"gcode", "start"}, pc' = [pc EXCEPT ![p] = c],
             UNCHANGED <<keys, before, printing, picked, lock>>, Loading(p),
             \/ c = "gcode" /\ UNCHANGED <<queueState, pausedMeanwhile>>
             \/ c = "start" /\ queueState' = "starting"
      PROVE  IInv'
  <2>1. c \in Critical /\ pc'[p] = c /\ \A u \in Task \ {p} : pc'[u] = pc[u]
    BY <1>0, <1>5 DEF TaskTypes, Critical, Starting
  <2>2. LockOK'
    BY <1>0, <1>5, <2>1, SameLock DEF IInv, TypeOK
  <2>3. \A q \in Popper \ {p} : pc[q] \notin Critical /\ pc'[q] = pc[q]
    BY <1>5, <2>1, PopInside DEF Task
  <2>4. PicksOK'
    BY <1>5, <2>1, <2>3 DEF IInv, PicksOK, IsFirst
  <2>5. StartingOK' /\ PauseOK' /\ LoadingHasPop'
    BY <1>5, <2>1, <2>3
       DEF IInv, StartingOK, PauseOK, LoadingHasPop, Loading, Critical, Querying, Starting
  <2>6. PrintedEntryLeaves'
    BY <1>5, <2>1, <2>3 DEF IInv, PrintedEntryLeaves, Loading, Querying, Critical, Starting
  <2>7. QED
    BY <1>0, <2>2, <2>4, <2>5, <2>6 DEF IInv
<1>6. ASSUME pc[p] \in Critical, PopFails(p), UNCHANGED <<keys, printing>>, pc[p] # "started"
      PROVE  IInv'
  BY <1>4, <1>6 DEF PopFails
<1>7. CASE PopAnswered(p)
  <2>1. pc[p] \in Critical /\ pc[p] # "started" /\ Loading(p)
    BY <1>7 DEF PopAnswered, Critical, Querying, Loading
  <2>2. CASE PopFails(p)
    BY <1>6, <1>7, <2>1, <2>2 DEF PopAnswered
  <2>3. CASE PopStarts(p)
    BY <1>5, <1>7, <2>1, <2>3 DEF PopAnswered, PopStarts
  <2>4. CASE pc' = [pc EXCEPT ![p] = "gcode"] /\ UNCHANGED <<queueState, picked, lock, op, pausedMeanwhile>>
    BY <1>5, <1>7, <2>1, <2>4 DEF PopAnswered
  <2>5. QED
    BY <1>7, <2>2, <2>3, <2>4 DEF PopAnswered
<1>8. CASE PopTransitioned(p)
  <2>1. pc[p] \in Critical /\ pc[p] # "started" /\ Loading(p)
    BY <1>8 DEF PopTransitioned, Critical, Loading
  <2>2. CASE PopFails(p)
    BY <1>6, <1>8, <2>1, <2>2 DEF PopTransitioned
  <2>3. CASE PopStarts(p)
    BY <1>5, <1>8, <2>1, <2>3 DEF PopTransitioned, PopStarts
  <2>4. QED
    BY <1>8, <2>2, <2>3 DEF PopTransitioned
<1>9. CASE PopWaitRaises(p)
  <2>1. pc[p] \in Critical /\ queueState # "loading" /\ pc[p] # "started"
    BY <1>9 DEF PopWaitRaises, IInv, StartingOK, Critical, Starting
  <2>2. QED
    BY <1>4, <1>9, <2>1 DEF PopWaitRaises
<1>10. CASE PopRefused(p)
  BY <1>6, <1>10 DEF PopRefused, Critical, Starting
<1>11. CASE PopStarted(p)
  <2>1. pc[p] \in Critical /\ queueState' # "loading"
    BY <1>11 DEF PopStarted, IInv, StartingOK, Critical, Starting
  <2>2. QED
    BY <1>4, <1>11, <2>1 DEF PopStarted, Discard
<1>12. QED
  BY <1>1, <1>2, <1>3, <1>7, <1>8, <1>9, <1>10, <1>11 DEF PopJob

(* What Klippy, job_state and the printer do moves no task in or out. *)
LEMMA KlippyStepKeeps ==
  ASSUME IInv,
         \/ \E t \in Task : CheckCanPrint(t)
         \/ \E p \in Popper : StartPrint(p)
         \/ PrintByOther \/ PrintEnds \/ KlippyDown \/ KlippyReady \/ JobStateChanged
  PROVE  IInv'
<1> USE DEF SameKlippy, SameQueue, SameTasks, queueVars, stateVars, klippyVars
<1>0. TypeOK' /\ TaskTypes
  BY NextTypeOK DEF IInv, Next, TypeOK, TaskTypes, Task
<1>1. ASSUME UNCHANGED <<keys, before, queueState, picked, lock, pausedMeanwhile>>,
             \A u \in Task :
                \/ pc'[u] = pc[u]
                \/ pc[u] = "idle" /\ pc'[u] = "run" /\ u \notin Popper
                \/ pc[u] = "query" /\ pc'[u] \in {"canPrint", "cannotPrint"}
                \/ pc[u] = "start" /\ pc'[u] = "started" /\ u \in Popper /\ printing' = picked[u]
                \/ pc[u] = "started" /\ pc'[u] = "lost" /\ printing' = None,
             \/ printing' = printing
             \/ printing' = None
             \/ \E p \in Popper : pc'[p] = "started" /\ picked[p] = printing'
      PROVE  IInv'
  <2>1. LockOK'
    BY <1>0, <1>1, SameLock DEF IInv, TypeOK, Critical, Querying, Starting
  <2>2. \A p \in Popper : /\ pc'[p] \in Critical <=> pc[p] \in Critical
                          /\ pc'[p] \in Starting <=> pc[p] \in Starting
                          /\ Loading(p)' <=> Loading(p)
                          /\ pc[p] \in {"timer", "run", "wait"} => pc'[p] = pc[p]
    BY <1>1 DEF Critical, Querying, Starting, Loading, Task
  <2>3. PicksOK' /\ StartingOK' /\ PauseOK' /\ LoadingHasPop'
    BY <1>1, <2>2 DEF IInv, PicksOK, StartingOK, PauseOK, LoadingHasPop, IsFirst
  <2>4. PrintedEntryLeaves'
    BY <1>1 DEF IInv, PrintedEntryLeaves, Task
  <2>5. QED
    BY <1>0, <2>1, <2>3, <2>4 DEF IInv
<1>2. ASSUME NEW t \in Task, CheckCanPrint(t) PROVE IInv'
  BY <1>0, <1>1, <1>2 DEF CheckCanPrint, TaskTypes
<1>3. ASSUME NEW p \in Popper, StartPrint(p) PROVE IInv'
  BY <1>0, <1>1, <1>3 DEF StartPrint, TaskTypes, Task
<1>4. CASE PrintByOther \/ PrintEnds
  BY <1>1, <1>4 DEF PrintByOther, PrintEnds
<1>5. CASE KlippyDown
  BY <1>0, <1>1, <1>5, TasksDistinct DEF KlippyDown, TaskTypes, Task
<1>6. CASE KlippyReady \/ JobStateChanged
  BY <1>0, <1>1, <1>6, TasksDistinct DEF KlippyReady, JobStateChanged, Spawn, TaskTypes, Task
<1>7. QED
  BY <1>2, <1>3, <1>4, <1>5, <1>6

LEMMA NextIInv == IInv /\ [Next]_vars => IInv'
<1> SUFFICES ASSUME IInv, [Next]_vars PROVE IInv'
  OBVIOUS
<1>1. CASE UNCHANGED vars
  BY <1>1
     DEF vars, queueVars, taskVars, stateVars, klippyVars, IInv, TypeOK, LockOK, PicksOK,
         StartingOK, PauseOK, LoadingHasPop, PrintedEntryLeaves, IsFirst, Loading
<1>2. CASE Next
  BY <1>2, CallerStepKeeps, PopStepKeeps, KlippyStepKeeps DEF Next, Task
<1>3. QED
  BY <1>1, <1>2

LEMMA Invariant == Spec => []IInv
BY InitIInv, NextIInv, PTL DEF Spec

-----------------------------------------------------------------------------
(* Every variable keeps its type. *)
THEOREM TypeCorrect == Spec => []TypeOK
<1>1. IInv => TypeOK
  BY DEF IInv
<1>2. QED
  BY <1>1, Invariant, PTL

(* "loading" is never a dead end: some timer or task of _pop_job will look. *)
THEOREM LoadingNeverStuck == Spec => []LoadingHasPop
<1>1. IInv => LoadingHasPop
  BY DEF IInv
<1>2. QED
  BY <1>1, Invariant, PTL

(* A printed job does not stay in the queue to be printed again. *)
THEOREM PrintedOnce == Spec => []PrintedEntryLeaves
<1>1. IInv => PrintedEntryLeaves
  BY DEF IInv
<1>2. QED
  BY <1>1, Invariant, PTL

(* A load that was paused under way never starts its print. *)
THEOREM PauseRespected == Spec => PausedLoadNeverStarts
<1>1. IInv /\ [Next]_vars
        => [\A p \in Popper : Loading(p) /\ pausedMeanwhile => pc'[p] # "start"]_vars
  <2> SUFFICES ASSUME IInv, Next, NEW p \in Popper, Loading(p), pausedMeanwhile,
                      pc'[p] = "start"
               PROVE  FALSE
    OBVIOUS
  <2>1. queueState = "paused" /\ TaskTypes /\ p \in Task /\ pc[p] # "start"
    BY DEF IInv, PauseOK, TypeOK, TaskTypes, Task, Loading, Querying
  <2>2. \A t \in Caller : ~CallerStep(t)
    BY <2>1, TasksDistinct
       DEF CallerStep, Wait, Blocks, QueueJob, DeleteJob, Jump, PauseNow, PauseDone, StartQueue,
           StartQueueAnswered, HandleReady, OnJobComplete, OnJobAbort, LoadNext, Arm, Return,
           TaskTypes, Task
  <2>3. \A q \in Popper : ~(TimerFires(q) \/ PopJob(q))
    BY <2>1
       DEF TimerFires, PopJob, PopWait, Blocks, PopAdmitted, PopAnswered, PopTransitioned,
           PopWaitRaises, PopStarted, PopRefused, PopFails, PopStarts, StillLoading, Return, TaskTypes
  <2>4. \A t \in Task : ~CheckCanPrint(t)
    BY <2>1 DEF CheckCanPrint, TaskTypes
  <2>5. \A q \in Popper : ~StartPrint(q)
    BY <2>1 DEF StartPrint, TaskTypes
  <2>6. ~(PrintByOther \/ PrintEnds \/ KlippyDown \/ KlippyReady \/ JobStateChanged)
    BY <2>1 DEF PrintByOther, PrintEnds, KlippyDown, KlippyReady, JobStateChanged, Spawn,
                TaskTypes, Task
  <2>7. QED
    BY <2>2, <2>3, <2>4, <2>5, <2>6 DEF Next, Task
<1>2. QED
  BY <1>1, Invariant, PTL DEF Spec, PausedLoadNeverStarts

-----------------------------------------------------------------------------
(* The queue implements PrintQueue. *)

LoadedEntry ==
  /\ NoPop => BeingLoaded = None
  /\ \A p \in Popper : pc[p] \in Critical => BeingLoaded = picked[p]

LEMMA LoadedEntryUnique == IInv => LoadedEntry
<1> SUFFICES ASSUME IInv PROVE LoadedEntry
  OBVIOUS
<1>1. \A p \in Popper : pc[p] \in Critical <=> (Loading(p) \/ pc[p] \in Starting)
  BY DEF Critical, Loading
<1>2. ASSUME NEW p \in Popper, pc[p] \in Critical
      PROVE  BeingLoaded = picked[p]
  <2>1. (CHOOSE q \in Popper : Loading(q) \/ pc[q] \in Starting) = p
    BY <1>1, <1>2, PopInside
  <2>2. QED
    BY <1>1, <1>2, <2>1 DEF BeingLoaded
<1>3. QED
  BY <1>1, <1>2 DEF LoadedEntry, BeingLoaded, NoPop

LEMMA RefinesInit == Init => Abstract!Init
BY DEF Init, Abstract!Init, BeingLoaded, Loading, Querying, Starting, Task

LEMMA RefinesNext ==
  ASSUME IInv, IInv', [Next]_vars
  PROVE  [Abstract!Next]_(Abstract!queueVars)
<1> USE DEF Abstract!queueVars, SameKlippy, SameQueue, queueVars
<1>0. TaskTypes /\ \A p \in Popper : p \in Task
  BY DEF IInv, TypeOK, TaskTypes, Task
<1>. LoadedEntry /\ LoadedEntry'
  BY LoadedEntryUnique, PTL
<1>1. ASSUME NoPop, NoPop' PROVE BeingLoaded = None /\ BeingLoaded' = None
  BY <1>1 DEF LoadedEntry
<1>2. ASSUME NEW t \in Caller, NEW o \in Ops, Enters(t, o), Return(t)
      PROVE  BeingLoaded = None /\ BeingLoaded' = None
  BY <1>0, <1>1, <1>2, EntersAtHead, TasksDistinct
     DEF IInv, Return, NoPop, TaskTypes, Task, Critical, Querying, Starting
<1>3. ASSUME UNCHANGED <<keys, before, picked>>,
             \A p \in Popper : pc'[p] \in Critical <=> pc[p] \in Critical
      PROVE  UNCHANGED Abstract!queueVars
  <2>1. \A p \in Popper : /\ pc[p] \in Critical <=> (Loading(p) \/ pc[p] \in Starting)
                          /\ pc'[p] \in Critical <=> ((Loading(p))' \/ pc'[p] \in Starting)
    BY DEF Critical, Loading
  <2>2. BeingLoaded' = BeingLoaded
    BY <1>3, <2>1 DEF BeingLoaded
  <2>3. QED
    BY <1>3, <2>2
<1>4. ASSUME NEW t \in Caller, CallerStep(t) PROVE [Abstract!Next]_(Abstract!queueVars)
  <2>1. CASE QueueJob(t)
    <3>1. BeingLoaded = None /\ BeingLoaded' = None
      BY <1>2, <2>1 DEF QueueJob, Ops, Requests
    <3>2. CASE UNCHANGED <<keys, before>>
      BY <3>1, <3>2
    <3>3. ASSUME NEW reset \in BOOLEAN, NEW new \in SUBSET (Job \ {printing}), NEW order \in Orders(new),
                 IF reset THEN keys' = new /\ before' = order
                 ELSE /\ new \cap keys = {}
                      /\ keys' = keys \cup new
                      /\ before' = before \cup order \cup (keys \X new)
          PROVE  Abstract!Next
      <4>1. new \in SUBSET Job /\ order \in Abstract!Orders(new)
        BY DEF Orders, Abstract!Orders
      <4>2. Abstract!Add(new, order) \/ Abstract!Replace(new, order)
        BY <3>1, <3>3 DEF Abstract!Add, Abstract!Replace
      <4>3. QED
        BY <4>1, <4>2 DEF Abstract!Next
    <3>4. QED
      BY <2>1, <3>2, <3>3 DEF QueueJob
  <2>2. CASE DeleteJob(t)
    <3>1. BeingLoaded = None /\ BeingLoaded' = None
      BY <1>2, <2>2 DEF DeleteJob, Ops, Requests
    <3>2. PICK gone \in SUBSET Job : Discard(gone)
      BY <2>2 DEF DeleteJob
    <3>3. Abstract!Remove(gone)
      BY <3>1, <3>2 DEF Abstract!Remove, Discard
    <3>4. QED
      BY <3>3 DEF Abstract!Next
  <2>3. CASE Jump(t)
    <3>1. BeingLoaded = None /\ BeingLoaded' = None
      BY <1>2, <2>3 DEF Jump, Ops, Requests
    <3>2. CASE UNCHANGED before
      BY <2>3, <3>1, <3>2 DEF Jump
    <3>3. ASSUME NEW j \in keys, before' = (before \ (keys \X {j})) \cup ({j} \X (keys \ {j}))
          PROVE  Abstract!Next
      <4>1. Abstract!MoveToFront(j) /\ j \in Job
        BY <2>3, <3>1, <3>3 DEF Jump, Abstract!MoveToFront, IInv, TypeOK
      <4>2. QED
        BY <4>1 DEF Abstract!Next
    <3>4. QED
      BY <2>3, <3>2, <3>3 DEF Jump
  <2>4. CASE ~(QueueJob(t) \/ DeleteJob(t) \/ Jump(t))
    <3>1. UNCHANGED <<keys, before, picked>>
      BY <1>4, <2>4
         DEF CallerStep, Wait, PauseNow, PauseDone, StartQueue, StartQueueAnswered,
             HandleReady, OnJobComplete, OnJobAbort, LoadNext
    <3>2. \A p \in Popper : pc'[p] \in Critical <=> pc[p] \in Critical
      <4>1. ASSUME NEW p \in Popper, pc'[p] # pc[p]
            PROVE  {pc[p], pc'[p]} \subseteq {"idle", "timer", "wait", "run"}
        BY <1>0, <1>4, <2>4, <4>1, TasksDistinct
           DEF CallerStep, Wait, Blocks, PauseNow, PauseDone, StartQueue, StartQueueAnswered,
               HandleReady, OnJobComplete, OnJobAbort, LoadNext, Arm, Return, TaskTypes, Task
      <4>2. {"idle", "timer", "wait", "run"} \cap Critical = {}
        BY DEF Critical, Querying, Starting
      <4>3. QED
        BY <4>1, <4>2
    <3>3. QED
      BY <1>3, <3>1, <3>2
  <2>5. QED
    BY <2>1, <2>2, <2>3, <2>4
<1>5. ASSUME NEW p \in Popper, pc[p] \in Critical, Return(p), picked' = [picked EXCEPT ![p] = None],
             UNCHANGED <<keys, before>> \/ Discard({picked[p]})
      PROVE  Abstract!Next
  <2>1. NoPop'
    BY <1>0, <1>5, PopInside DEF NoPop, Return, TaskTypes, Critical, Querying, Starting, Task
  <2>2. BeingLoaded = picked[p] /\ BeingLoaded' = None /\ picked[p] # None
    BY <1>5, <2>1, PopInside, TasksDistinct DEF LoadedEntry
  <2>3. CASE UNCHANGED <<keys, before>>
    BY <2>2, <2>3 DEF Abstract!Next, Abstract!Failed
  <2>4. CASE Discard({picked[p]})
    BY <2>2, <2>4 DEF Abstract!Next, Abstract!Loaded, Discard
  <2>5. QED
    BY <1>5, <2>3, <2>4
<1>6. ASSUME NEW p \in Popper, PopJob(p) \/ TimerFires(p) PROVE [Abstract!Next]_(Abstract!queueVars)
  <2>1. CASE TimerFires(p) \/ PopWait(p)
    BY <1>0, <1>3, <1>6, <2>1
       DEF TimerFires, PopWait, Blocks, Arrives, TaskTypes, Critical, Querying, Starting
  <2>2. CASE PopAdmitted(p)
    <3>1. AtHead(p) /\ NoPop
      BY <1>0, <2>2, EntersAtHead DEF IInv, PopAdmitted, TypeOK, NoPop
    <3>2. CASE queueState = "paused" \/ keys = {}
      BY <1>0, <1>1, <2>2, <3>1, <3>2
         DEF PopAdmitted, Return, NoPop, TaskTypes, Critical, Querying, Starting
    <3>3. CASE ~(queueState = "paused" \/ keys = {})
      <4>1. PICK j \in Job : IsFirst(j) /\ picked' = [picked EXCEPT ![p] = j]
        BY <2>2, <3>3 DEF PopAdmitted
      <4>2. pc'[p] \in Critical /\ UNCHANGED <<keys, before>>
        BY <1>0, <2>2, <3>3 DEF PopAdmitted, TaskTypes, Critical, Querying
      <4>3. picked'[p] = j
        BY <4>1 DEF IInv, TypeOK
      <4>4. BeingLoaded = None /\ BeingLoaded' = j
        BY <3>1, <4>2, <4>3 DEF LoadedEntry
      <4>5. Abstract!Begin(j)
        BY <4>1, <4>2, <4>4 DEF Abstract!Begin, Abstract!IsFirst, IsFirst
      <4>6. QED
        BY <4>5 DEF Abstract!Next
    <3>4. QED
      BY <3>2, <3>3
  <2>3. CASE PopAnswered(p) \/ PopTransitioned(p)
    <3>1. pc[p] \in Critical
      BY <2>3 DEF PopAnswered, PopTransitioned, Critical, Querying
    <3>2. CASE PopFails(p)
      BY <1>5, <2>3, <3>1, <3>2 DEF PopFails, PopAnswered, PopTransitioned
    <3>3. CASE ~PopFails(p)
      BY <1>0, <1>3, <2>3, <3>1, <3>3
         DEF PopAnswered, PopTransitioned, PopStarts, TaskTypes, Critical, Starting
    <3>4. QED
      BY <3>2, <3>3
  <2>4. CASE PopWaitRaises(p) \/ PopRefused(p) \/ PopStarted(p)
    BY <1>5, <2>4 DEF PopWaitRaises, PopRefused, PopFails, PopStarted, Critical, Starting
  <2>5. QED
    BY <1>6, <2>1, <2>2, <2>3, <2>4 DEF PopJob
<1>7. ASSUME NEW t \in Task, CheckCanPrint(t) PROVE UNCHANGED Abstract!queueVars
  BY <1>0, <1>3, <1>7 DEF CheckCanPrint, TaskTypes, Critical, Querying
<1>8. ASSUME NEW p \in Popper, StartPrint(p) PROVE UNCHANGED Abstract!queueVars
  BY <1>0, <1>3, <1>8 DEF StartPrint, TaskTypes, Critical, Starting
<1>9. CASE PrintByOther \/ PrintEnds \/ KlippyDown \/ KlippyReady \/ JobStateChanged
  BY <1>0, <1>3, <1>9, TasksDistinct
     DEF PrintByOther, PrintEnds, KlippyDown, KlippyReady, JobStateChanged, Spawn, SameTasks,
         TaskTypes, Task, Critical, Querying, Starting
<1>10. CASE UNCHANGED vars
  BY <1>3, <1>10 DEF vars, taskVars
<1>11. QED
  BY <1>4, <1>6, <1>7, <1>8, <1>9, <1>10 DEF Next, Task

(* Locks, awaits and re-checks together keep PrintQueue's promise: the first *)
(* entry, and no other, is handed over, and it is the one that leaves.       *)
THEOREM ImplementsQueue == Spec => ImplementsPrintQueue
<1>1. Init => Abstract!Init
  BY RefinesInit
<1>2. IInv /\ IInv' /\ [Next]_vars => [Abstract!Next]_(Abstract!queueVars)
  BY RefinesNext
<1>3. QED
  BY <1>1, <1>2, Invariant, PTL DEF Spec, ImplementsPrintQueue, Abstract!Spec
=============================================================================

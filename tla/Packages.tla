------------------------------ MODULE Packages ------------------------------
(***************************************************************************)
(* system_deploy.py and base_deploy.py: the packages of the operating       *)
(* system, by PackageKit or by apt: what can be upgraded is listed and kept, *)
(* upgrades and installations are done under the lock of the updates.  A     *)
(* transaction of PackageKit is a call whose results come as signals.         *)
(***************************************************************************)
EXTENDS Host

VARIABLES
  pkgMachine,  \* what there is on the machine: PackageKit, apt
  pkgProvider, \* "unset" while Moonraker does not run
  pkgOld,      \* packages of which there is a newer version
  pkgIndexed,  \* those of which the machine's cache says so
  pkgAvail,    \* available_packages
  pkgStored,   \* what the database has of them
  pkgDue,      \* the interval since last_refresh_time has passed
  pkgFirst,    \* there has been no refresh since the start
  pkgJob,      \* what a task has been asked for
  pkgHolder,   \* who holds cmd_request_lock
  pkgIds,      \* the packages of the next step
  tx,          \* the PackageKitTransaction, None without one
  txSignals,   \* its signals on their way
  pkgHalf,     \* packages were upgraded by an update that failed
  pkgLeft      \* what an update that succeeded left to be upgraded

packageVars == <<pkgMachine, pkgProvider, pkgOld, pkgIndexed, pkgAvail, pkgStored, pkgDue,
                 pkgFirst, pkgJob, pkgHolder, pkgIds, tx, txSignals, pkgHalf, pkgLeft>>

Package == {"libc", "tools"}
WantedPackages == {"deps"}   \* what an application wants to be installed
PackageTask == Request \cup {"timer"}
PackageSteps == {"cache", "list", "choose", "upgrade", "resolve", "install"}

(* None is no transaction. *)
ASSUME PackagesConstants ==
  None \notin [step : PackageSteps, role : PackageSteps \cup {"unknown"},
               result : SUBSET (Package \cup WantedPackages), future : {"open", "done", "failed"}]

NewTransaction(step) == [step |-> step, role |-> "unknown", result |-> {}, future |-> "open"]

PackagesInit ==
  /\ pkgMachine \in Among({"packagekit", "apt", "neither"}, "packages")
  /\ pkgProvider = "unset"
  /\ pkgOld = {"libc"} /\ pkgIndexed = {} /\ pkgAvail = {} /\ pkgStored = {}
  /\ pkgDue = TRUE /\ pkgFirst = TRUE
  /\ pkgJob = [t \in PackageTask |-> "none"] /\ pkgHolder = None /\ pkgIds = {}
  /\ tx = None /\ txSignals = <<>> /\ pkgHalf = FALSE /\ pkgLeft = {}

PackagesTypeOK ==
  /\ pkgProvider \in {"unset", "packagekit", "apt", "none"}
  /\ {pkgOld, pkgIndexed, pkgAvail, pkgStored, pkgLeft} \subseteq SUBSET Package
  /\ pkgIndexed \subseteq pkgOld /\ pkgIds \subseteq Package \cup WantedPackages
  /\ pkgJob \in [PackageTask -> {"none", "refresh", "update", "install"}]
  /\ pkgHolder \in PackageTask \cup {None}
  /\ tx = None \/ (tx.step \in PackageSteps /\ tx.future \in {"open", "done", "failed"})
  /\ \A t \in PackageTask : pc[t] \in PackageSteps => pkgHolder = t

PackagesRest == UNCHANGED pkgMachine /\ PrinterStays
WorldKept == UNCHANGED <<pkgOld, pkgIndexed>>
-----------------------------------------------------------------------------
(* initialize: PackageKit, or else apt, or else nothing *)

(* _get_fallback_provider *)
FallbackProviders ==
  CASE pkgMachine = "packagekit" -> {"apt", "none"}
    [] pkgMachine = "apt" -> {"apt"}
    [] OTHER -> {"none"}

PackagesStart ==
  /\ pkgProvider = "unset"
  /\ \/ pkgMachine = "packagekit" /\ pkgProvider' = "packagekit" /\ UNCHANGED left
     \/ /\ IF pkgMachine = "packagekit" THEN Spends("failures") ELSE UNCHANGED left
        /\ pkgProvider' \in FallbackProviders
  /\ pkgAvail' = pkgStored /\ pkgFirst' = TRUE
  /\ PackagesRest /\ WorldKept
  /\ UNCHANGED <<pc, pkgStored, pkgDue, pkgJob, pkgHolder, pkgIds, tx, txSignals, pkgHalf, pkgLeft>>

(* _handle_auto_refresh, and the requests *)
AskPackages(t) ==
  /\ pkgProvider # "unset" /\ Idle(t)
  /\ \/ t = "timer" /\ pkgDue /\ pkgJob' = [pkgJob EXCEPT ![t] = "refresh"] /\ UNCHANGED left
     \/ /\ t \in Request /\ Spends("asks")
        /\ \E job \in {"refresh", "update", "install"} : pkgJob' = [pkgJob EXCEPT ![t] = job]
  /\ Goes(t, "waiting")
  /\ PackagesRest /\ WorldKept
  /\ UNCHANGED <<pkgProvider, pkgAvail, pkgStored, pkgDue, pkgFirst, pkgHolder, pkgIds, tx,
                 txSignals, pkgHalf, pkgLeft>>

(* update does nothing when nothing is listed; the cache is not refreshed    *)
(* before the server runs.                                                    *)
LockIsGot(t) ==
  /\ pc[t] = "waiting" /\ pkgHolder = None
  /\ IF \/ pkgJob[t] = "update" /\ pkgAvail = {}
        \/ t = "timer" /\ ~pkgDue
     THEN /\ Goes(t, "idle") /\ pkgJob' = [pkgJob EXCEPT ![t] = "none"]
          /\ UNCHANGED <<pkgHolder, pkgFirst>>
     ELSE /\ pkgHolder' = t /\ pkgFirst' = FALSE
          /\ \/ Goes(t, "cache")
             \/ pkgFirst /\ t = "timer" /\ Goes(t, "list")
          /\ UNCHANGED pkgJob
  /\ PackagesRest /\ WorldKept
  /\ UNCHANGED <<left, pkgProvider, pkgAvail, pkgStored, pkgDue, pkgIds, tx, txSignals, pkgHalf,
                 pkgLeft>>
-----------------------------------------------------------------------------
(* refresh, update and install_packages, step by step *)

(* _save_state *)
SavesPackages(avail) ==
  pkgAvail' = avail /\ pkgStored' = avail /\ pkgDue' = FALSE

PackageJobEnds(t) ==
  /\ Goes(t, "idle") /\ pkgHolder' = None /\ pkgIds' = {}
  /\ pkgJob' = [pkgJob EXCEPT ![t] = "none"]

NothingSaved == UNCHANGED <<pkgAvail, pkgStored, pkgDue>>

(* A refresh that fails keeps the list and counts as one. *)
JobFails(t) ==
  /\ PackageJobEnds(t) /\ UNCHANGED pkgLeft
  /\ pkgHalf' = (pkgHalf \/ pc[t] = "upgrade")
  /\ IF pkgJob[t] = "refresh" THEN SavesPackages(pkgAvail) ELSE NothingSaved

(* Mutant: the list is left for the next refresh. *)
StillListed == pkgAvail
(* What update leaves of the list *)
ListAfterUpdate == {}

StepDone(t, result) ==
  LET more == pc[t] \in {"choose", "resolve"} /\ result # {}
      over == pc[t] \notin {"cache", "list"} /\ ~more IN
  \/ /\ pc[t] = "cache"
     /\ Goes(t, CASE pkgJob[t] = "refresh" -> "list"
                  [] pkgJob[t] = "update" -> "choose"
                  [] OTHER -> "resolve")
     /\ NothingSaved /\ UNCHANGED <<pkgHolder, pkgJob, pkgIds, pkgLeft>>
  \/ /\ pc[t] = "list"
     /\ SavesPackages(result) /\ PackageJobEnds(t) /\ UNCHANGED pkgLeft
  \/ /\ more
     /\ Goes(t, IF pc[t] = "choose" THEN "upgrade" ELSE "install")
     /\ pkgIds' = result /\ NothingSaved /\ UNCHANGED <<pkgHolder, pkgJob, pkgLeft>>
  \/ /\ over /\ pkgJob[t] = "install"
     /\ PackageJobEnds(t) /\ NothingSaved /\ UNCHANGED pkgLeft
  \/ /\ over /\ pkgJob[t] # "install"
     /\ SavesPackages(ListAfterUpdate) /\ PackageJobEnds(t) /\ pkgLeft' = pkgIndexed'

(* What the machine does, and what it answers; a failing upgrade does part. *)
Answer(step) ==
  CASE step \in {"list", "choose"} -> pkgIndexed
    [] step = "resolve" -> WantedPackages
    [] OTHER -> {}

Effect(step) ==
  /\ pkgIndexed' = CASE step = "cache" -> pkgOld
                     [] step = "upgrade" -> pkgIndexed \ pkgIds
                     [] OTHER -> pkgIndexed
  /\ pkgOld' = IF step = "upgrade" THEN pkgOld \ pkgIds ELSE pkgOld

HalfEffect(step) ==
  \/ WorldKept
  \/ /\ step = "upgrade"
     /\ \E p \in pkgIds : pkgIndexed' = pkgIndexed \ {p} /\ pkgOld' = pkgOld \ {p}

(* A list that is made or emptied holds nothing that was upgraded. *)
ListedAnew(t) == pkgHalf' = (pkgHalf /\ pc[t] \notin {"list", "upgrade"})

(* AptCliProvider: its command does it or fails. *)
AptRuns(t) ==
  /\ pkgProvider = "apt" /\ pc[t] \in PackageSteps
  /\ \/ Effect(pc[t]) /\ StepDone(t, Answer(pc[t])) /\ ListedAnew(t) /\ UNCHANGED left
     \/ Spends("failures") /\ HalfEffect(pc[t]) /\ JobFails(t)
  /\ PackagesRest /\ UNCHANGED <<pkgProvider, pkgFirst, tx, txSignals>>

(* BasePackageProvider *)
NoProvider(t) ==
  /\ pkgProvider = "none" /\ pc[t] \in PackageSteps
  /\ WorldKept /\ JobFails(t)
  /\ PackagesRest /\ UNCHANGED <<left, pkgProvider, pkgFirst, tx, txSignals>>
-----------------------------------------------------------------------------
(* PackageKitTransaction *)

TransactionRuns(t) ==
  /\ pkgProvider = "packagekit" /\ pc[t] \in PackageSteps /\ tx = None /\ Idle("worker")
  /\ tx' = NewTransaction(pc[t]) /\ txSignals' = <<>>
  /\ Goes("worker", "creating")
  /\ PackagesRest /\ WorldKept
  /\ UNCHANGED <<left, pkgProvider, pkgAvail, pkgStored, pkgDue, pkgFirst, pkgJob, pkgHolder,
                 pkgIds, pkgHalf, pkgLeft>>

Fails == [tx EXCEPT !.future = IF @ = "open" THEN "failed" ELSE @]
Signal(name, value) == [name |-> name, value |-> value]
SignalsOfPackages(S) ==
  CHOOSE s \in [1..Cardinality(S) -> {Signal("package", p) : p \in S}] :
    {s[i] : i \in DOMAIN s} = {Signal("package", p) : p \in S}

(* _start_transaction: the call, once its signals are listened to *)
TransactionCalled ==
  /\ pc["worker"] = "creating"
  /\ Goes("worker", "calling")
  /\ LET step == tx.step
         role == <<Signal("role", step)>> IN
     \/ /\ Effect(step)
        /\ txSignals' = role \o SignalsOfPackages(Answer(step)) \o <<Signal("finished", TRUE)>>
        /\ UNCHANGED left
     \/ /\ Spends("failures") /\ HalfEffect(step)
        /\ txSignals' = role \o <<Signal("finished", FALSE)>>
     \/ Spends("failures") /\ txSignals' = role /\ WorldKept
  /\ PackagesRest
  /\ UNCHANGED <<pkgProvider, pkgAvail, pkgStored, pkgDue, pkgFirst, pkgJob, pkgHolder, pkgIds, tx,
                 pkgHalf, pkgLeft>>

(* It cannot be created, or the call returns, with or without an error. *)
CallEnds ==
  /\ \/ pc["worker"] = "creating" /\ Spends("failures") /\ tx' = Fails
     \/ pc["worker"] = "calling" /\ Spends("failures") /\ tx' = Fails
     \/ pc["worker"] = "calling" /\ UNCHANGED <<left, tx>>
  /\ Goes("worker", "idle")
  /\ PackagesRest /\ WorldKept
  /\ UNCHANGED <<pkgProvider, pkgAvail, pkgStored, pkgDue, pkgFirst, pkgJob, pkgHolder, pkgIds,
                 txSignals, pkgHalf, pkgLeft>>

(* GET_PKG_ROLES *)
RolesWithPackages == {"resolve", "list", "choose"}

(* Mutant: a transaction is over with its first results. *)
FirstResult(s) == s.name = "finished" \/ (s.name = "package" /\ tx.role = "choose")
(* _on_finished_signal *)
IsOver(s) == s.name = "finished"

RoleAfter(s) == IF s.name = "role" THEN s.value ELSE tx.role

TransactionSignal ==
  /\ txSignals # <<>> /\ tx # None
  /\ LET s == Head(txSignals)
         role == RoleAfter(s)
         result == IF s.name = "package" /\ role \in RolesWithPackages
                   THEN tx.result \cup {s.value} ELSE tx.result IN
       tx' = [tx EXCEPT !.role = role, !.result = result,
                        !.future = CASE @ # "open" \/ ~IsOver(s) -> @
                                     [] s = Signal("finished", FALSE) -> "failed"
                                     [] OTHER -> "done"]
  /\ txSignals' = Tail(txSignals)
  /\ PackagesRest /\ WorldKept
  /\ UNCHANGED <<pc, left, pkgProvider, pkgAvail, pkgStored, pkgDue, pkgFirst, pkgJob, pkgHolder,
                 pkgIds, pkgHalf, pkgLeft>>

TransactionOver(t) ==
  /\ pkgProvider = "packagekit" /\ pc[t] \in PackageSteps /\ tx # None /\ Idle("worker")
  /\ WorldKept
  /\ \/ tx.future = "done" /\ StepDone(t, tx.result) /\ ListedAnew(t)
     \/ tx.future = "failed" /\ JobFails(t)
  /\ tx' = None /\ txSignals' = <<>>
  /\ PackagesRest /\ UNCHANGED <<left, pkgProvider, pkgFirst>>
-----------------------------------------------------------------------------
(* The outside world *)

PackagesChange ==
  /\ Spends("changes")
  /\ \/ \E p \in Package \ pkgOld : pkgOld' = pkgOld \cup {p} /\ UNCHANGED pkgDue
     \/ ~pkgDue /\ pkgDue' = TRUE /\ UNCHANGED pkgOld
  /\ PackagesRest
  /\ UNCHANGED <<pc, pkgProvider, pkgIndexed, pkgAvail, pkgStored, pkgFirst, pkgJob, pkgHolder,
                 pkgIds, tx, txSignals, pkgHalf, pkgLeft>>

(* Moonraker ends, in the middle of an upgrade or between two steps. *)
PackagesCrash ==
  /\ pkgProvider # "unset" /\ Spends("failures")
  /\ pkgProvider' = "unset" /\ pkgAvail' = {}
  /\ pc' = [t \in Task |-> "idle"] /\ pkgJob' = [t \in PackageTask |-> "none"]
  /\ pkgHolder' = None /\ pkgIds' = {} /\ tx' = None /\ txSignals' = <<>>
  /\ pkgHalf' = (pkgHalf \/ (tx # None /\ tx.step = "upgrade" /\ pc["worker"] # "creating"))
  /\ PackagesRest /\ WorldKept
  /\ UNCHANGED <<pkgStored, pkgDue, pkgFirst, pkgLeft>>

PackagesNext ==
  \/ PackagesStart \/ TransactionCalled \/ CallEnds \/ TransactionSignal \/ PackagesChange
  \/ PackagesCrash
  \/ \E t \in PackageTask : \/ AskPackages(t) \/ LockIsGot(t) \/ AptRuns(t) \/ NoProvider(t)
                            \/ TransactionRuns(t) \/ TransactionOver(t)

PackagesWorks(t) ==
  \/ t = "init" /\ PackagesStart
  \/ t = "worker" /\ (TransactionCalled \/ CallEnds)
  \/ t = "event" /\ TransactionSignal
  \/ /\ t \in PackageTask
     /\ \/ LockIsGot(t) \/ AptRuns(t) \/ NoProvider(t) \/ TransactionRuns(t) \/ TransactionOver(t)

(* What is listed between operations, and after a restart, can be upgraded:   *)
(* but after an update that failed or was cut short, whose packages are listed  *)
(* until the next refresh (system_deploy.py:120-125).                            *)
ListedCanBeUpgraded ==
  /\ pkgHolder = None /\ ~pkgHalf => pkgStored \subseteq pkgIndexed
  /\ pkgProvider # "unset" => pkgAvail = pkgStored

(* An update that succeeded left nothing that could be upgraded. *)
UpdateUpgradesAll == pkgLeft = {}

(* PackageKit dies in a transaction: its future is waited for by an update     *)
(* that holds the lock, and nothing ends it (system_deploy.py:352-366).         *)
TransactionLost ==
  tx # None /\ tx.future = "open" /\ Idle("worker") /\ txSignals = <<>>
=============================================================================

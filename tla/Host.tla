-------------------------------- MODULE Host --------------------------------
(***************************************************************************)
(* What Moonraker's optional components work in: tasks of the event loop   *)
(* that stop at awaits, a printer, and an outside world whose requests,    *)
(* changes and failures are bounded.  Each component is a module of its    *)
(* own that EXTENDS this one; they share no state with one another, so a   *)
(* behaviour of module Components is about one of them.                    *)
(***************************************************************************)
EXTENDS Naturals, Sequences, FiniteSets

CONSTANTS
  Request,   \* tasks of requests
  None,
  Budget     \* for each component: the requests, changes, failures there may be, and in all

(* Tasks that are no requests: of a timer, of an event, of the start, others *)
Background == {"timer", "event", "init", "worker"}
Task == Request \cup Background

ASSUME HostConstants ==
  /\ Request \cap Background = {}
  /\ None \notin Request \cup Background
  /\ \A c \in DOMAIN Budget :
       Budget[c] \in [asks : Nat, changes : Nat, failures : Nat, all : Nat]

VARIABLES
  component,   \* the component this behaviour is about
  pc,          \* where a task is, "idle" when there is none
  klippy,      \* KlippyState, "offline" without a connection
  printing,    \* what is_printing would say
  left         \* what is left of the budget

hostVars == <<component, pc, klippy, printing, left>>

HostInit ==
  /\ component \in DOMAIN Budget
  /\ pc = [t \in Task |-> "idle"]
  /\ klippy = "ready"
  /\ printing = FALSE
  /\ left = [what \in {"asks", "changes", "failures"} |-> Budget[component][what]]

HostTypeOK ==
  /\ component \in DOMAIN Budget
  /\ DOMAIN pc = Task
  /\ klippy \in {"offline", "ready", "shutdown"}
  /\ printing \in BOOLEAN
  /\ left \in [asks : Nat, changes : Nat, failures : Nat]

Idle(t) == pc[t] = "idle"
Goes(t, place) == pc' = [pc EXCEPT ![t] = place]

(* The rest of the budget when all that may come has come. *)
Unspent == LET b == Budget[component] IN b.asks + b.changes + b.failures - b.all
May(what) == left[what] > 0 /\ left.asks + left.changes + left.failures > Unspent
Spends(what) == May(what) /\ left' = [left EXCEPT ![what] = @ - 1]

(* What a component may begin with; it matters where it is the component.    *)
Among(S, name) == IF component = name THEN S ELSE {CHOOSE x \in S : TRUE}

PrinterStays == UNCHANGED <<component, klippy, printing>>
=============================================================================

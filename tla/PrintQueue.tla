---------------------------- MODULE PrintQueue ----------------------------
(***************************************************************************)
(* What a print queue promises its users, with no locks, timers or tasks:  *)
(* jobs keep the order they were queued in, only the first one is ever     *)
(* handed to the printer, and while it is being handed over nobody edits   *)
(* the queue, so that the entry taken off afterwards is the one that was   *)
(* printed.  JobQueue implements this specification.                       *)
(***************************************************************************)
CONSTANTS Job,   \* identities of queue entries
          None   \* not a job

VARIABLES
  keys,          \* the entries in the queue
  before,        \* <<a, b>> : a was queued in front of b
  loading        \* the entry being handed to the printer, or None

queueVars == <<keys, before, loading>>

(* The strict total orders of a set of entries. *)
Orders(S) == {r \in SUBSET (S \X S) :
                /\ \A a \in S : <<a, a>> \notin r
                /\ \A a, b \in S : a # b => (<<a, b>> \in r <=> <<b, a>> \notin r)
                /\ \A a, b, c \in S : <<a, b>> \in r /\ <<b, c>> \in r => <<a, c>> \in r}

IsFirst(j) == j \in keys /\ \A k \in keys \ {j} : <<j, k>> \in before

Init == keys = {} /\ before = {} /\ loading = None

(* New entries, in the order given, go behind those already queued. *)
Add(new, order) ==
  /\ loading = None
  /\ new \cap keys = {}
  /\ keys' = keys \cup new
  /\ before' = before \cup order \cup (keys \X new)
  /\ UNCHANGED loading

Remove(gone) ==
  /\ loading = None
  /\ keys' = keys \ gone
  /\ before' = before \cap (keys' \X keys')
  /\ UNCHANGED loading

(* A reset empties the queue and fills it again. *)
Replace(new, order) ==
  /\ loading = None
  /\ keys' = new
  /\ before' = order
  /\ UNCHANGED loading

MoveToFront(j) ==
  /\ loading = None
  /\ j \in keys
  /\ before' = (before \ (keys \X {j})) \cup ({j} \X (keys \ {j}))
  /\ UNCHANGED <<keys, loading>>

Begin(j) ==
  /\ loading = None
  /\ IsFirst(j)
  /\ loading' = j
  /\ UNCHANGED <<keys, before>>

(* The printer took the job: its entry, and no other, leaves the queue. *)
Loaded ==
  /\ loading # None
  /\ keys' = keys \ {loading}
  /\ before' = before \cap (keys' \X keys')
  /\ loading' = None

Failed == loading # None /\ loading' = None /\ UNCHANGED <<keys, before>>

Next ==
  \/ \E new \in SUBSET Job : \E order \in Orders(new) : Add(new, order) \/ Replace(new, order)
  \/ \E gone \in SUBSET Job : Remove(gone)
  \/ \E j \in Job : MoveToFront(j) \/ Begin(j)
  \/ Loaded
  \/ Failed

Spec == Init /\ [][Next]_queueVars
=============================================================================

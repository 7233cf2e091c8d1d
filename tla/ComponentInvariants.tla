------------------------ MODULE ComponentInvariants ------------------------
(***************************************************************************)
(* The inductive invariants of components that module Components puts       *)
(* together, and that each of their actions keeps them, for any requests,    *)
(* any budget of events and any set of spools, applications, jobs or files.  *)
(***************************************************************************)
EXTENDS Spoolman, Updates, Timelapse, Files, Hardware, Power, Machine, Announcements, Fields,
        FiniteSetTheorems, SequenceTheorems, TLAPS

(***************************************************************************)
(* Spoolman: what is counted goes from the pending reports to those under  *)
(* way and back, or to the server, and is lost on none of these ways.      *)
(***************************************************************************)
SpoolTypes ==
  /\ DOMAIN pc = Task
  /\ spoolId \in Spool \cup {None} /\ spools \subseteq Spool
  /\ lastPos \in Nat /\ highestPos \in Nat /\ pos \in Nat /\ top \in Nat
  /\ pending \in [Spool -> Nat] /\ taken \in [Spool -> Nat] /\ used \in [Spool -> Nat]
  /\ charged \in [Spool -> Nat] /\ doubled \in [Spool -> Nat]
  /\ timer \in [running : BOOLEAN, armed : BOOLEAN]

(* Reports are under way when the callback of the timer sends them. *)
SendingOK ==
  /\ timer.armed => pc["timer"] = "idle"
  /\ pc["timer"] = "sending" => \E s \in Spool : taken[s] > 0
  /\ pc["timer"] # "sending" => taken = NoUse

(* The use of the active spool is counted from where it really began. *)
AimOK == spoolId \in Spool /\ spoolId \notin misjudged => highestPos = top

GoneOK == \A s \in news : s \notin spools

SpoolmanOK == SpoolTypes /\ SendingOK /\ AimOK /\ GoneOK /\ UsageCounted

LEMMA NoUseType == NoUse \in [Spool -> Nat] /\ \A s \in Spool : NoUse[s] = 0
  BY DEF NoUse

LEMMA PlusType ==
  ASSUME NEW f \in [Spool -> Nat], NEW s \in Spool, NEW n \in Nat
  PROVE  /\ Plus(f, s, n) \in [Spool -> Nat] /\ Plus(f, s, n)[s] = f[s] + n
         /\ \A x \in Spool : x # s => Plus(f, s, n)[x] = f[x]
  BY DEF Plus

LEMMA TimersThere ==
  ASSUME SpoolTypes
  PROVE  DOMAIN pc = Task /\ "timer" \in Task /\ "worker" \in Task
  BY DEF SpoolTypes, Task, Background

LEMMA InFlightIsTaken ==
  ASSUME SpoolmanOK, pc["timer"] = "sending"
  PROVE  InFlight \in Spool /\ taken[InFlight] \in Nat /\ taken[InFlight] > 0
<1>1. \E s \in Spool : taken[s] > 0
  BY DEF SpoolmanOK, SendingOK
<1>2. InFlight \in Spool /\ taken[InFlight] > 0
  BY <1>1 DEF InFlight
<1>3. QED
  BY <1>2 DEF SpoolmanOK, SpoolTypes

(* What is known of the spool that was in flight is right for pend, and the rest *)
(* of the reports goes on or back.                                                *)
LEMMA OnToNextKeeps ==
  ASSUME SpoolmanOK, pc["timer"] = "sending", NEW pend \in [Spool -> Nat], OnToNext(pend)
  PROVE  /\ DOMAIN pc' = Task /\ timer' \in [running : BOOLEAN, armed : BOOLEAN]
         /\ pending' \in [Spool -> Nat] /\ taken' \in [Spool -> Nat] /\ SendingOK'
         /\ pending'[InFlight] + taken'[InFlight] = pend[InFlight]
         /\ \A s \in Spool : s # InFlight => pending'[s] + taken'[s] = pend[s] + taken[s]
<1>1. PICK i, rest : i = InFlight /\ rest = [taken EXCEPT ![InFlight] = 0]
  OBVIOUS
<1>2. /\ i \in Spool /\ taken \in [Spool -> Nat] /\ rest \in [Spool -> Nat] /\ rest[i] = 0
      /\ \A s \in Spool : s # i => rest[s] = taken[s]
  BY <1>1, InFlightIsTaken DEF SpoolmanOK, SpoolTypes
<1>3. timer \in [running : BOOLEAN, armed : BOOLEAN] /\ (timer.armed => pc["timer"] = "idle")
  BY DEF SpoolmanOK, SpoolTypes, SendingOK
<1>4. DOMAIN pc = Task /\ "timer" \in Task
  BY TimersThere DEF SpoolmanOK
<1>5. CASE /\ taken' = NoUse /\ pending' = [s \in Spool |-> pend[s] + rest[s]] /\ CallbackReturns
  <2>1. /\ DOMAIN pc' = Task /\ pc'["timer"] = "idle"
        /\ timer' \in [running : BOOLEAN, armed : BOOLEAN]
    BY <1>3, <1>4, <1>5 DEF CallbackReturns, Goes
  <2>2. SendingOK'
    BY <1>5, <2>1 DEF SendingOK, NoUse
  <2>3. pending' \in [Spool -> Nat] /\ \A s \in Spool : pending'[s] = pend[s] + rest[s]
    BY <1>2, <1>5
  <2>4. taken' \in [Spool -> Nat] /\ \A s \in Spool : taken'[s] = 0
    BY <1>5, NoUseType
  <2>5. QED
    BY <1>1, <1>2, <2>1, <2>2, <2>3, <2>4
<1>6. CASE rest # NoUse /\ taken' = rest /\ pending' = pend /\ UNCHANGED <<pc, timer>>
  <2>1. \E s \in Spool : rest[s] > 0
    <3>1. PICK s \in Spool : rest[s] # 0
      BY <1>2, <1>6 DEF NoUse
    <3>2. QED
      BY <1>2, <3>1
  <2>2. SendingOK'
    BY <1>3, <1>6, <2>1 DEF SendingOK
  <2>3. QED
    BY <1>1, <1>2, <1>3, <1>4, <1>6, <2>2
<1>7. QED
  BY <1>1, <1>5, <1>6 DEF OnToNext

LEMMA ReportBeginsKeeps ==
  ASSUME SpoolmanOK, ReportBegins
  PROVE  SpoolmanOK'
<1>1. /\ UNCHANGED <<spoolId, lastPos, highestPos, pos, top, used, spools, charged, news, doubled,
                     misjudged>>
      /\ pc["timer"] = "scheduled" /\ taken = NoUse
      /\ timer \in [running : BOOLEAN, armed : BOOLEAN] /\ ~timer.armed
  BY DEF ReportBegins, countVars, serverVars, SpoolmanOK, SendingOK, SpoolTypes
<1>2. DOMAIN pc = Task /\ "timer" \in Task /\ "worker" \in Task
  BY TimersThere DEF SpoolmanOK
<1>3. CASE UNCHANGED <<pending, taken>> /\ Goes("timer", "idle")
           /\ timer' \in [running : BOOLEAN, armed : BOOLEAN]
  BY <1>1, <1>2, <1>3 DEF SpoolmanOK, SpoolTypes, SendingOK, AimOK, GoneOK, UsageCounted, Goes
<1>4. CASE taken' = pending /\ pending' = NoUse /\ pending # NoUse /\ Goes("timer", "sending")
           /\ UNCHANGED timer
  <2>1. DOMAIN pc' = Task /\ pc'["timer"] = "sending"
    BY <1>2, <1>4 DEF Goes
  <2>2. pending \in [Spool -> Nat] /\ NoUse \in [Spool -> Nat] /\ \A s \in Spool : NoUse[s] = 0
    BY NoUseType DEF SpoolmanOK, SpoolTypes
  <2>3. \E s \in Spool : pending[s] > 0
    <3>1. PICK s \in Spool : pending[s] # 0
      BY <1>4, <2>2 DEF NoUse
    <3>2. QED
      BY <2>2, <3>1
  <2>4. SpoolTypes'
    BY <1>1, <1>4, <2>1, <2>2 DEF SpoolmanOK, SpoolTypes
  <2>5. SendingOK' /\ AimOK' /\ GoneOK'
    BY <1>1, <1>4, <2>1, <2>3 DEF SpoolmanOK, SendingOK, AimOK, GoneOK
  <2>6. \A s \in Spool : taken'[s] = pending[s] /\ pending'[s] = 0 /\ taken[s] = 0
                         /\ pending[s] \in Nat /\ charged[s] \in Nat
    BY <1>1, <1>4, <2>2 DEF SpoolmanOK, SpoolTypes
  <2>7. UsageCounted'
    <3> SUFFICES ASSUME NEW s \in spools, s \notin misjudged
                 PROVE  charged[s] + pending'[s] + taken'[s] = used[s] + doubled[s]
      BY <1>1 DEF UsageCounted
    <3>1. charged[s] + pending[s] + taken[s] = used[s] + doubled[s]
      BY DEF SpoolmanOK, UsageCounted
    <3>2. QED
      BY <2>6, <3>1 DEF SpoolmanOK, SpoolTypes
  <2>8. QED
    BY <2>4, <2>5, <2>7 DEF SpoolmanOK
<1>5. QED
  BY <1>1, <1>3, <1>4 DEF ReportBegins, CallbackReturns

LEMMA UsedKeeps ==
  ASSUME SpoolmanOK, Used
  PROVE  SpoolmanOK'
<1>1. PICK i, n : i = InFlight /\ n = taken[InFlight]
  OBVIOUS
<1>2. /\ UNCHANGED <<spoolId, lastPos, highestPos, pos, top, used, spools, news, doubled, misjudged>>
      /\ charged' = Plus(charged, i, n) /\ pc["timer"] = "sending"
  BY <1>1 DEF Used, countVars
<1>3. /\ i \in Spool /\ n \in Nat /\ n = taken[i]
      /\ pending \in [Spool -> Nat] /\ charged \in [Spool -> Nat] /\ used \in [Spool -> Nat]
      /\ doubled \in [Spool -> Nat] /\ taken \in [Spool -> Nat] /\ spools \subseteq Spool
  BY <1>1, <1>2, InFlightIsTaken DEF SpoolmanOK, SpoolTypes
<1>4. /\ charged' \in [Spool -> Nat] /\ charged'[i] = charged[i] + n
      /\ \A s \in Spool : s # i => charged'[s] = charged[s]
  <2>1. i \in Spool /\ n \in Nat /\ charged \in [Spool -> Nat]
    BY <1>3
  <2>2. /\ Plus(charged, i, n) \in [Spool -> Nat] /\ Plus(charged, i, n)[i] = charged[i] + n
        /\ \A s \in Spool : s # i => Plus(charged, i, n)[s] = charged[s]
    BY <2>1, PlusType
  <2>3. QED
    BY <1>2, <2>2
<1>5. /\ DOMAIN pc' = Task /\ timer' \in [running : BOOLEAN, armed : BOOLEAN]
      /\ pending' \in [Spool -> Nat] /\ taken' \in [Spool -> Nat] /\ SendingOK'
      /\ pending'[i] + taken'[i] = pending[i]
      /\ \A s \in Spool : s # i => pending'[s] + taken'[s] = pending[s] + taken[s]
  BY <1>1, <1>2, <1>3, OnToNextKeeps DEF Used
<1>6. SpoolTypes'
  BY <1>2, <1>4, <1>5 DEF SpoolmanOK, SpoolTypes
<1>7. AimOK' /\ GoneOK'
  BY <1>2 DEF SpoolmanOK, AimOK, GoneOK
<1>8. UsageCounted'
  <2> SUFFICES ASSUME NEW s \in spools, s \notin misjudged
               PROVE  charged'[s] + pending'[s] + taken'[s] = used[s] + doubled[s]
    BY <1>2 DEF UsageCounted
  <2>1. charged[s] + pending[s] + taken[s] = used[s] + doubled[s]
    BY DEF SpoolmanOK, UsageCounted
  <2>2. /\ s \in Spool /\ charged[s] \in Nat /\ pending[s] \in Nat /\ taken[s] \in Nat
        /\ pending'[s] \in Nat /\ taken'[s] \in Nat
    BY <1>3, <1>5
  <2>3. CASE s = i
    BY <1>3, <1>4, <1>5, <2>1, <2>2, <2>3
  <2>4. CASE s # i
    BY <1>4, <1>5, <2>1, <2>2, <2>4
  <2>5. QED
    BY <2>3, <2>4
<1>9. QED
  BY <1>5, <1>6, <1>7, <1>8 DEF SpoolmanOK

LEMMA AddBoth ==
  ASSUME NEW c \in Nat, NEW p \in Nat, NEW q \in Nat, NEW u \in Nat, NEW d \in Nat, NEW e \in Nat,
         NEW p1 \in Nat, NEW q1 \in Nat, c + p + q = u + d, p1 + q1 = p + q
  PROVE  (c + e) + p1 + q1 = u + (d + e)
  OBVIOUS

(* A report that failed is pending again, and charged twice if it had its effect. *)
LEMMA UseFailsKeeps ==
  ASSUME SpoolmanOK, NEW effective \in BOOLEAN, UseFails(effective)
  PROVE  SpoolmanOK'
<1>1. PICK i, n, pend : i = InFlight /\ n = taken[InFlight] /\ pend = Missed
  OBVIOUS
<1>2. /\ UNCHANGED <<spoolId, lastPos, highestPos, pos, top, used, spools, news, misjudged>>
      /\ charged' = (IF effective THEN Plus(charged, i, n) ELSE charged)
      /\ doubled' = (IF effective THEN Plus(doubled, i, n) ELSE doubled)
      /\ pc["timer"] = "sending" /\ pend = Plus(pending, i, n)
  BY <1>1 DEF UseFails, countVars, Missed
<1>3. /\ i \in Spool /\ n \in Nat /\ n = taken[i]
      /\ pending \in [Spool -> Nat] /\ charged \in [Spool -> Nat] /\ used \in [Spool -> Nat]
      /\ doubled \in [Spool -> Nat] /\ taken \in [Spool -> Nat] /\ spools \subseteq Spool
  BY <1>1, <1>2, InFlightIsTaken DEF SpoolmanOK, SpoolTypes
<1>4. PICK e \in {0, n} : /\ charged' \in [Spool -> Nat] /\ charged'[i] = charged[i] + e
                          /\ doubled' \in [Spool -> Nat] /\ doubled'[i] = doubled[i] + e
                          /\ \A s \in Spool : s # i => /\ charged'[s] = charged[s]
                                                       /\ doubled'[s] = doubled[s]
  <2>1. CASE effective
    <3>1. /\ Plus(charged, i, n) \in [Spool -> Nat] /\ Plus(charged, i, n)[i] = charged[i] + n
          /\ \A s \in Spool : s # i => Plus(charged, i, n)[s] = charged[s]
      BY <1>3, PlusType
    <3>2. /\ Plus(doubled, i, n) \in [Spool -> Nat] /\ Plus(doubled, i, n)[i] = doubled[i] + n
          /\ \A s \in Spool : s # i => Plus(doubled, i, n)[s] = doubled[s]
      BY <1>3, PlusType
    <3>3. QED
      BY <1>2, <2>1, <3>1, <3>2
  <2>2. CASE ~effective
    <3>1. charged[i] = charged[i] + 0 /\ doubled[i] = doubled[i] + 0
      BY <1>3
    <3>2. QED
      BY <1>2, <1>3, <2>2, <3>1
  <2>3. QED
    BY <2>1, <2>2
<1>5. /\ pend \in [Spool -> Nat] /\ pend[i] = pending[i] + n
      /\ \A s \in Spool : s # i => pend[s] = pending[s]
  <2>1. i \in Spool /\ n \in Nat /\ pending \in [Spool -> Nat]
    BY <1>3
  <2>2. /\ Plus(pending, i, n) \in [Spool -> Nat] /\ Plus(pending, i, n)[i] = pending[i] + n
        /\ \A s \in Spool : s # i => Plus(pending, i, n)[s] = pending[s]
    BY <2>1, PlusType
  <2>3. QED
    BY <1>2, <2>2
<1>6. /\ DOMAIN pc' = Task /\ timer' \in [running : BOOLEAN, armed : BOOLEAN]
      /\ pending' \in [Spool -> Nat] /\ taken' \in [Spool -> Nat] /\ SendingOK'
      /\ pending'[i] + taken'[i] = pend[i]
      /\ \A s \in Spool : s # i => pending'[s] + taken'[s] = pend[s] + taken[s]
  BY <1>1, <1>2, <1>5, OnToNextKeeps DEF UseFails
<1>7. SpoolTypes'
  BY <1>2, <1>4, <1>6 DEF SpoolmanOK, SpoolTypes
<1>8. AimOK' /\ GoneOK'
  BY <1>2 DEF SpoolmanOK, AimOK, GoneOK
<1>9. UsageCounted'
  <2> SUFFICES ASSUME NEW s \in spools, s \notin misjudged
               PROVE  charged'[s] + pending'[s] + taken'[s] = used[s] + doubled'[s]
    BY <1>2 DEF UsageCounted
  <2>1. charged[s] + pending[s] + taken[s] = used[s] + doubled[s]
    BY DEF SpoolmanOK, UsageCounted
  <2>2. /\ s \in Spool /\ charged[s] \in Nat /\ pending[s] \in Nat /\ taken[s] \in Nat
        /\ pending'[s] \in Nat /\ taken'[s] \in Nat /\ used[s] \in Nat /\ doubled[s] \in Nat
        /\ e \in Nat
    BY <1>3, <1>4, <1>6
  <2>3. CASE s = i
    <3>1. charged'[s] = charged[s] + e /\ doubled'[s] = doubled[s] + e
      BY <1>4, <2>3
    <3>2. pending'[s] + taken'[s] = pending[s] + n /\ taken[s] = n
      BY <1>3, <1>5, <1>6, <2>3
    <3>3. pending'[s] + taken'[s] = pending[s] + taken[s]
      BY <3>2
    <3>4. (charged[s] + e) + pending'[s] + taken'[s] = used[s] + (doubled[s] + e)
      BY <2>1, <2>2, <3>3, AddBoth
    <3>5. QED
      BY <3>1, <3>4
  <2>4. CASE s # i
    <3>1. charged'[s] = charged[s] /\ doubled'[s] = doubled[s]
      BY <1>4, <2>2, <2>4
    <3>2. pending'[s] + taken'[s] = pending[s] + taken[s]
      BY <1>5, <1>6, <2>2, <2>4
    <3>3. QED
      BY <2>1, <2>2, <3>1, <3>2
  <2>5. QED
    BY <2>3, <2>4
<1>10. QED
  BY <1>6, <1>7, <1>8, <1>9 DEF SpoolmanOK

(* Nothing is claimed of a spool that is gone. *)
LEMMA NotFoundKeeps ==
  ASSUME SpoolmanOK, NotFound
  PROVE  SpoolmanOK'
<1>1. PICK i, pend : i = InFlight /\ pend = [pending EXCEPT ![InFlight] = 0]
  OBVIOUS
<1>2. /\ UNCHANGED <<lastPos, pos, used, spools, charged, news, doubled>>
      /\ pc["timer"] = "sending" /\ i \notin spools
      /\ IF i = spoolId THEN Activate(None) ELSE UNCHANGED <<spoolId, highestPos, top, misjudged>>
  BY <1>1 DEF NotFound, serverVars
<1>3. /\ i \in Spool /\ pending \in [Spool -> Nat] /\ charged \in [Spool -> Nat]
      /\ used \in [Spool -> Nat] /\ doubled \in [Spool -> Nat] /\ taken \in [Spool -> Nat]
      /\ spools \subseteq Spool
  BY <1>1, <1>2, InFlightIsTaken DEF SpoolmanOK, SpoolTypes
<1>4. /\ spoolId' \in Spool \cup {None} /\ highestPos' \in Nat /\ top' \in Nat
      /\ misjudged' = misjudged
      /\ (spoolId' # None => UNCHANGED <<spoolId, highestPos, top>>)
  BY <1>2 DEF Activate, SpoolmanOK, SpoolTypes
<1>5. pend \in [Spool -> Nat] /\ \A s \in Spool : s # i => pend[s] = pending[s]
  BY <1>1, <1>3
<1>6. /\ DOMAIN pc' = Task /\ timer' \in [running : BOOLEAN, armed : BOOLEAN]
      /\ pending' \in [Spool -> Nat] /\ taken' \in [Spool -> Nat] /\ SendingOK'
      /\ \A s \in Spool : s # i => pending'[s] + taken'[s] = pend[s] + taken[s]
  BY <1>1, <1>2, <1>5, OnToNextKeeps DEF NotFound
<1>7. SpoolTypes'
  BY <1>2, <1>4, <1>6 DEF SpoolmanOK, SpoolTypes
<1>8. AimOK' /\ GoneOK'
  BY <1>2, <1>4, SpoolmanConstants DEF SpoolmanOK, AimOK, GoneOK
<1>9. UsageCounted'
  <2> SUFFICES ASSUME NEW s \in spools, s \notin misjudged
               PROVE  charged[s] + pending'[s] + taken'[s] = used[s] + doubled[s]
    BY <1>2, <1>4 DEF UsageCounted
  <2>1. charged[s] + pending[s] + taken[s] = used[s] + doubled[s] /\ s # i
    BY <1>2 DEF SpoolmanOK, UsageCounted
  <2>2. /\ s \in Spool /\ charged[s] \in Nat /\ pending[s] \in Nat /\ taken[s] \in Nat
        /\ pending'[s] \in Nat /\ taken'[s] \in Nat
    BY <1>3, <1>6
  <2>3. pending'[s] + taken'[s] = pending[s] + taken[s]
    BY <1>5, <1>6, <2>1, <2>2
  <2>4. QED
    BY <2>1, <2>2, <2>3
<1>10. QED
  BY <1>6, <1>7, <1>8, <1>9 DEF SpoolmanOK

(* The sums do not change where no report is made and nothing is counted. *)
LEMMA SumsKeep ==
  ASSUME SpoolmanOK, UNCHANGED <<charged, pending, taken, used, doubled>>, spools' \subseteq spools,
         misjudged \subseteq misjudged'
  PROVE  UsageCounted'
  BY DEF SpoolmanOK, UsageCounted

(* What was pending for the active spool is dropped. *)
LEMMA ForgetActiveKeeps ==
  ASSUME SpoolmanOK, ForgetActive, UNCHANGED <<charged, taken, used, doubled, spools, lastPos, pos>>,
         misjudged \subseteq misjudged',
         spoolId \in spools => spoolId \in misjudged'
  PROVE  /\ UsageCounted' /\ spoolId' = None /\ pending' \in [Spool -> Nat]
         /\ highestPos' \in Nat /\ top' \in Nat
<1>1. pending' \in [Spool -> Nat] /\ \A s \in Spool : s # spoolId => pending'[s] = pending[s]
  BY DEF ForgetActive, SpoolmanOK, SpoolTypes
<1>2. spoolId' = None /\ highestPos' \in Nat /\ top' \in Nat
  BY DEF ForgetActive, SpoolmanOK, SpoolTypes
<1>3. UsageCounted'
  <2> SUFFICES ASSUME NEW s \in spools, s \notin misjudged'
               PROVE  charged[s] + pending'[s] + taken[s] = used[s] + doubled[s]
    BY DEF UsageCounted
  <2>1. s \in Spool /\ s # spoolId /\ s \notin misjudged
    BY DEF SpoolmanOK, SpoolTypes
  <2>2. QED
    BY <1>1, <2>1 DEF SpoolmanOK, UsageCounted
<1>4. QED
  BY <1>1, <1>2, <1>3

LEMMA DeletionReadKeeps ==
  ASSUME SpoolmanOK, NEW s \in Spool, DeletionRead(s)
  PROVE  SpoolmanOK'
<1>1. /\ UNCHANGED <<pc, lastPos, pos, used, taken, timer, spools, charged, doubled, misjudged>>
      /\ s \in news /\ news' = news \ {s} /\ s \notin spools
  BY DEF DeletionRead, SpoolmanOK, GoneOK
<1>2. CASE s = spoolId /\ ForgetActive
  <2>1. /\ UsageCounted' /\ spoolId' = None /\ pending' \in [Spool -> Nat]
        /\ highestPos' \in Nat /\ top' \in Nat
    BY <1>1, <1>2, ForgetActiveKeeps
  <2>2. SpoolTypes'
    BY <1>1, <2>1 DEF SpoolmanOK, SpoolTypes
  <2>3. SendingOK' /\ AimOK' /\ GoneOK'
    BY <1>1, <2>1, SpoolmanConstants DEF SpoolmanOK, SendingOK, AimOK, GoneOK
  <2>4. QED
    BY <2>1, <2>2, <2>3 DEF SpoolmanOK
<1>3. CASE UNCHANGED <<spoolId, highestPos, top, pending>>
  BY <1>1, <1>3, SumsKeep DEF SpoolmanOK, SpoolTypes, SendingOK, AimOK, GoneOK
<1>4. QED
  BY <1>2, <1>3 DEF DeletionRead

LEMMA CheckAnsweredKeeps ==
  ASSUME SpoolmanOK, CheckAnswered
  PROVE  SpoolmanOK'
<1>1. /\ UNCHANGED <<lastPos, pos, used, taken, timer, spools, charged, news, doubled>>
      /\ DOMAIN pc' = Task /\ pc'["timer"] = pc["timer"]
  BY TimersThere DEF CheckAnswered, Goes, serverVars, SpoolmanOK
<1>2. SendingOK' /\ GoneOK'
  BY <1>1 DEF SpoolmanOK, SendingOK, GoneOK
<1>3. CASE UNCHANGED <<spoolId, highestPos, top, pending, misjudged>>
  BY <1>1, <1>2, <1>3, SumsKeep DEF SpoolmanOK, SpoolTypes, AimOK
<1>4. CASE /\ checked \notin spools /\ ForgetActive
           /\ misjudged' = IF spoolId \in {checked, None} THEN misjudged ELSE misjudged \cup {spoolId}
  <2>1. None \notin spools
    BY SpoolmanConstants DEF SpoolmanOK, SpoolTypes
  <2>2. misjudged \subseteq misjudged' /\ (spoolId \in spools => spoolId \in misjudged')
    BY <1>4, <2>1
  <2>3. /\ UsageCounted' /\ spoolId' = None /\ pending' \in [Spool -> Nat]
        /\ highestPos' \in Nat /\ top' \in Nat
    BY <1>1, <1>4, <2>2, ForgetActiveKeeps
  <2>4. SpoolTypes' /\ AimOK'
    BY <1>1, <2>3, SpoolmanConstants DEF SpoolmanOK, SpoolTypes, AimOK
  <2>5. QED
    BY <1>2, <2>3, <2>4 DEF SpoolmanOK
<1>5. QED
  BY <1>3, <1>4 DEF CheckAnswered

(* The filament that a move of the extruder is counted for is what it gave. *)
LEMMA StatusUpdateKeeps ==
  ASSUME SpoolmanOK, NEW p \in Nat, StatusUpdate(p)
  PROVE  SpoolmanOK'
<1>1. /\ UNCHANGED <<pc, spoolId, taken, timer, spools, charged, news, doubled, misjudged>>
      /\ pos' = p /\ lastPos' = p /\ top' = Higher(p, top) /\ highestPos' = Higher(p, highestPos)
  BY DEF StatusUpdate, serverVars
<1>2. top \in Nat /\ highestPos \in Nat /\ pending \in [Spool -> Nat] /\ used \in [Spool -> Nat]
  BY DEF SpoolmanOK, SpoolTypes
<1>3. PICK c, g : c = Counted(p) /\ g = Higher(p, top) - top
  OBVIOUS
<1>4. c \in Nat /\ g \in Nat /\ (highestPos = top => c = g) /\ top' \in Nat /\ highestPos' \in Nat
  BY <1>1, <1>2, <1>3 DEF Counted, Higher
<1>5. SendingOK' /\ AimOK' /\ GoneOK'
  BY <1>1 DEF SpoolmanOK, SendingOK, AimOK, GoneOK
<1>6. CASE UNCHANGED <<pending, used>>
  BY <1>1, <1>4, <1>5, <1>6, SumsKeep DEF SpoolmanOK, SpoolTypes
<1>7. CASE spoolId # None /\ pending' = Plus(pending, spoolId, c) /\ used' = Plus(used, spoolId, g)
  <2>1. spoolId \in Spool
    BY <1>7 DEF SpoolmanOK, SpoolTypes
  <2>2. /\ pending' \in [Spool -> Nat] /\ pending'[spoolId] = pending[spoolId] + c
        /\ \A s \in Spool : s # spoolId => pending'[s] = pending[s]
    <3>1. /\ Plus(pending, spoolId, c) \in [Spool -> Nat]
          /\ Plus(pending, spoolId, c)[spoolId] = pending[spoolId] + c
          /\ \A s \in Spool : s # spoolId => Plus(pending, spoolId, c)[s] = pending[s]
      BY <1>2, <1>4, <2>1, PlusType
    <3>2. QED
      BY <1>7, <3>1
  <2>3. /\ used' \in [Spool -> Nat] /\ used'[spoolId] = used[spoolId] + g
        /\ \A s \in Spool : s # spoolId => used'[s] = used[s]
    <3>1. /\ Plus(used, spoolId, g) \in [Spool -> Nat]
          /\ Plus(used, spoolId, g)[spoolId] = used[spoolId] + g
          /\ \A s \in Spool : s # spoolId => Plus(used, spoolId, g)[s] = used[s]
      BY <1>2, <1>4, <2>1, PlusType
    <3>2. QED
      BY <1>7, <3>1
  <2>4. SpoolTypes'
    BY <1>1, <1>4, <2>2, <2>3 DEF SpoolmanOK, SpoolTypes
  <2>5. UsageCounted'
    <3> SUFFICES ASSUME NEW s \in spools, s \notin misjudged
                 PROVE  charged[s] + pending'[s] + taken[s] = used'[s] + doubled[s]
      BY <1>1 DEF UsageCounted
    <3>1. charged[s] + pending[s] + taken[s] = used[s] + doubled[s]
      BY DEF SpoolmanOK, UsageCounted
    <3>2. /\ s \in Spool /\ charged[s] \in Nat /\ taken[s] \in Nat /\ doubled[s] \in Nat
          /\ pending[s] \in Nat /\ used[s] \in Nat
      BY DEF SpoolmanOK, SpoolTypes
    <3>3. CASE s = spoolId
      <4>1. c = g
        BY <1>4, <3>2, <3>3 DEF SpoolmanOK, AimOK
      <4>2. QED
        BY <1>4, <2>2, <2>3, <3>1, <3>2, <3>3, <4>1
    <3>4. CASE s # spoolId
      BY <2>2, <2>3, <3>1, <3>2, <3>4
    <3>5. QED
      BY <3>3, <3>4
  <2>6. QED
    BY <1>5, <2>4, <2>5 DEF SpoolmanOK
<1>8. QED
  BY <1>3, <1>6, <1>7 DEF StatusUpdate

LEMMA SpoolmanKeeps ==
  ASSUME SpoolmanOK, SpoolmanNext
  PROVE  SpoolmanOK'
<1>0. /\ DOMAIN pc = Task /\ "timer" \in Task /\ "worker" \in Task
      /\ timer \in [running : BOOLEAN, armed : BOOLEAN]
  BY TimersThere DEF SpoolmanOK, SpoolTypes
<1>1. ASSUME NEW s \in Spool \cup {None}, ChooseSpool(s) PROVE SpoolmanOK'
  <2>1. /\ UNCHANGED <<pc, lastPos, pos, used, pending, taken, timer, spools, charged, news, doubled>>
        /\ spoolId' \in Spool \cup {None} /\ highestPos' \in Nat /\ top' \in Nat
        /\ misjudged \subseteq misjudged'
    BY <1>1 DEF ChooseSpool, Activate, serverVars, SpoolmanOK, SpoolTypes
  <2>2. AimOK'
    BY <1>1, SpoolmanConstants DEF ChooseSpool, Activate, SpoolmanOK, AimOK
  <2>3. SpoolTypes' /\ SendingOK' /\ GoneOK' /\ UsageCounted'
    BY <2>1, SumsKeep DEF SpoolmanOK, SpoolTypes, SendingOK, GoneOK
  <2>4. QED
    BY <2>2, <2>3 DEF SpoolmanOK
<1>2. ASSUME NEW p \in 0..MaxPos, KlippyReady(p) \/ ExtruderChanges(p) PROVE SpoolmanOK'
  <2>1. /\ UNCHANGED <<pc, spoolId, used, pending, taken, timer, spools, charged, news, doubled,
                       misjudged>>
        /\ highestPos' = p /\ top' = p /\ pos' = p /\ lastPos' \in {lastPos, p}
    BY <1>2 DEF KlippyReady, ExtruderChanges, serverVars
  <2>2. p \in Nat
    BY SpoolmanConstants
  <2>3. QED
    BY <2>1, <2>2, SumsKeep DEF SpoolmanOK, SpoolTypes, SendingOK, AimOK, GoneOK
<1>3. ASSUME NEW p \in 0..MaxPos, StatusUpdate(p) PROVE SpoolmanOK'
  BY <1>3, StatusUpdateKeeps, SpoolmanConstants
<1>4. ASSUME NEW s \in Spool, DeletedOnServer(s) PROVE SpoolmanOK'
  <2>1. /\ UNCHANGED <<pc, spoolId, lastPos, highestPos, pos, top, used, pending, taken, timer, charged,
                       doubled, misjudged>>
        /\ spools' = spools \ {s} /\ (\A x \in news' : x \in news \cup {s})
    BY <1>4 DEF DeletedOnServer, countVars
  <2>2. QED
    BY <2>1, SumsKeep DEF SpoolmanOK, SpoolTypes, SendingOK, AimOK, GoneOK
<1>5. ASSUME NEW s \in Spool, DeletionRead(s) PROVE SpoolmanOK'
  BY <1>5, DeletionReadKeeps
<1>6. CASE Fires
  <2>1. /\ UNCHANGED <<spoolId, lastPos, highestPos, pos, top, used, pending, taken, spools, charged,
                       news, doubled, misjudged>>
        /\ pc["timer"] = "idle"
    BY <1>6 DEF Fires, countVars, serverVars, SpoolmanOK, SendingOK
  <2>2. /\ DOMAIN pc' = Task /\ pc'["timer"] = "scheduled"
        /\ timer' \in [running : BOOLEAN, armed : BOOLEAN] /\ ~timer'.armed
    BY <1>0, <1>6 DEF Fires, Goes
  <2>3. QED
    BY <2>1, <2>2, SumsKeep DEF SpoolmanOK, SpoolTypes, SendingOK, AimOK, GoneOK
<1>7. CASE SpoolmanReports
  BY <1>7, ReportBeginsKeeps, UsedKeeps, NotFoundKeeps, UseFailsKeeps DEF SpoolmanReports
<1>8. CASE CheckAnswered
  BY <1>8, CheckAnsweredKeeps
<1>9. CASE CheckAsks \/ Connected \/ Disconnected \/ Close
  <2>1. /\ UNCHANGED <<spoolId, lastPos, highestPos, pos, top, used, pending, taken, spools, charged,
                       doubled, misjudged>>
        /\ news' \subseteq news
    BY <1>9 DEF CheckAsks, Connected, Disconnected, Close, countVars, serverVars
  <2>2. DOMAIN pc' = Task /\ pc'["timer"] = pc["timer"]
    BY <1>0, <1>9 DEF CheckAsks, Connected, Disconnected, Close, Goes
  <2>3. timer' \in {timer, Started, Stopped}
    BY <1>9 DEF CheckAsks, Connected, Disconnected, Close
  <2>4. /\ timer' \in [running : BOOLEAN, armed : BOOLEAN]
        /\ (timer'.armed => timer.armed \/ pc["timer"] = "idle")
    <3>1. CASE timer' = timer
      BY <1>0, <3>1
    <3>2. CASE timer' = Started
      <4>1. CASE timer.running
        BY <1>0, <3>2, <4>1 DEF Started
      <4>2. CASE ~timer.running
        <5>1. timer' = [running |-> TRUE, armed |-> pc["timer"] = "idle"]
          BY <3>2, <4>2 DEF Started, Idle
        <5>2. QED
          BY <5>1
      <4>3. QED
        BY <4>1, <4>2
    <3>3. CASE timer' = Stopped
      BY <3>3 DEF Stopped
    <3>4. QED
      BY <2>3, <3>1, <3>2, <3>3
  <2>5. QED
    BY <2>1, <2>2, <2>4, SumsKeep DEF SpoolmanOK, SpoolTypes, SendingOK, AimOK, GoneOK
<1>10. QED
  BY <1>1, <1>2, <1>3, <1>4, <1>5, <1>6, <1>7, <1>8, <1>9 DEF SpoolmanNext, SpoolmanChecks

(***************************************************************************)
(* Updates: one command is under way, that of the holder of the lock, and  *)
(* between its steps the state of its application is not that on the disk. *)
(***************************************************************************)
Commands == {"update", "full", "refresh", "rollback", "recover", "replace"}
AppState == [cur : MaybeVersion, up : MaybeVersion, valid : BOOLEAN, rb : MaybeVersion]

RepoTypes ==
  /\ disk \in [App -> MaybeVersion] /\ prior \in [App -> MaybeVersion]
  /\ remote \in [App -> Version] /\ settled \subseteq App
  /\ known \in [App -> AppState] /\ saved \in [App -> AppState]

CmdTypes ==
  /\ DOMAIN pc = Task
  /\ cmd \in [Task -> [what : Commands \cup {"none"}, todo : Seq(App), changed : BOOLEAN]]
  /\ \A t \in Task : pc[t] # "idle" => cmd[t].what \in Commands /\ cmd[t].todo # <<>>
  /\ cmdQueue \in Seq(Task)

(* Only the holder of the lock is beyond waiting for it. *)
LockOK ==
  \A t \in Task : pc[t] \notin {"idle", "waiting"} => cmdQueue # <<>> /\ Head(cmdQueue) = t

Changes == {"update", "full", "rollback", "recover"}

(* What a command that has got this far relies on. *)
StageOK(t) ==
  LET k == known[Target(t)]
      what == cmd[t].what
  IN /\ pc[t] = "pull" =>
          /\ what \in Changes
          /\ what \in {"update", "full"} => k.valid
          /\ what = "rollback" => k.rb # None /\ (Target(t) \notin IsGit => k.valid)
     /\ pc[t] = "deps" =>
          /\ what \in Changes /\ disk[Target(t)] # None
          /\ Target(t) \in IsGit /\ what # "recover" => k.rb # None
          /\ Target(t) \notin IsGit => k.valid
          /\ Target(t) \notin IsGit /\ Target(t) \in settled /\ what \in {"update", "full"} =>
               k.cur = prior[Target(t)]
     /\ pc[t] = "state" =>
          /\ what \in Changes /\ disk[Target(t)] # None
          /\ what # "recover" => k.rb # None
     /\ pc[t] = "refresh" /\ what = "replace" => k.rb = None /\ ~k.valid

(* The version that is known is not the one on the disk yet. *)
Changing(a) ==
  \E t \in Task : /\ cmd[t].todo # <<>> /\ Target(t) = a
                  /\ pc[t] = "state" \/ (pc[t] = "deps" /\ cmd[t].what # "recover")
(* The rollback version is still the one from before the command. *)
Outdated(a) ==
  \E t \in Task : /\ cmd[t].todo # <<>> /\ Target(t) = a
                  /\ \/ pc[t] = "refresh" /\ cmd[t].what = "replace"
                     \/ pc[t] = "deps" /\ a \notin IsGit /\ cmd[t].what \in {"update", "full"}

AppOK(a) ==
  /\ known[a].valid => known[a].cur # None /\ known[a].up # None
  /\ saved[a] = [known[a] EXCEPT !.rb = saved[a].rb]
  /\ a \in settled /\ known[a].valid /\ ~Changing(a) => known[a].cur = disk[a]
  /\ a \in settled /\ ~Outdated(a) => known[a].rb = prior[a]

UpdatesOK ==
  /\ RepoTypes /\ CmdTypes /\ LockOK
  /\ \A t \in Task : StageOK(t)
  /\ \A a \in App : AppOK(a)

LEMMA PutType ==
  ASSUME NEW S, NEW T, NEW f \in [S -> T], NEW a \in S, NEW v \in T
  PROVE  /\ [f EXCEPT ![a] = v] \in [S -> T] /\ [f EXCEPT ![a] = v][a] = v
         /\ \A b \in S : b # a => [f EXCEPT ![a] = v][b] = f[b]
  OBVIOUS

LEMMA OrderType == Order \in Seq(App) /\ Order # <<>> /\ "klipper" \in App
<1>1. Order \in Seq(App) /\ "klipper" \in App
  BY UpdatesConstants
<1>2. PICK i \in DOMAIN Order : Order[i] = "klipper"
  BY <1>1 DEF App
<1>3. Order # <<>>
  BY <1>2
<1>4. QED
  BY <1>1, <1>3

LEMMA OneType ==
  ASSUME NEW a \in App
  PROVE  <<a>> \in Seq(App) /\ <<a>> # <<>>
  OBVIOUS

(* The command of a task that is not idle, and its next application *)
LEMMA TargetType ==
  ASSUME UpdatesOK, NEW t \in Task, pc[t] # "idle"
  PROVE  /\ cmd[t].what \in Commands /\ cmd[t].todo \in Seq(App) /\ cmd[t].todo # <<>>
         /\ Target(t) \in App /\ known[Target(t)] \in AppState /\ saved[Target(t)] \in AppState
         /\ disk[Target(t)] \in MaybeVersion /\ prior[Target(t)] \in MaybeVersion
         /\ remote[Target(t)] \in Version
<1>1. cmd[t].what \in Commands /\ cmd[t].todo \in Seq(App) /\ cmd[t].todo # <<>>
  BY DEF UpdatesOK, CmdTypes
<1>2. Target(t) \in App
  BY <1>1 DEF Target
<1>3. QED
  BY <1>1, <1>2 DEF UpdatesOK, RepoTypes

LEMMA Alone ==
  ASSUME UpdatesOK, NEW t \in Task, cmdQueue # <<>>, Head(cmdQueue) = t
  PROVE  \A u \in Task : u # t => pc[u] \in {"idle", "waiting"}
  BY DEF UpdatesOK, LockOK

(* A step of the holder about one application leaves the others as they were. *)
LEMMA OthersKeep ==
  ASSUME UpdatesOK, NEW t \in Task, cmdQueue # <<>>, Head(cmdQueue) = t,
         NEW b \in App, b # Target(t),
         known'[b] = known[b], saved'[b] = saved[b], disk'[b] = disk[b], prior'[b] = prior[b],
         b \in settled' => b \in settled
  PROVE  AppOK(b)'
<1>1. ~Changing(b) /\ ~Outdated(b)
  BY Alone DEF Changing, Outdated
<1>2. AppOK(b)
  BY DEF UpdatesOK
<1>3. QED
  BY <1>1, <1>2 DEF AppOK

(* Nothing is relied on where no command is at work on an application. *)
LEMMA CalmKeeps ==
  ASSUME \A u \in Task : pc'[u] \notin {"pull", "deps", "state", "refresh"}
  PROVE  /\ \A u \in Task : StageOK(u)'
         /\ \A b \in App : ~Changing(b)' /\ ~Outdated(b)'
  BY DEF StageOK, Changing, Outdated

LEMMA OneWorks ==
  ASSUME NEW t \in Task, \A u \in Task : u # t => pc'[u] \in {"idle", "waiting"}, StageOK(t)'
  PROVE  \A u \in Task : StageOK(u)'
  BY DEF StageOK

(* The holder goes on with the same application. *)
LEMMA GoesOnKeeps ==
  ASSUME UpdatesOK, NEW t \in Task, cmdQueue # <<>>, Head(cmdQueue) = t, pc[t] # "idle",
         NEW place, place # "idle", Goes(t, place), UNCHANGED <<cmdQueue, cmd>>
  PROVE  /\ CmdTypes' /\ LockOK' /\ pc'[t] = place /\ Target(t)' = Target(t)
         /\ \A u \in Task : u # t => pc'[u] \in {"idle", "waiting"}
<1>1. /\ DOMAIN pc' = Task /\ pc'[t] = place
      /\ \A u \in Task : u # t => pc'[u] = pc[u]
  BY DEF Goes, UpdatesOK, CmdTypes
<1>2. CmdTypes' /\ LockOK' /\ Target(t)' = Target(t)
  BY <1>1 DEF UpdatesOK, CmdTypes, LockOK, Target
<1>3. QED
  BY <1>1, <1>2, Alone

(* The holder goes on with the next application. *)
LEMMA GoesNextKeeps ==
  ASSUME UpdatesOK, NEW t \in Task, cmdQueue # <<>>, Head(cmdQueue) = t, pc[t] # "idle",
         Goes(t, "next"), cmd' = [cmd EXCEPT ![t].todo = Tail(@)], UNCHANGED cmdQueue,
         Len(cmd[t].todo) # 1
  PROVE  /\ CmdTypes' /\ LockOK' /\ pc'[t] = "next"
         /\ \A u \in Task : u # t => pc'[u] \in {"idle", "waiting"}
<1>1. /\ DOMAIN pc' = Task /\ pc'[t] = "next"
      /\ \A u \in Task : u # t => pc'[u] = pc[u]
  BY DEF Goes, UpdatesOK, CmdTypes
<1>2. PICK todo : todo = cmd[t].todo
  OBVIOUS
<1>3. cmd[t].what \in Commands /\ todo \in Seq(App) /\ todo # <<>> /\ Len(todo) # 1
  BY <1>2, TargetType
<1>4. Tail(todo) \in Seq(App) /\ Tail(todo) # <<>>
  <2>1. Tail(todo) \in Seq(App) /\ Len(Tail(todo)) = Len(todo) - 1
    BY <1>3
  <2>2. Len(todo) \in Nat /\ Len(todo) # 0
    BY <1>3
  <2>3. Len(Tail(todo)) # 0
    BY <1>3, <2>1, <2>2
  <2>4. Len(<<>>) = 0
    OBVIOUS
  <2>5. Tail(todo) # <<>>
    BY <2>3, <2>4
  <2>6. QED
    BY <2>1, <2>5
<1>5. cmd \in [Task -> [what : Commands \cup {"none"}, todo : Seq(App), changed : BOOLEAN]]
  BY DEF UpdatesOK, CmdTypes
<1>6. PICK c : c = [cmd[t] EXCEPT !.todo = Tail(todo)]
  OBVIOUS
<1>7. /\ c \in [what : Commands \cup {"none"}, todo : Seq(App), changed : BOOLEAN]
      /\ c.what = cmd[t].what /\ c.todo = Tail(todo)
  BY <1>4, <1>5, <1>6
<1>8. cmd' = [cmd EXCEPT ![t] = c]
  BY <1>2, <1>6
<1>9. /\ cmd' \in [Task -> [what : Commands \cup {"none"}, todo : Seq(App), changed : BOOLEAN]]
      /\ cmd'[t] = c /\ \A u \in Task : u # t => cmd'[u] = cmd[u]
  BY <1>5, <1>7, <1>8
<1>10. \A u \in Task : pc'[u] # "idle" => cmd'[u].what \in Commands /\ cmd'[u].todo # <<>>
  BY <1>1, <1>3, <1>4, <1>7, <1>9 DEF UpdatesOK, CmdTypes
<1>11. CmdTypes'
  BY <1>1, <1>9, <1>10 DEF UpdatesOK, CmdTypes
<1>12. LockOK'
  BY <1>1 DEF UpdatesOK, LockOK
<1>13. QED
  BY <1>1, <1>11, <1>12, Alone

(* The holder is done, and the lock goes to the next in line. *)
LEMMA FinishesKeeps ==
  ASSUME UpdatesOK, NEW t \in Task, cmdQueue # <<>>, Head(cmdQueue) = t, Finishes(t)
  PROVE  /\ CmdTypes' /\ LockOK' /\ pc'[t] = "idle"
         /\ \A u \in Task : u # t => pc'[u] \in {"idle", "waiting"}
<1>1. /\ DOMAIN pc' = Task /\ pc'[t] = "idle"
      /\ \A u \in Task : u # t => pc'[u] = pc[u]
  BY DEF Finishes, Goes, UpdatesOK, CmdTypes
<1>2. NoCmd \in [what : Commands \cup {"none"}, todo : Seq(App), changed : BOOLEAN]
  <2>1. <<>> \in Seq(App)
    OBVIOUS
  <2>2. QED
    BY <2>1 DEF NoCmd
<1>3. /\ cmd' \in [Task -> [what : Commands \cup {"none"}, todo : Seq(App), changed : BOOLEAN]]
      /\ \A u \in Task : u # t => cmd'[u] = cmd[u]
  BY <1>2 DEF Finishes, UpdatesOK, CmdTypes
<1>4. cmdQueue' \in Seq(Task)
  BY DEF Finishes, UpdatesOK, CmdTypes
<1>5. CmdTypes'
  BY <1>1, <1>3, <1>4 DEF UpdatesOK, CmdTypes
<1>6. \A u \in Task : u # t => pc'[u] \in {"idle", "waiting"}
  BY <1>1, Alone
<1>7. QED
  BY <1>1, <1>5, <1>6 DEF LockOK

(* In any case no command is at work on an application after this. *)
LEMMA NextAppKeeps ==
  ASSUME UpdatesOK, NEW t \in Task, cmdQueue # <<>>, Head(cmdQueue) = t, pc[t] # "idle",
         NEW changed \in BOOLEAN, NextApp(t, changed)
  PROVE  /\ CmdTypes' /\ LockOK'
         /\ \A u \in Task : pc'[u] \notin {"pull", "deps", "state", "refresh"}
<1>1. CASE Goes(t, "identify") /\ UNCHANGED <<cmdQueue, cmd>>
  <2>1. /\ CmdTypes' /\ LockOK' /\ pc'[t] = "identify"
        /\ \A u \in Task : u # t => pc'[u] \in {"idle", "waiting"}
    BY <1>1, GoesOnKeeps
  <2>2. QED
    BY <2>1
<1>2. CASE Finishes(t)
  BY <1>2, FinishesKeeps
<1>3. CASE /\ Goes(t, "next") /\ cmd' = [cmd EXCEPT ![t].todo = Tail(@)] /\ UNCHANGED cmdQueue
           /\ Len(cmd[t].todo) # 1
  BY <1>3, GoesNextKeeps
<1>4. QED
  BY <1>1, <1>2, <1>3 DEF NextApp

(* A command ends or goes on, and has left what is known of applications alone. *)
LEMMA CalmStepKeeps ==
  ASSUME UpdatesOK, CmdTypes', LockOK', RepoTypes',
         \A u \in Task : pc'[u] \notin {"pull", "deps", "state", "refresh"},
         \A b \in App : AppOK(b)'
  PROVE  UpdatesOK'
<1>1. \A u \in Task : StageOK(u)'
  BY CalmKeeps
<1>2. QED
  BY <1>1 DEF UpdatesOK

LEMMA AppendHead ==
  ASSUME NEW S, NEW q \in Seq(S), NEW x \in S
  PROVE  /\ Append(q, x) \in Seq(S) /\ Append(q, x) # <<>>
         /\ q # <<>> => Head(Append(q, x)) = Head(q)
<1>1. PICK r : r = Append(q, x)
  OBVIOUS
<1>2. r \in Seq(S) /\ Len(r) = Len(q) + 1 /\ Len(q) \in Nat
      /\ \A i \in 1..Len(q) : r[i] = q[i]
  BY <1>1
<1>3. r # <<>>
  <2>1. Len(<<>>) = 0
    OBVIOUS
  <2>2. QED
    BY <1>2, <2>1
<1>4. q # <<>> => Head(r) = Head(q)
  <2>1. q # <<>> => Len(q) # 0
    OBVIOUS
  <2>2. Head(r) = r[1] /\ Head(q) = q[1]
    BY <1>2
  <2>3. QED
    BY <1>2, <2>1, <2>2
<1>5. QED
  BY <1>1, <1>2, <1>3, <1>4

LEMMA QueuedKeeps ==
  ASSUME UpdatesOK, NEW t \in Task, NEW what \in Commands, NEW todo \in Seq(App), todo # <<>>,
         Queues(t, what, todo)
  PROVE  UpdatesOK'
<1>1. /\ DOMAIN pc' = Task /\ pc[t] = "idle" /\ pc'[t] = "waiting"
      /\ \A u \in Task : u # t => pc'[u] = pc[u]
  BY DEF Queues, Goes, Idle, UpdatesOK, CmdTypes
<1>2. PICK c : c = [what |-> what, todo |-> todo, changed |-> FALSE]
  OBVIOUS
<1>3. /\ c \in [what : Commands \cup {"none"}, todo : Seq(App), changed : BOOLEAN]
      /\ c.what = what /\ c.todo = todo
  BY <1>2
<1>4. /\ cmd' \in [Task -> [what : Commands \cup {"none"}, todo : Seq(App), changed : BOOLEAN]]
      /\ cmd'[t] = c /\ \A u \in Task : u # t => cmd'[u] = cmd[u]
  BY <1>2, <1>3 DEF Queues, UpdatesOK, CmdTypes
<1>5. /\ cmdQueue' \in Seq(Task)
      /\ cmdQueue # <<>> => cmdQueue' # <<>> /\ Head(cmdQueue') = Head(cmdQueue)
  <2>1. cmdQueue' = Append(cmdQueue, t) /\ cmdQueue \in Seq(Task)
    BY DEF Queues, UpdatesOK, CmdTypes
  <2>2. QED
    BY <2>1, AppendHead
<1>6. CmdTypes'
  BY <1>1, <1>3, <1>4, <1>5 DEF UpdatesOK, CmdTypes
<1>7. LockOK'
  BY <1>1, <1>5 DEF UpdatesOK, LockOK
<1>8. UNCHANGED <<disk, remote, known, saved, prior, settled>>
  BY DEF Queues, repoVars, historyVars
<1>9. ASSUME NEW u \in Task PROVE StageOK(u)'
  <2>1. CASE u = t
    BY <1>1, <2>1 DEF StageOK
  <2>2. CASE u # t
    <3>1. StageOK(u) /\ pc'[u] = pc[u] /\ cmd'[u] = cmd[u] /\ Target(u)' = Target(u)
      BY <1>1, <1>4, <2>2 DEF UpdatesOK, Target
    <3>2. QED
      BY <1>8, <3>1 DEF StageOK
  <2>3. QED
    BY <2>1, <2>2
<1>10. ASSUME NEW b \in App PROVE AppOK(b)'
  <2>1. ASSUME Changing(b) PROVE Changing(b)'
    <3>1. PICK u \in Task : /\ cmd[u].todo # <<>> /\ Target(u) = b
                            /\ pc[u] = "state" \/ (pc[u] = "deps" /\ cmd[u].what # "recover")
      BY <2>1 DEF Changing
    <3>2. pc'[u] = pc[u] /\ cmd'[u] = cmd[u] /\ Target(u)' = Target(u)
      BY <1>1, <1>4, <3>1 DEF Target
    <3>3. QED
      BY <3>1, <3>2 DEF Changing
  <2>2. ASSUME Outdated(b) PROVE Outdated(b)'
    <3>1. PICK u \in Task :
            /\ cmd[u].todo # <<>> /\ Target(u) = b
            /\ \/ pc[u] = "refresh" /\ cmd[u].what = "replace"
               \/ pc[u] = "deps" /\ b \notin IsGit /\ cmd[u].what \in {"update", "full"}
      BY <2>2 DEF Outdated
    <3>2. pc'[u] = pc[u] /\ cmd'[u] = cmd[u] /\ Target(u)' = Target(u)
      BY <1>1, <1>4, <3>1 DEF Target
    <3>3. QED
      BY <3>1, <3>2 DEF Outdated
  <2>3. AppOK(b)
    BY DEF UpdatesOK
  <2>4. QED
    BY <1>8, <2>1, <2>2, <2>3 DEF AppOK
<1>11. RepoTypes'
  BY <1>8 DEF UpdatesOK, RepoTypes
<1>12. QED
  BY <1>6, <1>7, <1>9, <1>10, <1>11 DEF UpdatesOK

(* Between the steps on applications, what is known of each of them is right. *)
LEMMA SameAppsKeep ==
  ASSUME UpdatesOK, NEW t \in Task, cmdQueue # <<>>, Head(cmdQueue) = t,
         pc[t] \notin {"pull", "deps", "state", "refresh"},
         UNCHANGED <<disk, known, saved, prior, settled>>
  PROVE  \A b \in App : AppOK(b)'
<1>1. \A b \in App : ~Changing(b) /\ ~Outdated(b)
  BY Alone DEF Changing, Outdated
<1>2. \A b \in App : AppOK(b)
  BY DEF UpdatesOK
<1>3. QED
  BY <1>1, <1>2 DEF AppOK

LEMMA RestartedOrWaitedKeeps ==
  ASSUME UpdatesOK, NEW t \in Task, Restarted(t) \/ Waited(t)
  PROVE  UpdatesOK'
<1>1. /\ cmdQueue # <<>> /\ Head(cmdQueue) = t /\ pc[t] \in {"restart", "identify"}
      /\ UNCHANGED <<disk, remote, known, saved, prior, settled>>
  BY DEF Restarted, Waited, Holder, repoVars, historyVars
<1>2. /\ CmdTypes' /\ LockOK'
      /\ \A u \in Task : pc'[u] \notin {"pull", "deps", "state", "refresh"}
  <2>1. CASE NextApp(t, TRUE)
    BY <1>1, <2>1, NextAppKeeps
  <2>2. CASE Finishes(t)
    BY <1>1, <2>2, FinishesKeeps
  <2>3. CASE /\ Goes(t, "next") /\ cmd' = [cmd EXCEPT ![t].todo = Tail(@)] /\ UNCHANGED cmdQueue
             /\ Len(cmd[t].todo) # 1
    BY <1>1, <2>3, GoesNextKeeps
  <2>4. QED
    BY <2>1, <2>2, <2>3 DEF Restarted, Waited
<1>3. \A b \in App : AppOK(b)'
  BY <1>1, SameAppsKeep
<1>4. RepoTypes'
  BY <1>1 DEF UpdatesOK, RepoTypes
<1>5. QED
  BY <1>2, <1>3, <1>4, CalmStepKeeps

LEMMA StartsKeeps ==
  ASSUME UpdatesOK, NEW t \in Task, Starts(t)
  PROVE  UpdatesOK'
<1>1. PICK a, k, what : a = Target(t) /\ k = known[a] /\ what = cmd[t].what
  OBVIOUS
<1>2. /\ cmdQueue # <<>> /\ Head(cmdQueue) = t /\ pc[t] \in {"waiting", "next"}
      /\ UNCHANGED <<disk, remote, prior, settled>>
      /\ IF what = "replace"
         THEN known' = [known EXCEPT ![a] = Nothing] /\ saved' = [saved EXCEPT ![a] = Nothing]
         ELSE UNCHANGED <<known, saved>>
  BY <1>1 DEF Starts, Holder, historyVars
<1>3. what \in Commands /\ a \in App /\ k \in AppState
  BY <1>1, <1>2, TargetType
<1>4. CASE what = "replace"
  <2>1. Nothing \in AppState /\ Nothing.rb = None /\ Nothing.valid = FALSE
        /\ Nothing = [Nothing EXCEPT !.rb = Nothing.rb]
    BY DEF Nothing, AppState, MaybeVersion
  <2>2. /\ known' \in [App -> AppState] /\ known'[a] = Nothing
        /\ saved' \in [App -> AppState] /\ saved'[a] = Nothing
        /\ \A b \in App : b # a => known'[b] = known[b] /\ saved'[b] = saved[b]
    BY <1>2, <1>3, <1>4, <2>1 DEF UpdatesOK, RepoTypes
  <2>3. /\ CmdTypes' /\ LockOK' /\ pc'[t] = "refresh" /\ Target(t)' = a /\ cmd' = cmd
        /\ \A u \in Task : u # t => pc'[u] \in {"idle", "waiting"}
    <3>1. Goes(t, "refresh") /\ UNCHANGED <<cmdQueue, cmd>>
      BY <1>1, <1>4 DEF Starts, StartsWork
    <3>2. QED
      BY <1>1, <1>2, <3>1, GoesOnKeeps
  <2>4. StageOK(t)'
    BY <2>1, <2>2, <2>3 DEF StageOK
  <2>5. cmd'[t].todo # <<>> /\ cmd'[t].what = "replace"
    BY <1>1, <1>2, <1>4, <2>3, TargetType
  <2>6. Outdated(a)'
    BY <2>3, <2>5 DEF Outdated
  <2>7. AppOK(a)'
    BY <2>1, <2>2, <2>6 DEF AppOK
  <2>8. ASSUME NEW b \in App, b # a PROVE AppOK(b)'
    BY <1>1, <1>2, <2>2, <2>8, OthersKeep
  <2>9. RepoTypes'
    BY <1>2, <2>2 DEF UpdatesOK, RepoTypes
  <2>10. \A u \in Task : StageOK(u)'
    BY <2>3, <2>4, OneWorks
  <2>11. QED
    BY <2>3, <2>7, <2>8, <2>9, <2>10 DEF UpdatesOK
<1>5. CASE what # "replace"
  <2>1. \A b \in App : AppOK(b)'
    BY <1>2, <1>5, SameAppsKeep
  <2>2. RepoTypes'
    BY <1>2, <1>5 DEF UpdatesOK, RepoTypes
  <2>3. CASE Finishes(t) \/ NextApp(t, FALSE)
    <3>1. /\ CmdTypes' /\ LockOK'
          /\ \A u \in Task : pc'[u] \notin {"pull", "deps", "state", "refresh"}
      BY <1>2, <2>3, FinishesKeeps, NextAppKeeps
    <3>2. QED
      BY <2>1, <2>2, <3>1, CalmStepKeeps
  <2>4. ASSUME NEW place \in {"pull", "refresh"}, StartsWork(t, place),
               place = "refresh" => what = "refresh",
               place = "pull" =>
                 /\ what \in Changes
                 /\ what \in {"update", "full"} => k.valid
                 /\ what = "rollback" => k.rb # None /\ (a \notin IsGit => k.valid)
        PROVE  UpdatesOK'
    <3>1. Goes(t, place) /\ UNCHANGED <<cmdQueue, cmd>>
      BY <2>4 DEF StartsWork
    <3>2. /\ CmdTypes' /\ LockOK' /\ pc'[t] = place /\ Target(t)' = a /\ cmd' = cmd
          /\ \A u \in Task : u # t => pc'[u] \in {"idle", "waiting"}
      BY <1>1, <1>2, <3>1, GoesOnKeeps
    <3>3. StageOK(t)'
      BY <1>1, <1>2, <1>5, <2>4, <3>2 DEF StageOK
    <3>4. \A u \in Task : StageOK(u)'
      BY <3>2, <3>3, OneWorks
    <3>5. QED
      BY <2>1, <2>2, <3>2, <3>4 DEF UpdatesOK
  <2>5. CASE what = "refresh"
    <3>1. StartsWork(t, "refresh")
      BY <1>1, <2>5 DEF Starts
    <3>2. QED
      BY <2>4, <2>5, <3>1
  <2>6. CASE what = "recover"
    <3>1. StartsWork(t, "pull")
      BY <1>1, <2>6 DEF Starts
    <3>2. QED
      BY <2>4, <2>6, <3>1 DEF Changes
  <2>7. CASE what = "rollback"
    <3>1. \/ Finishes(t)
          \/ StartsWork(t, "pull") /\ k.rb # None /\ (a \notin IsGit => k.valid)
      BY <1>1, <2>7 DEF Starts
    <3>2. QED
      BY <2>3, <2>4, <2>7, <3>1 DEF Changes
  <2>8. CASE what \in {"update", "full"}
    <3>1. \/ Finishes(t) \/ NextApp(t, FALSE)
          \/ StartsWork(t, "pull") /\ k.valid
      BY <1>1, <2>8 DEF Starts
    <3>2. QED
      BY <2>3, <2>4, <2>8, <3>1 DEF Changes
  <2>9. QED
    BY <1>3, <1>5, <2>5, <2>6, <2>7, <2>8 DEF Commands
<1>6. QED
  BY <1>4, <1>5

(* What a pull installs is a version. *)
LEMMA WantedType ==
  ASSUME UpdatesOK, NEW t \in Task, pc[t] = "pull"
  PROVE  Wanted(t) \in Version
<1>1. PICK a, k, what : a = Target(t) /\ k = known[a] /\ what = cmd[t].what
  OBVIOUS
<1>2. a \in App /\ k \in AppState /\ remote[a] \in Version /\ k = known[a]
  BY <1>1, TargetType
<1>3. /\ what \in Changes /\ (what \in {"update", "full"} => k.valid)
      /\ (what = "rollback" => k.rb # None)
  BY <1>1 DEF UpdatesOK, StageOK
<1>4. k.valid => k.cur # None /\ k.up # None
  BY <1>2 DEF UpdatesOK, AppOK
<1>5. k.rb \in Version \cup {None} /\ k.cur \in Version \cup {None} /\ k.up \in Version \cup {None}
  BY <1>2 DEF AppState, MaybeVersion
<1>6. Wanted(t) = CASE what = "rollback" -> k.rb
                    [] what = "recover" -> IF k.cur # None THEN k.cur ELSE remote[a]
                    [] OTHER -> IF a \in IsGit THEN remote[a] ELSE k.up
  BY <1>1 DEF Wanted
<1>7. CASE what = "rollback"
  BY <1>3, <1>5, <1>6, <1>7
<1>8. CASE what = "recover"
  BY <1>2, <1>5, <1>6, <1>8
<1>9. CASE what \in {"update", "full"}
  BY <1>2, <1>3, <1>4, <1>5, <1>6, <1>9
<1>10. QED
  BY <1>3, <1>7, <1>8, <1>9 DEF Changes

LEMMA PulledKeeps ==
  ASSUME UpdatesOK, NEW t \in Task, Pulled(t)
  PROVE  UpdatesOK'
<1>1. PICK a, k, what, v, r : /\ a = Target(t) /\ k = known[a] /\ what = cmd[t].what
                              /\ v = Wanted(t) /\ r = RollbackState(t)
  OBVIOUS
<1>2. /\ cmdQueue # <<>> /\ Head(cmdQueue) = t /\ pc[t] = "pull"
      /\ disk' = [disk EXCEPT ![a] = v]
      /\ known' = (IF a \in IsGit THEN [known EXCEPT ![a].rb = r] ELSE known)
      /\ prior' = (IF what \in {"update", "full"} THEN [prior EXCEPT ![a] = disk[a]] ELSE prior)
      /\ UNCHANGED <<remote, saved, cmdQueue, cmd, settled>>
      /\ Goes(t, IF what = "recover" THEN "state" ELSE "deps")
  BY <1>1 DEF Pulled, Holder
<1>3. /\ a \in App /\ k \in AppState /\ disk[a] \in MaybeVersion /\ k = known[a]
      /\ cmd[t].todo # <<>> /\ v \in Version /\ None \notin Version
  BY <1>1, <1>2, TargetType, WantedType, UpdatesConstants
<1>4. /\ what \in Changes /\ (what \in {"update", "full"} => k.valid)
      /\ (what = "rollback" => k.rb # None /\ (a \notin IsGit => k.valid))
  BY <1>1, <1>2 DEF UpdatesOK, StageOK
<1>5. r = IF what \in {"update", "full"} THEN k.cur ELSE k.rb
  BY <1>1 DEF RollbackState
<1>6. PICK k1 : k1 = IF a \in IsGit THEN [k EXCEPT !.rb = r] ELSE k
  OBVIOUS
<1>7. /\ k1 \in AppState /\ k1.valid = k.valid /\ k1.cur = k.cur /\ k1.up = k.up
      /\ k1.rb = (IF a \in IsGit THEN r ELSE k.rb)
      /\ k1 = [k EXCEPT !.rb = k1.rb]
  BY <1>3, <1>5, <1>6 DEF AppState
<1>8. /\ known' \in [App -> AppState] /\ known'[a] = k1
      /\ \A b \in App : b # a => known'[b] = known[b]
  <2>1. known \in [App -> AppState]
    BY DEF UpdatesOK, RepoTypes
  <2>2. CASE a \in IsGit
    <3>1. known' = [known EXCEPT ![a] = k1]
      BY <1>2, <1>3, <1>6, <2>2
    <3>2. QED
      BY <1>3, <1>7, <2>1, <3>1
  <2>3. CASE a \notin IsGit
    BY <1>2, <1>3, <1>6, <2>1, <2>3
  <2>4. QED
    BY <2>2, <2>3
<1>9. /\ disk' \in [App -> MaybeVersion] /\ disk'[a] = v
      /\ \A b \in App : b # a => disk'[b] = disk[b]
  BY <1>2, <1>3 DEF UpdatesOK, RepoTypes, MaybeVersion
<1>10. /\ prior' \in [App -> MaybeVersion]
       /\ prior'[a] = (IF what \in {"update", "full"} THEN disk[a] ELSE prior[a])
       /\ \A b \in App : b # a => prior'[b] = prior[b]
  BY <1>2, <1>3 DEF UpdatesOK, RepoTypes
<1>11. PICK place : place = IF what = "recover" THEN "state" ELSE "deps"
  OBVIOUS
<1>12. /\ CmdTypes' /\ LockOK' /\ pc'[t] = place /\ Target(t)' = a /\ cmd' = cmd
       /\ \A u \in Task : u # t => pc'[u] \in {"idle", "waiting"}
  <2>1. place # "idle" /\ pc[t] # "idle" /\ Goes(t, place)
    BY <1>2, <1>11
  <2>2. QED
    BY <1>1, <1>2, <2>1, GoesOnKeeps
<1>13. ~Changing(a) /\ ~Outdated(a)
  BY <1>2, Alone DEF Changing, Outdated
<1>14. /\ k.valid => k.cur # None /\ k.up # None
       /\ saved[a] = [k EXCEPT !.rb = saved[a].rb]
       /\ a \in settled /\ k.valid => k.cur = disk[a]
       /\ a \in settled => k.rb = prior[a]
  BY <1>3, <1>13 DEF UpdatesOK, AppOK
<1>15. StageOK(t)'
  <2>1. CASE what = "recover"
    BY <1>1, <1>3, <1>4, <1>9, <1>11, <1>12, <2>1 DEF StageOK
  <2>2. CASE what # "recover"
    <3>1. pc'[t] = "deps" /\ what \in Changes /\ disk'[a] # None
      BY <1>3, <1>4, <1>9, <1>11, <1>12, <2>2
    <3>2. a \in IsGit => known'[a].rb # None
      BY <1>4, <1>5, <1>7, <1>8, <1>14, <2>2 DEF Changes
    <3>3. a \notin IsGit => known'[a].valid
      BY <1>4, <1>7, <1>8, <2>2 DEF Changes
    <3>4. a \in settled' /\ what \in {"update", "full"} => known'[a].cur = prior'[a]
      BY <1>2, <1>4, <1>7, <1>8, <1>10, <1>14
    <3>5. QED
      BY <1>1, <1>12, <3>1, <3>2, <3>3, <3>4 DEF StageOK
  <2>3. QED
    BY <2>1, <2>2
<1>16. AppOK(a)'
  <2>1. Changing(a)'
    BY <1>1, <1>3, <1>11, <1>12 DEF Changing
  <2>2. known'[a].valid => known'[a].cur # None /\ known'[a].up # None
    BY <1>7, <1>8, <1>14
  <2>3. saved'[a] = [known'[a] EXCEPT !.rb = saved'[a].rb]
    <3>1. [k1 EXCEPT !.rb = saved[a].rb] = [k EXCEPT !.rb = saved[a].rb]
      BY <1>3, <1>7 DEF AppState
    <3>2. QED
      BY <1>2, <1>8, <1>14, <3>1
  <2>4. ASSUME a \in settled', ~Outdated(a)' PROVE known'[a].rb = prior'[a]
    <3>1. CASE a \in IsGit
      BY <1>2, <1>4, <1>5, <1>7, <1>8, <1>10, <1>14, <2>4, <3>1
    <3>2. CASE a \notin IsGit
      <4>1. what \notin {"update", "full"}
        BY <1>1, <1>3, <1>11, <1>12, <2>4, <3>2 DEF Outdated
      <4>2. QED
        BY <1>2, <1>7, <1>8, <1>10, <1>14, <2>4, <3>2, <4>1
    <3>3. QED
      BY <3>1, <3>2
  <2>5. QED
    BY <2>1, <2>2, <2>3, <2>4 DEF AppOK
<1>17. ASSUME NEW b \in App, b # a PROVE AppOK(b)'
  BY <1>1, <1>2, <1>8, <1>9, <1>10, <1>17, OthersKeep
<1>18. RepoTypes'
  BY <1>2, <1>8, <1>9, <1>10 DEF UpdatesOK, RepoTypes
<1>19. \A u \in Task : StageOK(u)'
  BY <1>12, <1>15, OneWorks
<1>20. QED
  BY <1>12, <1>16, <1>17, <1>18, <1>19 DEF UpdatesOK

(* An application that a command failed on: what is known of it is what was saved, *)
(* and no more is claimed.                                                          *)
LEMMA FailedKeeps ==
  ASSUME UpdatesOK, NEW t \in Task, cmdQueue # <<>>, Head(cmdQueue) = t, pc[t] # "idle",
         NEW a, a = Target(t), Finishes(t), settled' = settled \ {a}, UNCHANGED <<remote, prior>>,
         disk' \in [App -> MaybeVersion], \A b \in App : b # a => disk'[b] = disk[b],
         \/ UNCHANGED <<known, saved>>
         \/ \E r \in AppState : /\ ~r.valid /\ known' = [known EXCEPT ![a] = r]
                                /\ saved' = [saved EXCEPT ![a] = r]
  PROVE  UpdatesOK'
<1>1. a \in App
  BY TargetType
<1>2. /\ known' \in [App -> AppState] /\ saved' \in [App -> AppState]
      /\ \A b \in App : b # a => known'[b] = known[b] /\ saved'[b] = saved[b]
      /\ known'[a].valid => known'[a].cur # None /\ known'[a].up # None
      /\ saved'[a] = [known'[a] EXCEPT !.rb = saved'[a].rb]
  <2>1. known \in [App -> AppState] /\ saved \in [App -> AppState] /\ AppOK(a)
    BY <1>1 DEF UpdatesOK, RepoTypes
  <2>2. CASE UNCHANGED <<known, saved>>
    BY <2>1, <2>2 DEF AppOK
  <2>3. CASE \E r \in AppState : /\ ~r.valid /\ known' = [known EXCEPT ![a] = r]
                                 /\ saved' = [saved EXCEPT ![a] = r]
    <3>1. PICK r \in AppState : /\ ~r.valid /\ known' = [known EXCEPT ![a] = r]
                               /\ saved' = [saved EXCEPT ![a] = r]
      BY <2>3
    <3>2. r = [r EXCEPT !.rb = r.rb]
      BY DEF AppState
    <3>3. /\ known' \in [App -> AppState] /\ known'[a] = r
          /\ \A b \in App : b # a => known'[b] = known[b]
      BY <1>1, <2>1, <3>1
    <3>4. /\ saved' \in [App -> AppState] /\ saved'[a] = r
          /\ \A b \in App : b # a => saved'[b] = saved[b]
      BY <1>1, <2>1, <3>1
    <3>5. QED
      BY <3>1, <3>2, <3>3, <3>4
  <2>4. QED
    BY <2>2, <2>3
<1>3. AppOK(a)'
  BY <1>2 DEF AppOK
<1>4. ASSUME NEW b \in App, b # a PROVE AppOK(b)'
  BY <1>2, <1>4, OthersKeep
<1>5. RepoTypes'
  BY <1>2 DEF UpdatesOK, RepoTypes
<1>6. CmdTypes' /\ LockOK' /\ \A u \in Task : pc'[u] \notin {"pull", "deps", "state", "refresh"}
  BY FinishesKeeps
<1>7. QED
  BY <1>3, <1>4, <1>5, <1>6, CalmStepKeeps

LEMMA PullFailsKeeps ==
  ASSUME UpdatesOK, NEW t \in Task, PullFails(t)
  PROVE  UpdatesOK'
<1>1. PICK a, v, r : /\ a = Target(t) /\ v = (IF a \in IsGit THEN Wanted(t) ELSE None)
                     /\ r = [known[a] EXCEPT !.valid = FALSE]
  OBVIOUS
<1>2. /\ cmdQueue # <<>> /\ Head(cmdQueue) = t /\ pc[t] = "pull" /\ Finishes(t)
      /\ settled' = settled \ {a} /\ UNCHANGED <<remote, prior>>
      /\ disk' \in {disk, [disk EXCEPT ![a] = v]}
  BY <1>1 DEF PullFails, Holder
<1>3. \/ UNCHANGED <<known, saved>>
      \/ (known' = [known EXCEPT ![a].valid = FALSE] /\ saved' = [saved EXCEPT ![a] = known'[a]])
  BY <1>1 DEF PullFails
<1>4. a \in App /\ known[a] \in AppState /\ v \in MaybeVersion
  BY <1>1, <1>2, TargetType, WantedType DEF MaybeVersion
<1>5. r \in AppState /\ ~r.valid
  BY <1>1, <1>4 DEF AppState
<1>6. disk' \in [App -> MaybeVersion] /\ \A b \in App : b # a => disk'[b] = disk[b]
  BY <1>2, <1>4 DEF UpdatesOK, RepoTypes
<1>7. \/ UNCHANGED <<known, saved>>
      \/ \E s \in AppState : /\ ~s.valid /\ known' = [known EXCEPT ![a] = s]
                             /\ saved' = [saved EXCEPT ![a] = s]
  <2>1. known \in [App -> AppState]
    BY DEF UpdatesOK, RepoTypes
  <2>2. CASE known' = [known EXCEPT ![a].valid = FALSE] /\ saved' = [saved EXCEPT ![a] = known'[a]]
    <3>1. known' = [known EXCEPT ![a] = r]
      BY <1>1, <2>2
    <3>2. known'[a] = r
      BY <1>4, <2>1, <3>1
    <3>3. saved' = [saved EXCEPT ![a] = r]
      BY <2>2, <3>2
    <3>4. QED
      BY <1>5, <3>1, <3>3
  <2>3. QED
    BY <1>3, <2>2
<1>8. QED
  BY <1>1, <1>2, <1>6, <1>7, FailedKeeps

LEMMA DepsFailKeeps ==
  ASSUME UpdatesOK, NEW t \in Task, DepsFail(t)
  PROVE  UpdatesOK'
<1>1. PICK a : a = Target(t)
  OBVIOUS
<1>2. /\ cmdQueue # <<>> /\ Head(cmdQueue) = t /\ pc[t] = "deps" /\ Finishes(t)
      /\ settled' = settled \ {a} /\ UNCHANGED <<disk, remote, known, saved, prior>>
  BY <1>1 DEF DepsFail, Holder, repoVars
<1>3. disk' \in [App -> MaybeVersion] /\ \A b \in App : b # a => disk'[b] = disk[b]
  BY <1>2 DEF UpdatesOK, RepoTypes
<1>4. QED
  BY <1>1, <1>2, <1>3, FailedKeeps

LEMMA StateUnknownKeeps ==
  ASSUME UpdatesOK, NEW t \in Task, StateUnknown(t)
  PROVE  UpdatesOK'
<1>1. PICK a, r : a = Target(t) /\ r = Undetected(a)
  OBVIOUS
<1>2. /\ cmdQueue # <<>> /\ Head(cmdQueue) = t /\ pc[t] = "state" /\ Finishes(t)
      /\ settled' = settled \ {a} /\ UNCHANGED <<disk, remote, prior>>
      /\ known' = [known EXCEPT ![a] = r] /\ saved' = [saved EXCEPT ![a] = r]
  BY <1>1 DEF StateUnknown, Holder
<1>3. known[a] \in AppState
  BY <1>1, <1>2, TargetType
<1>4. r \in AppState /\ ~r.valid
  BY <1>1, <1>3 DEF Undetected, AppState, MaybeVersion
<1>5. disk' \in [App -> MaybeVersion] /\ \A b \in App : b # a => disk'[b] = disk[b]
  BY <1>2 DEF UpdatesOK, RepoTypes
<1>6. QED
  BY <1>1, <1>2, <1>4, <1>5, FailedKeeps

LEMMA DepsDoneKeeps ==
  ASSUME UpdatesOK, NEW t \in Task, DepsDone(t)
  PROVE  UpdatesOK'
<1>1. PICK a, k, what, r : /\ a = Target(t) /\ k = known[a] /\ what = cmd[t].what
                           /\ r = RollbackState(t)
  OBVIOUS
<1> DEFINE Checked(fit, back) == [k EXCEPT !.cur = disk[a], !.valid = fit, !.rb = back]
<1>20. \/ a \in IsGit /\ UNCHANGED <<known, saved, settled>>
       \/ /\ a \notin IsGit /\ settled' = settled
          /\ known' = [known EXCEPT ![a] = Checked(TRUE, r)] /\ saved' = [saved EXCEPT ![a] = known'[a]]
       \/ /\ a \notin IsGit /\ settled' = settled \ {a}
          /\ known' = [known EXCEPT ![a] = Checked(FALSE, k.rb)] /\ saved' = [saved EXCEPT ![a] = known'[a]]
  BY <1>1 DEF DepsDone
<1> HIDE DEF Checked
<1>2. /\ cmdQueue # <<>> /\ Head(cmdQueue) = t /\ pc[t] = "deps"
      /\ a \in IsGit => UNCHANGED <<known, saved, settled>>
      /\ UNCHANGED <<disk, remote, cmdQueue, cmd, prior>>
      /\ Goes(t, IF a \in IsGit /\ what # "recover" THEN "state" ELSE "restart")
  BY <1>1, <1>20 DEF DepsDone, Holder
<1>3. /\ a \in App /\ k \in AppState /\ disk[a] \in MaybeVersion /\ k = known[a]
      /\ cmd[t].todo # <<>>
  BY <1>1, <1>2, TargetType
<1>4. r = IF what \in {"update", "full"} THEN k.cur ELSE k.rb
  BY <1>1 DEF RollbackState
<1>5. /\ what \in Changes /\ disk[a] # None
      /\ a \in IsGit /\ what # "recover" => k.rb # None
      /\ a \notin IsGit => k.valid
      /\ a \notin IsGit /\ a \in settled /\ what \in {"update", "full"} => k.cur = prior[a]
  BY <1>1, <1>2 DEF UpdatesOK, StageOK
<1>6. /\ k.valid => k.cur # None /\ k.up # None
      /\ saved[a] = [k EXCEPT !.rb = saved[a].rb]
      /\ a \in settled /\ k.valid /\ ~Changing(a) => k.cur = disk[a]
      /\ a \in settled /\ ~Outdated(a) => k.rb = prior[a]
  BY <1>1, <1>3 DEF UpdatesOK, AppOK
<1>7. CASE a \in IsGit /\ what # "recover"
  <2>1. UNCHANGED <<known, saved, settled>> /\ Goes(t, "state")
    BY <1>2, <1>7
  <2>2. /\ CmdTypes' /\ LockOK' /\ pc'[t] = "state" /\ Target(t)' = a /\ cmd' = cmd
        /\ \A u \in Task : u # t => pc'[u] \in {"idle", "waiting"}
    BY <1>1, <1>2, <2>1, GoesOnKeeps
  <2>3. StageOK(t)'
    BY <1>1, <1>2, <1>5, <1>7, <2>1, <2>2 DEF StageOK
  <2>4. Changing(a)'
    BY <1>3, <2>2 DEF Changing
  <2>5. ~Outdated(a)
    BY <1>2, <1>7, Alone DEF Outdated
  <2>6. AppOK(a)'
    BY <1>1, <1>2, <1>6, <2>1, <2>4, <2>5 DEF AppOK
  <2>7. ASSUME NEW b \in App, b # a PROVE AppOK(b)'
    BY <1>1, <1>2, <2>1, <2>7, OthersKeep
  <2>8. RepoTypes'
    BY <1>2, <2>1 DEF UpdatesOK, RepoTypes
  <2>9. \A u \in Task : StageOK(u)'
    BY <2>2, <2>3, OneWorks
  <2>10. QED
    BY <2>2, <2>6, <2>7, <2>8, <2>9 DEF UpdatesOK
<1>8. CASE a \notin IsGit \/ what = "recover"
  <2>1. Goes(t, "restart")
    BY <1>2, <1>8
  <2>2. /\ CmdTypes' /\ LockOK' /\ pc'[t] = "restart"
        /\ \A u \in Task : u # t => pc'[u] \in {"idle", "waiting"}
    BY <1>1, <1>2, <2>1, GoesOnKeeps
  <2>3. \A u \in Task : pc'[u] \notin {"pull", "deps", "state", "refresh"}
    BY <2>2
  <2>4. CASE a \in IsGit
    <3>1. UNCHANGED <<known, saved, settled>> /\ what = "recover"
      BY <1>2, <1>8, <2>4
    <3>2. ~Changing(a) /\ ~Outdated(a)
      BY <1>1, <1>2, <2>4, <3>1, Alone DEF Changing, Outdated
    <3>3. AppOK(a)'
      BY <1>1, <1>2, <1>6, <3>1, <3>2 DEF AppOK
    <3>4. ASSUME NEW b \in App, b # a PROVE AppOK(b)'
      BY <1>1, <1>2, <3>1, <3>4, OthersKeep
    <3>5. RepoTypes'
      BY <1>2, <3>1 DEF UpdatesOK, RepoTypes
    <3>6. QED
      BY <2>2, <2>3, <3>3, <3>4, <3>5, CalmStepKeeps
  <2>5. CASE a \notin IsGit
    <3>20. PICK fit \in BOOLEAN : \E back, k1 :
            /\ k1 = Checked(fit, back) /\ (fit => back = r) /\ (~fit => back = k.rb)
            /\ known' = [known EXCEPT ![a] = k1] /\ saved' = [saved EXCEPT ![a] = known'[a]]
            /\ settled' = IF fit THEN settled ELSE settled \ {a}
      BY <1>20, <2>5
    <3>1. PICK back, k1 :
            /\ k1 = Checked(fit, back) /\ (fit => back = r) /\ (~fit => back = k.rb)
            /\ known' = [known EXCEPT ![a] = k1] /\ saved' = [saved EXCEPT ![a] = known'[a]]
            /\ settled' = IF fit THEN settled ELSE settled \ {a}
      BY <3>20
    <3>2. /\ k1 \in AppState /\ k1 = [k1 EXCEPT !.rb = k1.rb]
          /\ k1 = [cur |-> disk[a], up |-> k.up, valid |-> fit, rb |-> back]
      <4>1. back \in MaybeVersion
        BY <1>3, <1>4, <3>1 DEF AppState
      <4>2. k1 = [cur |-> disk[a], up |-> k.up, valid |-> fit, rb |-> back]
        BY <1>3, <3>1 DEF AppState, Checked
      <4> QED BY <1>3, <4>1, <4>2 DEF AppState
    <3>3. known \in [App -> AppState] /\ saved \in [App -> AppState] /\ settled \subseteq App
      BY DEF UpdatesOK, RepoTypes
    <3>4. /\ known' \in [App -> AppState] /\ known'[a] = k1
          /\ \A b \in App : b # a => known'[b] = known[b]
      BY <1>3, <3>1, <3>2, <3>3
    <3>5. /\ saved' \in [App -> AppState] /\ saved'[a] = k1
          /\ \A b \in App : b # a => saved'[b] = saved[b]
      BY <1>3, <3>1, <3>2, <3>3, <3>4
    <3>6. what \notin {"update", "full"} => ~Outdated(a)
      BY <1>1, <1>2, Alone DEF Outdated
    <3>7. a \in settled => r = prior[a]
      BY <1>4, <1>5, <1>6, <2>5, <3>6
    <3>8. AppOK(a)'
      BY <1>2, <1>5, <1>6, <2>5, <3>1, <3>2, <3>4, <3>5, <3>7 DEF AppOK
    <3>9. ASSUME NEW b \in App, b # a PROVE AppOK(b)'
      BY <1>1, <1>2, <3>1, <3>4, <3>5, <3>9, OthersKeep
    <3>10. RepoTypes'
      BY <1>2, <3>1, <3>3, <3>4, <3>5 DEF UpdatesOK, RepoTypes
    <3>11. QED
      BY <2>2, <2>3, <3>8, <3>9, <3>10, CalmStepKeeps
  <2>6. QED
    BY <2>4, <2>5
<1>9. QED
  BY <1>7, <1>8

LEMMA StateKnownKeeps ==
  ASSUME UpdatesOK, NEW t \in Task, StateKnown(t)
  PROVE  UpdatesOK'
<1>1. PICK a, k, what, d : /\ a = Target(t) /\ k = known[a] /\ what = cmd[t].what
                           /\ d = Detected(a)
  OBVIOUS
<1>2. /\ cmdQueue # <<>> /\ Head(cmdQueue) = t /\ pc[t] = "state"
      /\ saved' = [saved EXCEPT ![a] = d]
      /\ known' = [known EXCEPT ![a] = IF what = "recover" THEN [d EXCEPT !.rb = disk[a]] ELSE d]
      /\ prior' = (IF what = "recover" THEN [prior EXCEPT ![a] = disk[a]] ELSE prior)
      /\ settled' = (IF what = "recover" THEN settled \cup {a} ELSE settled)
      /\ UNCHANGED <<disk, remote, cmdQueue, cmd>>
      /\ Goes(t, IF what = "recover" THEN "deps" ELSE "restart")
  BY <1>1 DEF StateKnown, Holder
<1>3. /\ a \in App /\ k \in AppState /\ disk[a] \in MaybeVersion /\ k = known[a]
      /\ cmd[t].todo # <<>> /\ remote[a] # None
  BY <1>1, <1>2, TargetType, UpdatesConstants
<1>4. what \in Changes /\ disk[a] # None /\ (what # "recover" => k.rb # None)
  BY <1>1, <1>2 DEF UpdatesOK, StageOK
<1>5. /\ d \in AppState /\ d.cur = disk[a] /\ d.up # None /\ d.valid = TRUE
      /\ d.rb = (IF k.rb = None THEN disk[a] ELSE k.rb)
  <2>1. remote[a] \in MaybeVersion
    BY <1>1, <1>2, TargetType DEF MaybeVersion
  <2>2. d = [k EXCEPT !.cur = disk[a], !.up = remote[a], !.valid = TRUE,
                      !.rb = IF @ = None THEN disk[a] ELSE @]
    BY <1>1 DEF Detected
  <2>3. d = [cur |-> disk[a], up |-> remote[a], valid |-> TRUE,
             rb |-> IF k.rb = None THEN disk[a] ELSE k.rb]
    BY <1>3, <2>2 DEF AppState
  <2>4. QED
    BY <1>3, <2>1, <2>3 DEF AppState
<1>6. PICK k1 : k1 = IF what = "recover" THEN [d EXCEPT !.rb = disk[a]] ELSE d
  OBVIOUS
<1>7. /\ k1 \in AppState /\ k1.cur = disk[a] /\ k1.up # None /\ k1.valid = TRUE
      /\ k1.rb = (IF what = "recover" THEN disk[a] ELSE k.rb)
      /\ d = [k1 EXCEPT !.rb = d.rb]
  BY <1>3, <1>4, <1>5, <1>6 DEF AppState
<1>8. /\ known' \in [App -> AppState] /\ known'[a] = k1
      /\ \A b \in App : b # a => known'[b] = known[b]
  <2>1. known \in [App -> AppState] /\ known' = [known EXCEPT ![a] = k1]
    BY <1>2, <1>6 DEF UpdatesOK, RepoTypes
  <2>2. QED
    BY <1>3, <1>7, <2>1
<1>9. /\ saved' \in [App -> AppState] /\ saved'[a] = d
      /\ \A b \in App : b # a => saved'[b] = saved[b]
  BY <1>2, <1>3, <1>5 DEF UpdatesOK, RepoTypes
<1>10. /\ prior' \in [App -> MaybeVersion]
       /\ prior'[a] = (IF what = "recover" THEN disk[a] ELSE prior[a])
       /\ \A b \in App : b # a => prior'[b] = prior[b]
  BY <1>2, <1>3 DEF UpdatesOK, RepoTypes
<1>11. ~Outdated(a)
  BY <1>2, Alone DEF Outdated
<1>12. AppOK(a)'
  <2>1. a \in settled /\ what # "recover" => k.rb = prior[a]
    BY <1>3, <1>11 DEF UpdatesOK, AppOK
  <2>2. a \in settled' => k1.rb = prior'[a]
    BY <1>2, <1>7, <1>10, <2>1
  <2>3. QED
    BY <1>2, <1>4, <1>7, <1>8, <1>9, <2>2 DEF AppOK
<1>13. ASSUME NEW b \in App, b # a PROVE AppOK(b)'
  <2>1. b \in settled' => b \in settled
    BY <1>2, <1>13
  <2>2. QED
    BY <1>1, <1>2, <1>8, <1>9, <1>10, <1>13, <2>1, OthersKeep
<1>14. RepoTypes'
  BY <1>2, <1>3, <1>8, <1>9, <1>10 DEF UpdatesOK, RepoTypes
<1>15. CASE what = "recover"
  <2>1. /\ CmdTypes' /\ LockOK' /\ pc'[t] = "deps" /\ Target(t)' = a /\ cmd' = cmd
        /\ \A u \in Task : u # t => pc'[u] \in {"idle", "waiting"}
    <3>1. Goes(t, "deps")
      BY <1>2, <1>15
    <3>2. QED
      BY <1>1, <1>2, <3>1, GoesOnKeeps
  <2>2. StageOK(t)'
    BY <1>1, <1>2, <1>4, <1>7, <1>8, <1>15, <2>1 DEF StageOK
  <2>3. \A u \in Task : StageOK(u)'
    BY <2>1, <2>2, OneWorks
  <2>4. QED
    BY <1>12, <1>13, <1>14, <2>1, <2>3 DEF UpdatesOK
<1>16. CASE what # "recover"
  <2>1. /\ CmdTypes' /\ LockOK' /\ pc'[t] = "restart"
        /\ \A u \in Task : u # t => pc'[u] \in {"idle", "waiting"}
    <3>1. Goes(t, "restart")
      BY <1>2, <1>16
    <3>2. QED
      BY <1>2, <3>1, GoesOnKeeps
  <2>2. \A u \in Task : pc'[u] \notin {"pull", "deps", "state", "refresh"}
    BY <2>1
  <2>3. QED
    BY <1>12, <1>13, <1>14, <2>1, <2>2, CalmStepKeeps
<1>17. QED
  BY <1>15, <1>16

LEMMA RepoRefreshedKeeps ==
  ASSUME UpdatesOK, NEW t \in Task, RepoRefreshed(t)
  PROVE  UpdatesOK'
<1>1. PICK a, k, what : a = Target(t) /\ k = known[a] /\ what = cmd[t].what
  OBVIOUS
<1>2. PICK found :
        found = (IF disk[a] = None THEN [k EXCEPT !.valid = FALSE, !.up = remote[a]]
                 ELSE Detected(a))
  OBVIOUS
<1>3. /\ cmdQueue # <<>> /\ Head(cmdQueue) = t /\ pc[t] = "refresh"
      /\ saved' = [saved EXCEPT ![a] = known'[a]]
      /\ NextApp(t, FALSE) /\ UNCHANGED <<disk, remote>>
  BY <1>1 DEF RepoRefreshed, Holder
<1>4. /\ a \in App /\ k \in AppState /\ disk[a] \in MaybeVersion /\ k = known[a]
      /\ remote[a] \in Version /\ remote[a] # None
  BY <1>1, <1>3, TargetType, UpdatesConstants
<1>5. PICK lost \in Lost(a) :
        \/ /\ known' = [known EXCEPT ![a] = found]
           /\ prior' = (IF k.rb = None THEN [prior EXCEPT ![a] = disk[a]] ELSE prior)
           /\ settled' = (IF k.rb = None /\ disk[a] # None THEN settled \cup {a} ELSE settled)
        \/ /\ known' = [known EXCEPT ![a] = lost]
           /\ settled' = (IF k.rb = None THEN settled \ {a} ELSE settled)
           /\ UNCHANGED prior
  <2>1. \E lost : lost \in Lost(a)
    BY DEF Lost
  <2> QED BY <1>1, <1>2, <1>4, <2>1 DEF RepoRefreshed
<1>6. ~Changing(a) /\ (k.rb # None => ~Outdated(a))
  <2>1. what = "replace" => k.rb = None
    BY <1>1, <1>3 DEF UpdatesOK, StageOK
  <2>2. QED
    BY <1>1, <1>3, <2>1, Alone DEF Changing, Outdated
<1>7. /\ k.valid => k.cur # None /\ k.up # None
      /\ a \in settled /\ k.valid => k.cur = disk[a]
      /\ a \in settled /\ k.rb # None => k.rb = prior[a]
  BY <1>4, <1>6 DEF UpdatesOK, AppOK
<1>8. /\ CmdTypes' /\ LockOK'
      /\ \A u \in Task : pc'[u] \notin {"pull", "deps", "state", "refresh"}
  BY <1>3, NextAppKeeps
<1>9. /\ found \in AppState
      /\ found.valid => found.cur # None /\ found.up # None /\ found.cur = disk[a]
      /\ found.rb = (IF k.rb = None THEN disk[a] ELSE k.rb)
  <2>1. remote[a] \in MaybeVersion
    BY <1>4 DEF MaybeVersion
  <2>2. CASE disk[a] = None
    <3>1. found = [cur |-> k.cur, up |-> remote[a], valid |-> FALSE, rb |-> k.rb]
      BY <1>2, <1>4, <2>2 DEF AppState
    <3>2. QED
      BY <1>4, <2>1, <2>2, <3>1 DEF AppState
  <2>3. CASE disk[a] # None
    <3>1. found = [k EXCEPT !.cur = disk[a], !.up = remote[a], !.valid = TRUE,
                            !.rb = IF @ = None THEN disk[a] ELSE @]
      BY <1>1, <1>2, <2>3 DEF Detected
    <3>2. found = [cur |-> disk[a], up |-> remote[a], valid |-> TRUE,
                   rb |-> IF k.rb = None THEN disk[a] ELSE k.rb]
      BY <1>4, <3>1 DEF AppState
    <3>3. QED
      BY <1>4, <2>1, <2>3, <3>2 DEF AppState
  <2>4. QED
    BY <2>2, <2>3
<1>10. /\ lost \in AppState /\ lost.rb = k.rb
       /\ lost.valid => k.valid /\ lost.cur = k.cur /\ lost.up = k.up
  <2>1. CASE a \in IsGit
    <3>1. lost = [cur |-> None, up |-> None, valid |-> FALSE, rb |-> k.rb]
      BY <1>1, <1>4, <2>1 DEF Lost, Undetected, AppState
    <3>2. QED
      BY <1>4, <3>1 DEF AppState, MaybeVersion
  <2>2. CASE a \notin IsGit
    <3>1. lost \in {k, [k EXCEPT !.valid = FALSE]}
      BY <1>1, <2>2 DEF Lost
    <3> QED BY <1>4, <3>1 DEF AppState
  <2>3. QED
    BY <2>1, <2>2
<1>11. PICK k1 \in AppState :
         /\ known' = [known EXCEPT ![a] = k1]
         /\ k1.valid => k1.cur # None /\ k1.up # None
         /\ a \in settled' => k1.rb = prior'[a] /\ (k1.valid => k1.cur = disk[a])
         /\ prior' \in [App -> MaybeVersion] /\ \A b \in App : b # a => prior'[b] = prior[b]
         /\ settled' \subseteq App /\ \A b \in App : b # a /\ b \in settled' => b \in settled
  <2>1. prior \in [App -> MaybeVersion] /\ settled \subseteq App
    BY DEF UpdatesOK, RepoTypes
  <2>2. CASE /\ known' = [known EXCEPT ![a] = found]
             /\ prior' = (IF k.rb = None THEN [prior EXCEPT ![a] = disk[a]] ELSE prior)
             /\ settled' = (IF k.rb = None /\ disk[a] # None THEN settled \cup {a} ELSE settled)
    <3>1. /\ prior' \in [App -> MaybeVersion] /\ \A b \in App : b # a => prior'[b] = prior[b]
          /\ prior'[a] = (IF k.rb = None THEN disk[a] ELSE prior[a])
      BY <1>4, <2>1, <2>2
    <3>2. a \in settled' => found.rb = prior'[a]
      BY <1>7, <1>9, <2>2, <3>1
    <3>3. settled' \subseteq App /\ \A b \in App : b # a /\ b \in settled' => b \in settled
      BY <1>4, <2>1, <2>2
    <3>4. QED
      BY <1>9, <2>2, <3>1, <3>2, <3>3
  <2>3. CASE /\ known' = [known EXCEPT ![a] = lost]
             /\ settled' = (IF k.rb = None THEN settled \ {a} ELSE settled)
             /\ UNCHANGED prior
    <3>1. a \in settled' => k.rb # None /\ a \in settled
      BY <2>3
    <3>2. settled' \subseteq App /\ \A b \in App : b # a /\ b \in settled' => b \in settled
      BY <2>1, <2>3
    <3>3. a \in settled' => lost.rb = prior'[a] /\ (lost.valid => lost.cur = disk[a])
      BY <1>7, <1>10, <2>3, <3>1
    <3>4. lost.valid => lost.cur # None /\ lost.up # None
      BY <1>7, <1>10
    <3>5. QED
      BY <1>10, <2>1, <2>3, <3>2, <3>3, <3>4
  <2>4. QED
    BY <1>5, <2>2, <2>3
<1>12. /\ known' \in [App -> AppState] /\ known'[a] = k1
       /\ \A b \in App : b # a => known'[b] = known[b]
  BY <1>4, <1>11 DEF UpdatesOK, RepoTypes
<1>13. /\ saved' \in [App -> AppState] /\ saved'[a] = k1
       /\ \A b \in App : b # a => saved'[b] = saved[b]
  BY <1>3, <1>4, <1>12 DEF UpdatesOK, RepoTypes
<1>14. k1 = [k1 EXCEPT !.rb = k1.rb]
  BY DEF AppState
<1>15. AppOK(a)'
  BY <1>3, <1>11, <1>12, <1>13, <1>14 DEF AppOK
<1>16. ASSUME NEW b \in App, b # a PROVE AppOK(b)'
  <2>1. /\ known'[b] = known[b] /\ saved'[b] = saved[b] /\ disk'[b] = disk[b]
        /\ prior'[b] = prior[b] /\ (b \in settled' => b \in settled)
    BY <1>3, <1>11, <1>12, <1>13, <1>16
  <2>2. QED
    BY <1>1, <1>3, <1>16, <2>1, OthersKeep
<1>17. RepoTypes'
  BY <1>3, <1>11, <1>12, <1>13 DEF UpdatesOK, RepoTypes
<1>18. QED
  BY <1>8, <1>15, <1>16, <1>17, CalmStepKeeps

(* A crash: what a command was busy with is claimed no more, the rest is as saved. *)
LEMMA CrashKeeps ==
  ASSUME UpdatesOK, Crash
  PROVE  UpdatesOK'
<1>1. /\ \A t \in Task : pc'[t] = "idle" /\ cmd'[t] = NoCmd
      /\ DOMAIN pc' = Task /\ cmd' = [t \in Task |-> NoCmd] /\ cmdQueue' = <<>>
      /\ known' = saved /\ UNCHANGED <<remote, saved, prior>>
  BY DEF Crash
<1>2. CmdTypes' /\ LockOK'
  <2>1. NoCmd \in [what : Commands \cup {"none"}, todo : Seq(App), changed : BOOLEAN]
    <3>1. <<>> \in Seq(App)
      OBVIOUS
    <3>2. QED
      BY <3>1 DEF NoCmd
  <2>2. cmdQueue' \in Seq(Task)
    BY <1>1
  <2>3. QED
    BY <1>1, <2>1, <2>2 DEF CmdTypes, LockOK
<1>3. PICK t \in Task :
        disk' = IF Holder(t, "pull")
                THEN [disk EXCEPT ![Target(t)] = IF @ = Wanted(t) \/ Target(t) \in IsGit
                                                 THEN Wanted(t) ELSE None]
                ELSE disk
  BY DEF Crash
<1>4. /\ disk' \in [App -> MaybeVersion]
      /\ \A b \in App : (pc[t] = "pull" /\ Target(t) = b) \/ disk'[b] = disk[b]
  <2>1. disk \in [App -> MaybeVersion]
    BY DEF UpdatesOK, RepoTypes
  <2>2. CASE Holder(t, "pull")
    <3>1. PICK v : v = IF disk[Target(t)] = Wanted(t) \/ Target(t) \in IsGit THEN Wanted(t) ELSE None
      OBVIOUS
    <3>2. v \in MaybeVersion /\ Target(t) \in App /\ pc[t] = "pull"
      BY <2>2, <3>1, TargetType, WantedType DEF Holder, MaybeVersion
    <3>3. disk' = [disk EXCEPT ![Target(t)] = v]
      BY <1>3, <2>2, <3>1
    <3>4. QED
      BY <2>1, <3>2, <3>3
  <2>3. CASE ~Holder(t, "pull")
    BY <1>3, <2>1, <2>3
  <2>4. QED
    BY <2>2, <2>3
<1>5. /\ settled' \subseteq settled
      /\ \A b \in settled' : saved[b].rb = known[b].rb
      /\ \A b \in settled', u \in Task :
           pc[u] \in {"pull", "deps", "state", "refresh"} => Target(u) # b
  <2>1. \A u \in Task : pc[u] \in {"pull", "deps", "state", "refresh"} => Holder(u, pc[u])
    BY DEF UpdatesOK, LockOK, Holder
  <2>2. settled \subseteq App
    BY DEF UpdatesOK, RepoTypes
  <2>3. QED
    BY <2>1, <2>2 DEF Crash
<1>6. RepoTypes'
  BY <1>1, <1>4, <1>5 DEF UpdatesOK, RepoTypes
<1>7. ASSUME NEW b \in App PROVE AppOK(b)'
  <2>1. known[b] \in AppState /\ saved[b] \in AppState /\ AppOK(b)
    BY <1>7 DEF UpdatesOK, RepoTypes
  <2>2. /\ saved[b].valid = known[b].valid /\ saved[b].cur = known[b].cur
        /\ saved[b].up = known[b].up /\ saved[b] = [saved[b] EXCEPT !.rb = saved[b].rb]
    <3>1. PICK k, s : k = known[b] /\ s = saved[b]
      OBVIOUS
    <3>2. s = [k EXCEPT !.rb = s.rb] /\ k \in AppState
      BY <2>1, <3>1 DEF AppOK
    <3>3. s.valid = k.valid /\ s.cur = k.cur /\ s.up = k.up /\ s = [s EXCEPT !.rb = s.rb]
      BY <3>2 DEF AppState
    <3>4. QED
      BY <3>1, <3>3
  <2>3. known[b].valid => known[b].cur # None /\ known[b].up # None
    BY <2>1 DEF AppOK
  <2>4. ASSUME b \in settled'
        PROVE  saved[b].rb = prior[b] /\ (saved[b].valid => saved[b].cur = disk'[b])
    <3>1. b \in settled /\ ~Changing(b) /\ ~Outdated(b) /\ saved[b].rb = known[b].rb
      BY <1>5, <2>4 DEF Changing, Outdated
    <3>2. disk'[b] = disk[b]
      BY <1>4, <1>5, <2>4
    <3>3. QED
      BY <2>1, <2>2, <3>1, <3>2 DEF AppOK
  <2>5. QED
    BY <1>1, <2>2, <2>3, <2>4 DEF AppOK
<1>8. \A u \in Task : pc'[u] \notin {"pull", "deps", "state", "refresh"}
  BY <1>1
<1>9. QED
  BY <1>2, <1>6, <1>7, <1>8, CalmStepKeeps

(* What comes from outside does not change what is known. *)
LEMMA OutsideKeeps ==
  ASSUME UpdatesOK,
         UNCHANGED <<pc, cmd, cmdQueue, disk, known, saved, prior, settled>>,
         remote' \in [App -> Version]
  PROVE  UpdatesOK'
<1>1. RepoTypes' /\ CmdTypes' /\ LockOK'
  BY DEF UpdatesOK, RepoTypes, CmdTypes, LockOK
<1>2. ASSUME NEW t \in Task PROVE StageOK(t)'
  BY DEF UpdatesOK, StageOK, Target
<1>3. ASSUME NEW a \in App PROVE AppOK(a)'
  BY DEF UpdatesOK, AppOK, Changing, Outdated, Target
<1>4. QED
  BY <1>1, <1>2, <1>3 DEF UpdatesOK

LEMMA UpdatesKeeps ==
  ASSUME UpdatesOK, UpdatesNext
  PROVE  UpdatesOK'
<1>1. ASSUME NEW t \in Request, NEW a \in App,
             AskUpdate(t, a) \/ AskRollback(t, a) \/ AskRecovery(t, a)
      PROVE  UpdatesOK'
  <2>1. <<a>> \in Seq(App) /\ <<a>> # <<>> /\ t \in Task
    BY OneType DEF Task
  <2>2. PICK what \in Commands : Queues(t, what, <<a>>)
    BY <1>1 DEF AskUpdate, AskRollback, AskRecovery, Commands
  <2>3. QED
    BY <2>1, <2>2, QueuedKeeps
<1>2. ASSUME NEW t \in Request, AskFull(t) \/ AskRefresh(t) PROVE UpdatesOK'
  <2>1. PICK what \in Commands : Queues(t, what, Order)
    BY <1>2 DEF AskFull, AskRefresh, Commands
  <2>2. t \in Task
    BY DEF Task
  <2>3. QED
    BY <2>1, <2>2, OrderType, QueuedKeeps
<1>3. CASE AutoRefresh
  <2>1. Queues("timer", "refresh", Order) /\ "timer" \in Task /\ "refresh" \in Commands
    BY <1>3 DEF AutoRefresh, Task, Background, Commands
  <2>2. QED
    BY <2>1, OrderType, QueuedKeeps
<1>4. ASSUME NEW moved \in BOOLEAN, KlippyIdentified(moved) PROVE UpdatesOK'
  <2>1. CASE moved
    <3>1. Queues("worker", "replace", <<"klipper">>) /\ "worker" \in Task /\ "replace" \in Commands
      BY <1>4, <2>1 DEF KlippyIdentified, Task, Background, Commands
    <3>2. <<"klipper">> \in Seq(App) /\ <<"klipper">> # <<>>
      BY OrderType, OneType
    <3>3. QED
      BY <3>1, <3>2, QueuedKeeps
  <2>2. CASE ~moved
    <3>1. UNCHANGED <<pc, cmd, cmdQueue, disk, remote, known, saved, prior, settled>>
      BY <1>4, <2>2 DEF KlippyIdentified, repoVars, historyVars
    <3>2. remote' \in [App -> Version]
      BY <3>1 DEF UpdatesOK, RepoTypes
    <3>3. QED
      BY <3>1, <3>2, OutsideKeeps
  <2>3. QED
    BY <2>1, <2>2
<1>5. CASE PrintMeanwhile
  <2>1. UNCHANGED <<pc, cmd, cmdQueue, disk, remote, known, saved, prior, settled>>
    BY <1>5 DEF PrintMeanwhile, updateVars, repoVars, historyVars
  <2>2. remote' \in [App -> Version]
    BY <2>1 DEF UpdatesOK, RepoTypes
  <2>3. QED
    BY <2>1, <2>2, OutsideKeeps
<1>6. ASSUME NEW a \in App, Released(a) PROVE UpdatesOK'
  <2>1. UNCHANGED <<pc, cmd, cmdQueue, disk, known, saved, prior, settled>>
    BY <1>6 DEF Released, historyVars
  <2>2. remote' \in [App -> Version]
    <3>1. remote \in [App -> 0..LastVersion] /\ remote[a] \in 0..LastVersion
      BY DEF UpdatesOK, RepoTypes, Version
    <3>2. remote[a] + 1 \in 0..LastVersion
      BY <1>6, <3>1, UpdatesConstants DEF Released
    <3>3. remote' = [remote EXCEPT ![a] = remote[a] + 1]
      BY <1>6 DEF Released
    <3>4. QED
      BY <3>1, <3>2, <3>3 DEF Version
  <2>3. QED
    BY <2>1, <2>2, OutsideKeeps
<1>7. ASSUME NEW t \in Task, UpdateCommand(t) PROVE UpdatesOK'
  BY <1>7, StartsKeeps, PulledKeeps, PullFailsKeeps, DepsDoneKeeps, DepsFailKeeps, StateKnownKeeps,
     StateUnknownKeeps, RestartedOrWaitedKeeps, RepoRefreshedKeeps DEF UpdateCommand
<1>8. CASE Crash
  BY <1>8, CrashKeeps
<1>9. QED
  BY <1>1, <1>2, <1>3, <1>4, <1>5, <1>6, <1>7, <1>8 DEF UpdatesNext

(***************************************************************************)
(* Timelapse: the frames of a directory have the numbers up to their count,*)
(* so that a capture replaces no frame and a render leaves none out.       *)
(***************************************************************************)
FileMap == {f \in UNION {[S -> Nat] : S \in SUBSET Nat} : IsFiniteSet(DOMAIN f)}
FrameDir == [there : BOOLEAN, completed : BOOLEAN, files : FileMap]

DirTypes ==
  /\ dirs \in Seq(FrameDir) /\ home \in Seq(Nat)
  /\ \A n \in DOMAIN home : home[n] \in Job
  /\ currentJob \in [dir : {0} \cup Job, framecount : Nat]
  /\ currentJob.dir = 0 => currentJob = NoJobYet
  /\ shot \in [dir : {0} \cup Job, number : Nat, own : BOOLEAN]
  /\ shot.own => shot.dir = currentJob.dir
  /\ rendering \in [dir : {0} \cup Job, dupe : Nat, frames : SUBSET Nat]
  /\ rendering.dir = 0 => rendering = NoRender

EmptyOK ==
  \A d \in Job : ~dirs[d].there => DOMAIN dirs[d].files = {}

(* capture_lock: its holder captures or is about to, the others wait. *)
CaptureLockOK ==
  /\ DOMAIN pc = Task /\ captureQueue \in Seq(Request)
  /\ \A i, j \in 1..Len(captureQueue) : captureQueue[i] = captureQueue[j] => i = j
  /\ \A i \in 1..Len(captureQueue) :
       pc[captureQueue[i]] = "waiting" \/ (i = 1 /\ pc[captureQueue[i]] = "capturing")
  /\ \A t \in Task : pc[t] \in {"waiting", "capturing"} =>
                       \E i \in 1..Len(captureQueue) : captureQueue[i] = t
  /\ \A t \in Task : pc[t] = "capturing" => shot.dir # 0

(* render_running: one task renders. *)
RenderFlagOK ==
  /\ \A t \in Task : pc[t] = "rendering" => t \in {"timer", "worker"} /\ rendering.dir # 0
  /\ pc["timer"] = "rendering" => pc["worker"] # "rendering"

(* The frames of a directory have the numbers up to n. *)
Numbered(d, n) == DOMAIN dirs[d].files = 1..n

JobCount(d) ==
  currentJob.dir = d /\ dirs[d].there /\ rendering.dir # d => Numbered(d, currentJob.framecount)

ShotCount(d) ==
  shot.dir = d /\ dirs[d].there =>
    /\ rendering.dir # d /\ shot.number # 0 /\ Numbered(d, shot.number - 1)
    /\ shot.own <=> currentJob.dir = d

RenderCount(d) ==
  rendering.dir = d =>
    /\ dirs[d].there /\ rendering.dupe > 1 /\ Numbered(d, rendering.dupe)
    /\ dirs[d].files[rendering.dupe] = dirs[d].files[rendering.dupe - 1]
    /\ rendering.frames = {dirs[d].files[k] : k \in 1..(rendering.dupe - 1)}

(* A job that is current knows how many there are, a capture takes the number *)
(* after them, a render has copied the last one.                               *)
CountOK(d) ==
  (\E n \in Nat : Numbered(d, n)) /\ JobCount(d) /\ ShotCount(d) /\ RenderCount(d)

CountsOK == \A d \in Job \ overlapped : CountOK(d)

TimelapseOK ==
  DirTypes /\ EmptyOK /\ CaptureLockOK /\ RenderFlagOK /\ CountsOK /\ FramesKept

(* A file is written, or removed. *)
LEMMA FileAdded ==
  ASSUME NEW f \in FileMap, NEW k \in Nat, NEW n \in Nat
  PROVE  /\ WithFile(f, k, n) \in FileMap /\ DOMAIN WithFile(f, k, n) = DOMAIN f \cup {k}
         /\ WithFile(f, k, n)[k] = n /\ \A i \in DOMAIN f : i # k => WithFile(f, k, n)[i] = f[i]
<1>1. DOMAIN f \in SUBSET Nat /\ f \in [DOMAIN f -> Nat] /\ IsFiniteSet(DOMAIN f)
  BY DEF FileMap
<1>2. DOMAIN f \cup {k} \in SUBSET Nat /\ IsFiniteSet(DOMAIN f \cup {k})
  BY <1>1, FS_AddElement
<1>3. WithFile(f, k, n) \in [DOMAIN f \cup {k} -> Nat] /\ DOMAIN WithFile(f, k, n) = DOMAIN f \cup {k}
  BY <1>1 DEF WithFile
<1>4. WithFile(f, k, n) \in FileMap
  BY <1>2, <1>3 DEF FileMap
<1>5. WithFile(f, k, n)[k] = n /\ \A i \in DOMAIN f : i # k => WithFile(f, k, n)[i] = f[i]
  BY DEF WithFile
<1>6. QED
  BY <1>3, <1>4, <1>5

LEMMA FileGone ==
  ASSUME NEW f \in FileMap, NEW k
  PROVE  /\ WithoutFile(f, k) \in FileMap /\ DOMAIN WithoutFile(f, k) = DOMAIN f \ {k}
         /\ \A i \in DOMAIN f : i # k => WithoutFile(f, k)[i] = f[i]
<1> DEFINE g == WithoutFile(f, k)
           S == DOMAIN f \ {k}
<1>1. DOMAIN f \in SUBSET Nat /\ f \in [DOMAIN f -> Nat] /\ IsFiniteSet(DOMAIN f)
  BY DEF FileMap
<1>2. S \in SUBSET Nat /\ IsFiniteSet(S)
  BY <1>1, FS_Subset
<1>3. g \in [S -> Nat] /\ DOMAIN g = S
  BY <1>1 DEF WithoutFile
<1>4. g \in FileMap
  BY <1>2, <1>3 DEF FileMap
<1>5. QED
  BY <1>3, <1>4 DEF WithoutFile

LEMMA NoFiles ==
  /\ <<>> \in FileMap /\ DOMAIN <<>> = {}
  /\ NoDir \in FrameDir /\ NewDir \in FrameDir
  /\ ~NoDir.there /\ DOMAIN NoDir.files = {} /\ NewDir.there /\ DOMAIN NewDir.files = {}
<1>1. <<>> \in [{} -> Nat] /\ DOMAIN <<>> = {} /\ {} \in SUBSET Nat
  OBVIOUS
<1>2. IsFiniteSet({})
  BY FS_EmptySet
<1>3. <<>> \in FileMap
  BY <1>1, <1>2 DEF FileMap
<1>4. QED
  BY <1>1, <1>3 DEF NoDir, NewDir, FrameDir

LEMMA DirFacts ==
  ASSUME DirTypes
  PROVE  /\ Len(dirs) \in Nat /\ Job = 1..Len(dirs) /\ 0 \notin Job
         /\ \A d \in Job : /\ dirs[d] \in FrameDir /\ dirs[d].files \in FileMap
                           /\ dirs[d].there \in BOOLEAN
<1>1. dirs \in Seq(FrameDir)
  BY DEF DirTypes
<1>2. /\ Len(dirs) \in Nat /\ DOMAIN dirs = 1..Len(dirs)
      /\ \A d \in 1..Len(dirs) : dirs[d] \in FrameDir
  BY <1>1
<1>3. QED
  BY <1>2 DEF Job, FrameDir

(* One directory has its files, or itself, changed. *)
LEMMA DirChanged ==
  ASSUME DirTypes, NEW d \in Job, NEW r \in FrameDir, dirs' = [dirs EXCEPT ![d] = r]
  PROVE  /\ dirs' \in Seq(FrameDir) /\ DOMAIN dirs' = DOMAIN dirs /\ dirs'[d] = r
         /\ \A e \in Job : e # d => dirs'[e] = dirs[e]
  BY DEF DirTypes, Job

LEMMA FilesChanged ==
  ASSUME DirTypes, NEW d \in Job, NEW f \in FileMap, dirs' = [dirs EXCEPT ![d].files = f]
  PROVE  /\ dirs' \in Seq(FrameDir) /\ DOMAIN dirs' = DOMAIN dirs
         /\ dirs'[d].files = f /\ dirs'[d].there = dirs[d].there
         /\ \A e \in Job : e # d => dirs'[e] = dirs[e]
<1> DEFINE r == [dirs[d] EXCEPT !.files = f]
<1>1. dirs[d] \in FrameDir
  BY DirFacts
<1>2. r \in FrameDir /\ r.files = f /\ r.there = dirs[d].there
  BY <1>1 DEF FrameDir
<1>3. dirs' = [dirs EXCEPT ![d] = r]
  BY DEF DirTypes, Job
<1> HIDE DEF r
<1>4. QED
  BY <1>2, <1>3, DirChanged

LEMMA FramesThere ==
  ASSUME DirTypes, EmptyOK
  PROVE  \A d \in Job : Frames(d) = DOMAIN dirs[d].files
  BY DirFacts DEF Frames, Exists, EmptyOK

LEMMA FramesThereNext ==
  ASSUME DirTypes', EmptyOK'
  PROVE  \A d \in Job' : Frames(d)' = DOMAIN dirs'[d].files
<1>1. 0 \notin Job'
  BY DEF DirTypes, Job
<1>2. QED
  BY <1>1 DEF Frames, Exists, EmptyOK

(* Nothing is done to the files. *)
LEMMA SameFilesKeep ==
  ASSUME TimelapseOK, DOMAIN dirs' = DOMAIN dirs, UNCHANGED <<home, rendering, videos>>,
         \A d \in Job : dirs'[d].files = dirs[d].files /\ dirs'[d].there = dirs[d].there,
         overlapped \subseteq overlapped',
         \A d \in Job \ overlapped' : JobCount(d)' /\ ShotCount(d)'
  PROVE  EmptyOK' /\ CountsOK' /\ FramesKept'
<1>1. Job' = Job /\ 0 \notin Job
  BY DirFacts DEF Job, TimelapseOK
<1>2. EmptyOK'
  BY <1>1 DEF EmptyOK, TimelapseOK
<1>3. \A d \in Job \ overlapped' : (\E n \in Nat : Numbered(d, n)') /\ RenderCount(d)'
  BY DEF TimelapseOK, CountsOK, CountOK, Numbered, RenderCount
<1>4. CountsOK'
  BY <1>1, <1>3 DEF CountsOK, CountOK
<1>5. \A d \in Job : Frames(d)' = Frames(d)
  BY DEF Frames, Exists
<1>6. \A n \in DOMAIN home : home[n] \in Job
  BY DEF TimelapseOK, DirTypes
<1>7. FramesKept'
  BY <1>5, <1>6 DEF FramesKept, TimelapseOK
<1>8. QED
  BY <1>2, <1>4, <1>7

(* Tasks that do not capture go on. *)
LEMMA LockStays ==
  ASSUME CaptureLockOK, DOMAIN pc' = Task, captureQueue' = captureQueue, shot'.dir = shot.dir,
         \A t \in Task : pc'[t] = pc[t] \/ (t \in Background /\ pc'[t] \notin {"waiting", "capturing"})
  PROVE  CaptureLockOK'
<1>1. \A i \in 1..Len(captureQueue) : captureQueue[i] \in Request /\ captureQueue[i] \in Task
  BY DEF CaptureLockOK, Task
<1>2. \A i \in 1..Len(captureQueue) : pc'[captureQueue[i]] = pc[captureQueue[i]]
  BY <1>1, HostConstants
<1>3. \A t \in Task : pc'[t] \in {"waiting", "capturing"} => pc[t] = pc'[t]
  OBVIOUS
<1>4. QED
  BY <1>2, <1>3 DEF CaptureLockOK

LEMMA StartJobKeeps ==
  ASSUME TimelapseOK, StartJob, UNCHANGED <<rendering, home, videos, overlapped>>
  PROVE  DirTypes' /\ EmptyOK' /\ CountsOK' /\ FramesKept' /\ shot'.dir = shot.dir
<1>0. PICK n : n = Len(dirs) + 1
  OBVIOUS
<1>1. dirs \in Seq(FrameDir) /\ dirs' = Append(dirs, NewDir) /\ NewDir \in FrameDir
  BY NoFiles DEF StartJob, TimelapseOK, DirTypes
<1>2. /\ n = Len(dirs) + 1 /\ Len(dirs) \in Nat /\ Job = 1..Len(dirs) /\ Job' = 1..n
      /\ Len(dirs') = n /\ dirs' \in Seq(FrameDir)
      /\ dirs'[n] = NewDir /\ \A d \in Job : dirs'[d] = dirs[d]
  BY <1>0, <1>1, DirFacts DEF TimelapseOK, Job
<1>3. /\ currentJob' = [dir |-> n, framecount |-> 0]
      /\ shot' = [shot EXCEPT !.own = FALSE] /\ shot'.dir = shot.dir /\ ~shot'.own
      /\ shot'.number = shot.number /\ shot' \in [dir : {0} \cup Job, number : Nat, own : BOOLEAN]
  BY <1>2 DEF StartJob, SetJob, TimelapseOK, DirTypes
<1>4. DirTypes'
  BY <1>2, <1>3 DEF DirTypes, TimelapseOK
<1>5. EmptyOK'
  BY <1>2, NoFiles DEF EmptyOK, TimelapseOK
<1>6. ASSUME NEW d \in Job \ overlapped PROVE CountOK(d)'
  <2>1. CountOK(d) /\ dirs'[d] = dirs[d] /\ d # n
    BY <1>2 DEF TimelapseOK, CountsOK
  <2>2. \A m : Numbered(d, m)' <=> Numbered(d, m)
    BY <2>1 DEF Numbered
  <2>3. ShotCount(d)'
    BY <1>3, <2>1, <2>2 DEF CountOK, ShotCount
  <2>4. RenderCount(d)'
    BY <2>1, <2>2 DEF CountOK, RenderCount
  <2>5. QED
    BY <1>3, <2>1, <2>2, <2>3, <2>4 DEF CountOK, JobCount
<1>7. CountOK(n)'
  <2>1. Numbered(n, 0)'
    BY <1>2, NoFiles DEF Numbered
  <2>2. shot'.dir # n /\ rendering'.dir # n
    BY <1>2, <1>3 DEF TimelapseOK, DirTypes
  <2>3. QED
    BY <1>3, <2>1, <2>2 DEF CountOK, JobCount, ShotCount, RenderCount
<1>8. CountsOK'
  BY <1>2, <1>6, <1>7 DEF CountsOK
<1>9. FramesKept'
  <2>1. \A d \in Job : Frames(d)' = Frames(d)
    BY <1>2 DEF Frames, Exists
  <2>2. \A k \in DOMAIN home : home[k] \in Job /\ dirs'[home[k]] = dirs[home[k]]
    BY <1>2 DEF TimelapseOK, DirTypes
  <2>3. QED
    BY <2>1, <2>2 DEF FramesKept, TimelapseOK
<1>10. QED
  BY <1>3, <1>4, <1>5, <1>8, <1>9

LEMMA EndJobKeeps ==
  ASSUME TimelapseOK, NEW autorender \in BOOLEAN, EndJob(autorender),
         UNCHANGED <<rendering, home, videos, overlapped>>
  PROVE  DirTypes' /\ EmptyOK' /\ CountsOK' /\ FramesKept' /\ shot'.dir = shot.dir
<1>1. /\ DOMAIN dirs' = DOMAIN dirs /\ dirs' \in Seq(FrameDir)
      /\ \A d \in Job : dirs'[d].files = dirs[d].files /\ dirs'[d].there = dirs[d].there
  <2>1. CASE dirs' = dirs
    BY <2>1 DEF TimelapseOK, DirTypes
  <2>2. CASE Exists(currentJob.dir) /\ dirs' = [dirs EXCEPT ![currentJob.dir].completed = TRUE]
    <3> DEFINE c == currentJob.dir
               r == [dirs[c] EXCEPT !.completed = TRUE]
    <3>1. c \in Job /\ dirs[c] \in FrameDir
      BY <2>2, DirFacts DEF TimelapseOK, DirTypes, Exists
    <3>2. r \in FrameDir /\ r.files = dirs[c].files /\ r.there = dirs[c].there
      BY <3>1 DEF FrameDir
    <3>3. dirs' = [dirs EXCEPT ![c] = r]
      BY <2>2, <3>1 DEF TimelapseOK, DirTypes, Job
    <3> HIDE DEF r
    <3>4. QED
      BY <3>1, <3>2, <3>3, DirChanged DEF TimelapseOK
  <2>3. QED
    BY <2>1, <2>2 DEF EndJob
<1>2. /\ currentJob' = NoJobYet /\ shot' = [shot EXCEPT !.own = FALSE]
      /\ shot'.dir = shot.dir /\ ~shot'.own /\ shot'.number = shot.number
      /\ shot' \in [dir : {0} \cup Job, number : Nat, own : BOOLEAN]
  BY DEF EndJob, SetJob, TimelapseOK, DirTypes
<1>3. DirTypes'
  BY <1>1, <1>2 DEF TimelapseOK, DirTypes, Job, NoJobYet
<1>4. \A d \in Job \ overlapped : JobCount(d)' /\ ShotCount(d)'
  <2> SUFFICES ASSUME NEW d \in Job \ overlapped PROVE JobCount(d)' /\ ShotCount(d)'
    OBVIOUS
  <2>1. d # 0 /\ CountOK(d)
    BY DirFacts DEF TimelapseOK, CountsOK
  <2>2. currentJob'.dir # d
    BY <1>2, <2>1 DEF NoJobYet
  <2>3. QED
    BY <1>1, <1>2, <2>1, <2>2 DEF CountOK, JobCount, ShotCount, Numbered
<1>5. QED
  BY <1>1, <1>2, <1>3, <1>4, SameFilesKeep

(* Only tasks that do not capture go on. *)
LEMMA PlacesKeep ==
  ASSUME TimelapseOK, DOMAIN pc' = Task,
         UNCHANGED <<dirs, currentJob, captureQueue, shot, rendering, home, videos, overlapped>>,
         \A t \in Task : \/ pc'[t] = pc[t]
                         \/ t \in Background /\ pc'[t] \notin {"waiting", "capturing", "rendering"}
  PROVE  TimelapseOK'
<1>1. DirTypes'
  BY DEF TimelapseOK, DirTypes, Job
<1>2. CaptureLockOK'
  BY LockStays DEF TimelapseOK
<1>3. RenderFlagOK'
  BY DEF TimelapseOK, RenderFlagOK, Task, Background
<1>4. EmptyOK' /\ CountsOK' /\ FramesKept'
  BY DEF TimelapseOK, EmptyOK, CountsOK, CountOK, JobCount, ShotCount, RenderCount, Numbered,
         FramesKept, Frames, Exists, Job
<1>5. QED
  BY <1>1, <1>2, <1>3, <1>4 DEF TimelapseOK

LEMMA PrintStateKeeps ==
  ASSUME TimelapseOK, NEW named \in BOOLEAN, NEW autorender \in BOOLEAN,
         PrintStateChanges(named, autorender)
  PROVE  TimelapseOK'
<1>1. UNCHANGED <<captureQueue, rendering, home, videos, overlapped>>
  BY DEF PrintStateChanges, frameVars
<1>2. /\ DOMAIN pc' = Task
      /\ \A t \in Task : \/ pc'[t] = pc[t]
                         \/ t \in Background /\ pc'[t] \notin {"waiting", "capturing", "rendering"}
  BY DEF PrintStateChanges, EndJob, Goes, TimelapseOK, CaptureLockOK, Background
<1>3. UNCHANGED <<dirs, currentJob, shot>> \/ StartJob \/ EndJob(autorender)
  BY DEF PrintStateChanges
<1>4. CASE UNCHANGED <<dirs, currentJob, shot>>
  BY <1>1, <1>2, <1>4, PlacesKeep
<1>5. CASE StartJob \/ EndJob(autorender)
  <2>1. DirTypes' /\ EmptyOK' /\ CountsOK' /\ FramesKept' /\ shot'.dir = shot.dir
    BY <1>1, <1>5, StartJobKeeps, EndJobKeeps
  <2>2. CaptureLockOK'
    BY <1>1, <1>2, <2>1, LockStays DEF TimelapseOK
  <2>3. RenderFlagOK'
    BY <1>1, <1>2 DEF TimelapseOK, RenderFlagOK, Task, Background
  <2>4. QED
    BY <2>1, <2>2, <2>3 DEF TimelapseOK
<1>6. QED
  BY <1>3, <1>4, <1>5

LEMMA NameKnownKeeps ==
  ASSUME TimelapseOK, NameKnown
  PROVE  TimelapseOK'
<1>1. UNCHANGED <<captureQueue, rendering, home, videos, overlapped>> /\ StartJob
  BY DEF NameKnown, frameVars, renderVars
<1>2. /\ DOMAIN pc' = Task
      /\ \A t \in Task : \/ pc'[t] = pc[t]
                         \/ t \in Background /\ pc'[t] \notin {"waiting", "capturing", "rendering"}
  BY DEF NameKnown, Goes, TimelapseOK, CaptureLockOK, Background
<1>3. DirTypes' /\ EmptyOK' /\ CountsOK' /\ FramesKept' /\ shot'.dir = shot.dir
  BY <1>1, StartJobKeeps
<1>4. CaptureLockOK'
  BY <1>1, <1>2, <1>3, LockStays DEF TimelapseOK
<1>5. RenderFlagOK'
  BY <1>1, <1>2 DEF TimelapseOK, RenderFlagOK, Task, Background
<1>6. QED
  BY <1>3, <1>4, <1>5 DEF TimelapseOK

(* The frames of a live job are counted when no capture of it is under way. *)
LEMMA ReconciledKeeps ==
  ASSUME TimelapseOK, Reconciled
  PROVE  TimelapseOK'
<1>1. UNCHANGED <<dirs, captureQueue, rendering, home, videos>>
  BY DEF Reconciled
<1>2. /\ DOMAIN pc' = Task
      /\ \A t \in Task : \/ pc'[t] = pc[t]
                         \/ t \in Background /\ pc'[t] \notin {"waiting", "capturing", "rendering"}
  BY DEF Reconciled, TimelapseOK, CaptureLockOK, Background
<1>3. CASE UNCHANGED <<currentJob, shot, overlapped>>
  BY <1>1, <1>2, <1>3, PlacesKeep
<1>4. ASSUME NEW d \in Job, Resumes(d) PROVE TimelapseOK'
  <2>1. /\ currentJob' = [dir |-> d, framecount |-> Cardinality(Frames(d))]
        /\ shot' = [shot EXCEPT !.own = FALSE] /\ currentJob = NoJobYet
        /\ overlapped' = (IF d = shot.dir THEN overlapped \cup {d} ELSE overlapped)
        /\ dirs[d].there
    BY <1>4 DEF Resumes, SetJob, FrameCount, Met, LiveDirs
  <2>2. /\ Job' = Job /\ d # 0 /\ Frames(d) = DOMAIN dirs[d].files /\ IsFiniteSet(Frames(d))
    BY <1>1, DirFacts, FramesThere DEF TimelapseOK, FileMap, Job
  <2>3. Cardinality(Frames(d)) \in Nat
    BY <2>2, FS_CardinalityType
  <2>4. /\ shot'.dir = shot.dir /\ ~shot'.own /\ shot'.number = shot.number
        /\ shot' \in [dir : {0} \cup Job, number : Nat, own : BOOLEAN]
    BY <2>1 DEF TimelapseOK, DirTypes
  <2>5. DirTypes'
    BY <1>1, <2>1, <2>2, <2>3, <2>4 DEF TimelapseOK, DirTypes
  <2>6. ASSUME NEW e \in Job \ overlapped' PROVE JobCount(e)' /\ ShotCount(e)'
    <3>1. CountOK(e)
      BY <2>1, <2>6 DEF TimelapseOK, CountsOK
    <3>2. CASE e = d
      <4>1. shot'.dir # d
        BY <2>1, <2>4, <2>6, <3>2
      <4>2. PICK n \in Nat : Numbered(d, n)
        BY <3>1, <3>2 DEF CountOK
      <4>3. Cardinality(1..n) = n
        BY <4>2, FS_Interval
      <4>4. Numbered(d, Cardinality(Frames(d)))
        BY <4>2, <4>3, <2>2 DEF Numbered
      <4>5. QED
        BY <1>1, <2>1, <3>2, <4>1, <4>4 DEF JobCount, ShotCount, Numbered
    <3>3. CASE e # d
      <4>1. currentJob'.dir # e /\ currentJob.dir # e
        BY <2>1, <3>3, DirFacts DEF NoJobYet, TimelapseOK
      <4>2. QED
        BY <1>1, <2>4, <3>1, <4>1 DEF CountOK, JobCount, ShotCount, Numbered
    <3>4. QED
      BY <3>2, <3>3
  <2>7. overlapped \subseteq overlapped'
    BY <2>1
  <2>8. EmptyOK' /\ CountsOK' /\ FramesKept'
    BY <1>1, <2>6, <2>7, SameFilesKeep
  <2>9. CaptureLockOK' /\ RenderFlagOK'
    BY <1>1, <1>2, <2>4, LockStays DEF TimelapseOK, RenderFlagOK, Task, Background
  <2>10. QED
    BY <2>5, <2>8, <2>9 DEF TimelapseOK
<1>5. QED
  BY <1>3, <1>4 DEF Reconciled

LEMMA RequestIsNoTimer ==
  ASSUME NEW t \in Request
  PROVE  /\ t \in Task /\ t \notin Background /\ t # "timer" /\ t # "worker"
         /\ "timer" \in Task /\ "worker" \in Task
  BY HostConstants DEF Task, Background

(* The one that holds the lock goes, and the next one has it. *)
LEMMA CaptureEnds ==
  ASSUME CaptureLockOK, NEW t \in Request, pc[t] \in {"waiting", "capturing"},
         pc[t] = "waiting" => captureQueue[1] = t, EndsCapture(t)
  PROVE  CaptureLockOK'
<1>1. t \in Task /\ captureQueue \in Seq(Request) /\ Len(captureQueue) \in Nat
  BY DEF Task, CaptureLockOK
<1>2. PICK i \in 1..Len(captureQueue) : captureQueue[i] = t
  BY <1>1 DEF CaptureLockOK
<1>3. Len(captureQueue) > 0 /\ captureQueue[1] = t
  BY <1>1, <1>2 DEF CaptureLockOK
<1>4. /\ captureQueue' \in Seq(Request) /\ Len(captureQueue') = Len(captureQueue) - 1
      /\ \A k \in 1..Len(captureQueue') : captureQueue'[k] = captureQueue[k + 1]
  BY <1>1, <1>3 DEF EndsCapture
<1>5. DOMAIN pc' = Task /\ \A u \in Task : pc'[u] = IF u = t THEN "idle" ELSE pc[u]
  BY DEF EndsCapture, Goes, CaptureLockOK
<1>6. \A k, m \in 1..Len(captureQueue') : captureQueue'[k] = captureQueue'[m] => k = m
  <2> SUFFICES ASSUME NEW k \in 1..Len(captureQueue'), NEW m \in 1..Len(captureQueue'),
                      captureQueue'[k] = captureQueue'[m]
               PROVE  k = m
    OBVIOUS
  <2>1. k + 1 \in 1..Len(captureQueue) /\ m + 1 \in 1..Len(captureQueue)
    BY <1>1, <1>4
  <2>2. k + 1 = m + 1
    BY <1>4, <2>1 DEF CaptureLockOK
  <2>3. QED
    BY <2>2
<1>7. ASSUME NEW k \in 1..Len(captureQueue') PROVE pc'[captureQueue'[k]] = "waiting"
  <2>1. k + 1 \in 1..Len(captureQueue) /\ k + 1 # 1 /\ 1 \in 1..Len(captureQueue)
    BY <1>1, <1>4
  <2>2. /\ captureQueue[k + 1] \in Task /\ captureQueue[k + 1] # t
        /\ pc[captureQueue[k + 1]] = "waiting"
    BY <1>1, <1>3, <2>1 DEF CaptureLockOK, Task
  <2>3. QED
    BY <1>4, <1>5, <2>2
<1>8. ASSUME NEW u \in Task, pc'[u] \in {"waiting", "capturing"}
      PROVE  pc'[u] # "capturing" /\ \E k \in 1..Len(captureQueue') : captureQueue'[k] = u
  <2>1. u # t /\ pc'[u] = pc[u]
    BY <1>5, <1>8
  <2>2. PICK k \in 1..Len(captureQueue) : captureQueue[k] = u
    BY <1>8, <2>1 DEF CaptureLockOK
  <2>3. k # 1 /\ pc[u] = "waiting"
    BY <1>3, <1>8, <2>1, <2>2 DEF CaptureLockOK
  <2>4. k - 1 \in 1..Len(captureQueue') /\ captureQueue'[k - 1] = u
    BY <1>1, <1>4, <2>2, <2>3
  <2>5. QED
    BY <2>1, <2>3, <2>4
<1>9. QED
  BY <1>4, <1>5, <1>6, <1>7, <1>8 DEF CaptureLockOK

LEMMA NewFrameKeeps ==
  ASSUME TimelapseOK, NEW t \in Request, NewFrame(t)
  PROVE  TimelapseOK'
<1> DEFINE n == Len(captureQueue) + 1
<1>1. UNCHANGED <<dirs, currentJob, shot, rendering, home, videos, overlapped>>
  BY DEF NewFrame, frameVars, renderVars
<1>2. /\ t \in Task /\ t \notin Background /\ captureQueue \in Seq(Request)
      /\ Len(captureQueue) \in Nat /\ pc[t] = "idle"
  BY HostConstants DEF Task, TimelapseOK, CaptureLockOK, NewFrame, Idle
<1>3. DOMAIN pc' = Task /\ \A u \in Task : pc'[u] = IF u = t THEN "waiting" ELSE pc[u]
  BY DEF NewFrame, Goes, TimelapseOK, CaptureLockOK
<1>4. /\ captureQueue' \in Seq(Request) /\ Len(captureQueue') = n /\ captureQueue'[n] = t
      /\ \A k \in 1..Len(captureQueue) : captureQueue'[k] = captureQueue[k]
  BY <1>2 DEF NewFrame
<1>5. \A k \in 1..Len(captureQueue) : captureQueue[k] \in Task /\ captureQueue[k] # t
  BY <1>2 DEF TimelapseOK, CaptureLockOK, Task
<1>6. /\ \A k, m \in 1..n : captureQueue'[k] = captureQueue'[m] => k = m
      /\ \A k \in 1..n : pc'[captureQueue'[k]] = "waiting"
                         \/ (k = 1 /\ pc'[captureQueue'[k]] = "capturing")
  <2>1. \A k \in 1..n : k \in 1..Len(captureQueue) \/ k = n
    BY <1>2
  <2>2. \A k, m \in 1..Len(captureQueue) : captureQueue[k] = captureQueue[m] => k = m
    BY DEF TimelapseOK, CaptureLockOK
  <2>3. \A k \in 1..Len(captureQueue) : pc[captureQueue[k]] = "waiting"
                                        \/ (k = 1 /\ pc[captureQueue[k]] = "capturing")
    BY DEF TimelapseOK, CaptureLockOK
  <2>4. \A k, m \in 1..n : captureQueue'[k] = captureQueue'[m] => k = m
    BY <1>4, <1>5, <2>1, <2>2
  <2>5. \A k \in 1..n : pc'[captureQueue'[k]] = "waiting"
                        \/ (k = 1 /\ pc'[captureQueue'[k]] = "capturing")
    BY <1>2, <1>3, <1>4, <1>5, <2>1, <2>3
  <2>6. QED
    BY <2>4, <2>5
<1>7. ASSUME NEW u \in Task, pc'[u] \in {"waiting", "capturing"}
      PROVE  /\ \E k \in 1..n : captureQueue'[k] = u
             /\ pc'[u] = "capturing" => shot'.dir # 0
  <2>1. CASE u = t
    BY <1>2, <1>3, <1>4, <2>1
  <2>2. CASE u # t
    <3>1. pc[u] = pc'[u]
      BY <1>3, <2>2
    <3>2. PICK k \in 1..Len(captureQueue) : captureQueue[k] = u
      BY <1>7, <3>1 DEF TimelapseOK, CaptureLockOK
    <3>3. k \in 1..n /\ captureQueue'[k] = u
      BY <1>2, <1>4, <3>2
    <3>4. QED
      BY <1>1, <3>1, <3>3 DEF TimelapseOK, CaptureLockOK
  <2>3. QED
    BY <2>1, <2>2
<1>8. CaptureLockOK'
  BY <1>3, <1>4, <1>6, <1>7 DEF CaptureLockOK
<1>9. RenderFlagOK'
  BY <1>1, <1>2, <1>3, RequestIsNoTimer DEF TimelapseOK, RenderFlagOK
<1>10. DirTypes'
  BY <1>1 DEF TimelapseOK, DirTypes, Job
<1>11. \A d \in Job \ overlapped' : JobCount(d)' /\ ShotCount(d)'
  BY <1>1 DEF TimelapseOK, CountsOK, CountOK, JobCount, ShotCount, Numbered
<1>12. EmptyOK' /\ CountsOK' /\ FramesKept'
  BY <1>1, <1>11, SameFilesKeep
<1>13. QED
  BY <1>8, <1>9, <1>10, <1>12 DEF TimelapseOK

(* A capture takes the number after the frames that its job counts. *)
LEMMA BeginsCaptureKeeps ==
  ASSUME TimelapseOK, NEW t \in Request, BeginsCapture(t)
  PROVE  TimelapseOK'
<1>1. /\ UNCHANGED <<dirs, currentJob, rendering, home, videos>> /\ Job' = Job
      /\ pc[t] = "waiting" /\ captureQueue[1] = t
      /\ t \in Task /\ t \notin Background
  BY HostConstants DEF BeginsCapture, renderVars, Job, Task
<1>2. CASE EndsCapture(t) /\ UNCHANGED <<shot, overlapped>>
  <2>1. CaptureLockOK'
    BY <1>1, <1>2, CaptureEnds DEF TimelapseOK
  <2>2. RenderFlagOK'
    BY <1>1, <1>2 DEF EndsCapture, Goes, TimelapseOK, RenderFlagOK, Background, CaptureLockOK, Task
  <2>3. DirTypes' /\ EmptyOK' /\ CountsOK' /\ FramesKept'
    BY <1>1, <1>2 DEF TimelapseOK, DirTypes, EmptyOK, CountsOK, CountOK, JobCount, ShotCount,
                      RenderCount, Numbered, FramesKept, Frames, Exists, Job
  <2>4. QED
    BY <2>1, <2>2, <2>3 DEF TimelapseOK
<1>3. CASE /\ currentJob # NoJobYet /\ Goes(t, "capturing") /\ UNCHANGED captureQueue
           /\ overlapped' = Met(currentJob.dir, rendering.dir)
           /\ shot' = [dir |-> currentJob.dir, number |-> currentJob.framecount + 1, own |-> TRUE]
  <2>1. currentJob.dir \in Job /\ currentJob.dir # 0 /\ currentJob.framecount \in Nat
    BY <1>3 DEF TimelapseOK, DirTypes
  <2>2. /\ overlapped' = IF currentJob.dir = rendering.dir
                         THEN overlapped \cup {currentJob.dir} ELSE overlapped
        /\ overlapped \subseteq overlapped'
    BY <1>3 DEF Met
  <2>3. DirTypes'
    BY <1>1, <1>3, <2>1 DEF TimelapseOK, DirTypes
  <2>4. ASSUME NEW e \in Job \ overlapped' PROVE JobCount(e)' /\ ShotCount(e)'
    <3>1. CountOK(e)
      BY <2>2 DEF TimelapseOK, CountsOK
    <3>2. JobCount(e)'
      BY <1>1, <3>1 DEF CountOK, JobCount, Numbered
    <3>3. CASE e = currentJob.dir
      <4>1. rendering.dir # e
        BY <2>2, <2>4, <3>3
      <4>2. /\ shot'.number = currentJob.framecount + 1
            /\ shot'.number - 1 = currentJob.framecount /\ shot'.number # 0 /\ shot'.own
        BY <1>3, <2>1
      <4>3. QED
        BY <1>1, <3>1, <3>2, <3>3, <4>1, <4>2 DEF CountOK, JobCount, ShotCount, Numbered
    <3>4. CASE e # currentJob.dir
      <4>1. shot'.dir # e
        BY <1>3, <3>4
      <4>2. QED
        BY <3>2, <4>1 DEF ShotCount
    <3>5. QED
      BY <3>3, <3>4
  <2>5. EmptyOK' /\ CountsOK' /\ FramesKept'
    BY <1>1, <2>2, <2>4, SameFilesKeep
  <2>6. DOMAIN pc' = Task /\ \A u \in Task : pc'[u] = IF u = t THEN "capturing" ELSE pc[u]
    BY <1>3 DEF Goes, TimelapseOK, CaptureLockOK
  <2>7. RenderFlagOK'
    BY <1>1, <2>6, RequestIsNoTimer DEF TimelapseOK, RenderFlagOK
  <2>8. CaptureLockOK'
    <3>1. PICK i \in 1..Len(captureQueue) : captureQueue[i] = t
      BY <1>1 DEF TimelapseOK, CaptureLockOK
    <3>2. /\ captureQueue \in Seq(Request) /\ Len(captureQueue) \in Nat
          /\ 1 \in 1..Len(captureQueue)
      BY <3>1 DEF TimelapseOK, CaptureLockOK
    <3>3. \A k, m \in 1..Len(captureQueue) : captureQueue[k] = captureQueue[m] => k = m
      BY DEF TimelapseOK, CaptureLockOK
    <3>4. \A k \in 1..Len(captureQueue) : captureQueue[k] \in Task /\ (k # 1 => captureQueue[k] # t)
      BY <1>1, <3>2, <3>3 DEF Task
    <3>5. \A k \in 1..Len(captureQueue) : pc[captureQueue[k]] = "waiting"
                                          \/ (k = 1 /\ pc[captureQueue[k]] = "capturing")
      BY DEF TimelapseOK, CaptureLockOK
    <3>6. \A k \in 1..Len(captureQueue) : pc'[captureQueue[k]] = "waiting"
                                          \/ (k = 1 /\ pc'[captureQueue[k]] = "capturing")
      BY <1>1, <2>6, <3>4, <3>5
    <3>7. \A u \in Task : pc'[u] \in {"waiting", "capturing"} =>
                            \E k \in 1..Len(captureQueue) : captureQueue[k] = u
      BY <1>1, <2>6 DEF TimelapseOK, CaptureLockOK
    <3>8. shot'.dir # 0
      BY <1>3, <2>1
    <3>9. QED
      BY <1>3, <2>6, <3>2, <3>3, <3>6, <3>7, <3>8 DEF CaptureLockOK
  <2>9. QED
    BY <2>3, <2>5, <2>7, <2>8 DEF TimelapseOK
<1>4. QED
  BY <1>2, <1>3 DEF BeginsCapture

LEMMA SameNumbers ==
  ASSUME NEW a \in Nat, NEW b \in Nat, 1..a = 1..b
  PROVE  a = b
<1>1. Cardinality(1..a) = a /\ Cardinality(1..b) = b
  BY FS_Interval
<1>2. QED
  BY <1>1

(* The captured frame is the last one; where it counts, the count goes on. *)
LEMMA CapturedKeeps ==
  ASSUME TimelapseOK, NEW t \in Request, Captured(t)
  PROVE  TimelapseOK'
<1>0. PICK d, k, n, f : /\ d = shot.dir /\ k = shot.number /\ n = Len(home) + 1
                        /\ f = WithFile(dirs[d].files, k, n)
  OBVIOUS
<1>1. /\ UNCHANGED <<rendering, videos, overlapped>> /\ pc[t] = "capturing" /\ dirs[d].there
      /\ home' = Append(home, d) /\ shot' = NoShot /\ EndsCapture(t)
      /\ currentJob' = IF shot.own THEN [currentJob EXCEPT !.framecount = @ + 1] ELSE currentJob
      /\ t \in Task /\ t # "timer" /\ t # "worker" /\ "timer" \in Task /\ "worker" \in Task
  BY <1>0, RequestIsNoTimer DEF Captured, renderVars
<1>2. d \in Job /\ d # 0 /\ k \in Nat /\ shot.own \in BOOLEAN
  BY <1>0, <1>1 DEF TimelapseOK, DirTypes, CaptureLockOK
<1>3. home \in Seq(Nat) /\ Len(home) \in Nat /\ n \in Nat /\ DOMAIN home = 1..Len(home)
  BY <1>0 DEF TimelapseOK, DirTypes
<1>4. /\ dirs[d].files \in FileMap /\ f \in FileMap /\ DOMAIN f = DOMAIN dirs[d].files \cup {k}
      /\ f[k] = n /\ \A i \in DOMAIN dirs[d].files : i # k => f[i] = dirs[d].files[i]
  <2>1. dirs[d].files \in FileMap
    BY <1>2, DirFacts DEF TimelapseOK
  <2>2. PICK old : old = dirs[d].files
    OBVIOUS
  <2>3. old \in FileMap /\ k \in Nat /\ n \in Nat /\ f = WithFile(old, k, n)
    BY <1>0, <1>2, <1>3, <2>1, <2>2
  <2>4. WithFile(old, k, n) \in FileMap /\ DOMAIN WithFile(old, k, n) = DOMAIN old \cup {k}
    BY <2>3, FileAdded
  <2>5. /\ WithFile(old, k, n)[k] = n
        /\ \A i \in DOMAIN old : i # k => WithFile(old, k, n)[i] = old[i]
    BY <2>3, FileAdded
  <2>6. QED
    BY <2>2, <2>3, <2>4, <2>5
<1>5. dirs' = [dirs EXCEPT ![d].files = f]
  <2>1. Len(home') = n
    BY <1>0, <1>1, <1>3
  <2>2. QED
    BY <1>0, <2>1 DEF Captured
<1>6. /\ dirs' \in Seq(FrameDir) /\ DOMAIN dirs' = DOMAIN dirs
      /\ dirs'[d].files = f /\ dirs'[d].there = dirs[d].there
      /\ \A e \in Job : e # d => dirs'[e] = dirs[e]
  BY <1>2, <1>4, <1>5, FilesChanged DEF TimelapseOK
<1>7. /\ home' \in Seq(Nat) /\ DOMAIN home' = 1..n /\ home'[n] = d /\ 0 \notin Job
      /\ \A m \in DOMAIN home : home'[m] = home[m]
  BY <1>0, <1>1, <1>2, <1>3, DirFacts DEF TimelapseOK, Job
<1>8. /\ currentJob' \in [dir : {0} \cup Job, framecount : Nat]
      /\ currentJob'.dir = currentJob.dir /\ (currentJob.dir = 0 => currentJob' = NoJobYet)
      /\ currentJob'.framecount = IF shot.own THEN currentJob.framecount + 1
                                  ELSE currentJob.framecount
  <2>1. /\ currentJob \in [dir : {0} \cup Job, framecount : Nat]
        /\ (currentJob.dir = 0 => currentJob = NoJobYet) /\ (shot.own => shot.dir = currentJob.dir)
    BY DEF TimelapseOK, DirTypes
  <2>2. QED
    BY <1>0, <1>1, <1>2, <2>1
<1>9. /\ NoShot \in [dir : {0} \cup Job, number : Nat, own : BOOLEAN]
      /\ NoShot.own = FALSE /\ NoShot.dir = 0
  BY DEF NoShot
<1>10. \A m \in DOMAIN home' : home'[m] \in Job
  <2>1. \A m \in DOMAIN home : home[m] \in Job
    BY DEF TimelapseOK, DirTypes
  <2>2. \A m \in 1..n : m \in DOMAIN home \/ m = n
    BY <1>0, <1>3
  <2>3. QED
    BY <1>2, <1>7, <2>1, <2>2
<1>11. DirTypes'
  <2>1. Job' = Job
    BY <1>6 DEF Job
  <2>2. /\ rendering \in [dir : {0} \cup Job, dupe : Nat, frames : SUBSET Nat]
        /\ (rendering.dir = 0 => rendering = NoRender)
    BY DEF TimelapseOK, DirTypes
  <2>3. QED
    BY <1>1, <1>6, <1>7, <1>8, <1>9, <1>10, <2>1, <2>2 DEF DirTypes
<1>12. EmptyOK'
  BY <1>1, <1>6 DEF TimelapseOK, EmptyOK, Job
<1>13. CaptureLockOK' /\ RenderFlagOK'
  <2>1. CaptureLockOK'
    BY <1>1, CaptureEnds DEF TimelapseOK
  <2>2. \A u \in Task : pc'[u] = IF u = t THEN "idle" ELSE pc[u]
    BY <1>1 DEF EndsCapture, Goes, TimelapseOK, CaptureLockOK
  <2>3. QED
    BY <1>1, <2>1, <2>2 DEF TimelapseOK, RenderFlagOK
<1>14. d \notin overlapped =>
         /\ k # 0 /\ Numbered(d, k - 1) /\ rendering.dir # d
         /\ shot.own <=> currentJob.dir = d
  BY <1>0, <1>1, <1>2 DEF TimelapseOK, CountsOK, CountOK, ShotCount
<1>15. ASSUME NEW e \in Job \ overlapped PROVE CountOK(e)'
  <2>1. CountOK(e)
    BY DEF TimelapseOK, CountsOK
  <2>2. ShotCount(e)'
    BY <1>1, <1>7, <1>9 DEF ShotCount
  <2>3. CASE e = d
    <3>1. Numbered(d, k)'
      BY <1>2, <1>4, <1>6, <1>14, <2>3 DEF Numbered
    <3>2. ASSUME JobCount(d), currentJob.dir = d PROVE currentJob'.framecount = k
      <4>1. Numbered(d, currentJob.framecount) /\ Numbered(d, k - 1)
        BY <1>1, <1>14, <2>3, <3>2 DEF JobCount
      <4>2. currentJob.framecount \in Nat /\ k - 1 \in Nat
        BY <1>2, <1>14, <2>3 DEF TimelapseOK, DirTypes
      <4>3. currentJob.framecount = k - 1
        BY <4>1, <4>2, SameNumbers DEF Numbered
      <4>4. QED
        BY <1>2, <1>8, <1>14, <2>3, <3>2, <4>3
    <3>3. JobCount(d)'
      BY <1>8, <2>1, <2>3, <3>1, <3>2 DEF CountOK, JobCount
    <3>4. RenderCount(d)'
      BY <1>1, <1>14, <2>3 DEF RenderCount
    <3>5. QED
      BY <1>2, <2>2, <2>3, <3>1, <3>3, <3>4 DEF CountOK
  <2>4. CASE e # d
    <3>1. dirs'[e] = dirs[e]
      BY <1>6, <2>4
    <3>2. currentJob'.dir = e => currentJob' = currentJob
      BY <1>0, <1>1, <1>8, <2>4 DEF TimelapseOK, DirTypes
    <3>3. QED
      BY <1>1, <2>1, <2>2, <3>1, <3>2 DEF CountOK, JobCount, RenderCount, Numbered
  <2>5. QED
    BY <2>3, <2>4
<1>16. CountsOK'
  BY <1>1, <1>6, <1>15 DEF CountsOK, Job
<1>17. FramesKept'
  <2>1. /\ \A e \in Job : Frames(e) = DOMAIN dirs[e].files
        /\ \A e \in Job : Frames(e)' = DOMAIN dirs'[e].files
    BY <1>6, <1>11, <1>12, FramesThere, FramesThereNext DEF TimelapseOK, Job
  <2>2. ASSUME NEW m \in 1..n, NEW h \in Job, home'[m] = h, h \notin overlapped, m \notin videos
        PROVE  \E i \in Frames(h)' : dirs'[h].files[i] = m
    <3>1. CASE m = n
      BY <1>2, <1>4, <1>6, <1>7, <2>1, <2>2, <3>1
    <3>2. CASE m # n
      <4>1. m \in DOMAIN home /\ home[m] = h
        BY <1>0, <1>3, <1>7, <2>2, <3>2
      <4>2. PICK i \in DOMAIN dirs[h].files : dirs[h].files[i] = m
        BY <2>1, <2>2, <4>1 DEF TimelapseOK, FramesKept
      <4>3. CASE h = d
        <5>1. i # k
          BY <1>2, <1>14, <2>2, <4>2, <4>3 DEF Numbered
        <5>2. i \in DOMAIN f /\ f[i] = m
          BY <1>4, <4>2, <4>3, <5>1
        <5>3. QED
          BY <1>2, <1>6, <2>1, <4>3, <5>2
      <4>4. CASE h # d
        <5>1. dirs'[h] = dirs[h]
          BY <1>6, <4>4
        <5>2. QED
          BY <2>1, <4>2, <5>1
      <4>5. QED
        BY <4>3, <4>4
    <3>3. QED
      BY <3>1, <3>2
  <2>3. QED
    BY <1>1, <1>7, <1>10, <2>2 DEF FramesKept
<1>18. QED
  BY <1>11, <1>12, <1>13, <1>16, <1>17 DEF TimelapseOK

(* A file of the captured number is removed, which no frame has. *)
LEMMA CaptureFailsKeeps ==
  ASSUME TimelapseOK, NEW t \in Request, CaptureFails(t)
  PROVE  TimelapseOK'
<1>0. PICK d, k : d = shot.dir /\ k = shot.number
  OBVIOUS
<1>1. /\ UNCHANGED <<currentJob, rendering, home, videos, overlapped>> /\ pc[t] = "capturing"
      /\ shot' = NoShot /\ EndsCapture(t)
      /\ t \in Task /\ t # "timer" /\ t # "worker" /\ "timer" \in Task /\ "worker" \in Task
  BY <1>0, RequestIsNoTimer DEF CaptureFails, renderVars, frameVars
<1>2. d \in Job /\ d # 0 /\ k \in Nat
  BY <1>0, <1>1 DEF TimelapseOK, DirTypes, CaptureLockOK
<1>3. /\ ~shot'.own /\ shot'.dir = 0
      /\ shot' \in [dir : {0} \cup Job, number : Nat, own : BOOLEAN]
  BY <1>1 DEF NoShot
<1>4. CaptureLockOK' /\ RenderFlagOK'
  <2>1. CaptureLockOK'
    BY <1>1, CaptureEnds DEF TimelapseOK
  <2>2. \A u \in Task : pc'[u] = IF u = t THEN "idle" ELSE pc[u]
    BY <1>1 DEF EndsCapture, Goes, TimelapseOK, CaptureLockOK
  <2>3. QED
    BY <1>1, <2>1, <2>2 DEF TimelapseOK, RenderFlagOK
<1>5. CASE dirs' = dirs
  <2>1. DirTypes'
    BY <1>1, <1>3, <1>5 DEF TimelapseOK, DirTypes, Job
  <2>2. \A e \in Job \ overlapped : JobCount(e)' /\ ShotCount(e)'
    <3>1. 0 \notin Job
      BY DirFacts DEF TimelapseOK
    <3>2. QED
      BY <1>1, <1>3, <1>5, <3>1 DEF TimelapseOK, CountsOK, CountOK, JobCount, ShotCount, Numbered
  <2>3. EmptyOK' /\ CountsOK' /\ FramesKept'
    <3>1. Job' = Job
      BY <1>5 DEF Job
    <3>2. QED
      BY <1>1, <1>5, <2>2, <3>1, SameFilesKeep
  <2>4. QED
    BY <1>4, <2>1, <2>3 DEF TimelapseOK
<1>6. CASE dirs[d].there /\ dirs' = [dirs EXCEPT ![d].files = WithoutFile(@, k)]
  <2>0. PICK f : f = WithoutFile(dirs[d].files, k)
    OBVIOUS
  <2>1. /\ dirs[d].files \in FileMap /\ f \in FileMap /\ DOMAIN f = DOMAIN dirs[d].files \ {k}
        /\ \A i \in DOMAIN dirs[d].files : i # k => f[i] = dirs[d].files[i]
    BY <1>2, <2>0, DirFacts, FileGone DEF TimelapseOK
  <2>2. dirs' = [dirs EXCEPT ![d].files = f]
    BY <1>6, <2>0
  <2>3. /\ dirs' \in Seq(FrameDir) /\ DOMAIN dirs' = DOMAIN dirs
        /\ dirs'[d].files = f /\ dirs'[d].there = dirs[d].there
        /\ \A e \in Job : e # d => dirs'[e] = dirs[e]
    BY <1>2, <2>1, <2>2, FilesChanged DEF TimelapseOK
  <2>4. DirTypes'
    BY <1>1, <1>3, <2>3 DEF TimelapseOK, DirTypes, Job
  <2>5. EmptyOK'
    BY <1>6, <2>3 DEF TimelapseOK, EmptyOK, Job
  <2>6. ASSUME d \notin overlapped PROVE DOMAIN f = DOMAIN dirs[d].files /\ k \notin DOMAIN f
    <3>1. k # 0 /\ Numbered(d, k - 1)
      BY <1>0, <1>2, <1>6, <2>6 DEF TimelapseOK, CountsOK, CountOK, ShotCount
    <3>2. QED
      BY <1>2, <2>1, <3>1 DEF Numbered
  <2>7. ASSUME NEW e \in Job \ overlapped PROVE CountOK(e)'
    <3>1. CountOK(e)
      BY DEF TimelapseOK, CountsOK
    <3>2. ShotCount(e)'
      BY <1>3, DirFacts DEF ShotCount, TimelapseOK
    <3>3. \A m : Numbered(e, m)' <=> Numbered(e, m)
      BY <2>3, <2>6 DEF Numbered
    <3>4. JobCount(e)'
      BY <1>1, <2>3, <3>1, <3>3 DEF CountOK, JobCount
    <3>5. RenderCount(e)'
      <4>1. CASE e = d
        BY <1>0, <1>1, <1>6, <3>1, <4>1 DEF CountOK, ShotCount, RenderCount
      <4>2. CASE e # d
        BY <1>1, <2>3, <3>1, <3>3, <4>2 DEF CountOK, RenderCount
      <4>3. QED
        BY <4>1, <4>2
    <3>6. QED
      BY <3>1, <3>2, <3>3, <3>4, <3>5 DEF CountOK
  <2>8. CountsOK'
    BY <1>1, <2>3, <2>7 DEF CountsOK, Job
  <2>9. FramesKept'
    <3>1. \A e \in Job : /\ Frames(e) = DOMAIN dirs[e].files
                         /\ Frames(e)' = DOMAIN dirs'[e].files
      BY <2>3, <2>4, <2>5, FramesThere, FramesThereNext DEF TimelapseOK, Job
    <3>2. ASSUME NEW m \in DOMAIN home, NEW h \in Job, home[m] = h,
                 h \notin overlapped, m \notin videos
          PROVE  \E i \in Frames(h)' : dirs'[h].files[i] = m
      <4>1. PICK i \in DOMAIN dirs[h].files : dirs[h].files[i] = m
        BY <3>1, <3>2 DEF TimelapseOK, FramesKept
      <4>2. CASE h = d
        <5>1. i \in DOMAIN f /\ i # k
          BY <2>6, <3>2, <4>1, <4>2
        <5>2. f[i] = m
          BY <2>1, <4>1, <4>2, <5>1
        <5>3. QED
          BY <2>3, <3>1, <4>2, <5>1, <5>2
      <4>3. CASE h # d
        <5>1. dirs'[h] = dirs[h]
          BY <2>3, <4>3
        <5>2. QED
          BY <3>1, <4>1, <5>1
      <4>4. QED
        BY <4>2, <4>3
    <3>3. \A m \in DOMAIN home : home[m] \in Job
      BY DEF TimelapseOK, DirTypes
    <3>4. QED
      BY <1>1, <3>2, <3>3 DEF FramesKept
  <2>10. QED
    BY <1>4, <2>4, <2>5, <2>8, <2>9 DEF TimelapseOK
<1>7. QED
  BY <1>0, <1>5, <1>6 DEF CaptureFails

(* A job that is rendered is over. *)
LEMMA JobIsOver ==
  ASSUME TimelapseOK, NEW d \in Job,
         IF currentJob.dir = d THEN SetJob(NoJobYet) ELSE UNCHANGED <<currentJob, shot>>
  PROVE  /\ currentJob' \in [dir : {0} \cup Job, framecount : Nat]
         /\ currentJob'.dir = 0 => currentJob' = NoJobYet
         /\ shot' \in [dir : {0} \cup Job, number : Nat, own : BOOLEAN]
         /\ shot'.own => shot'.dir = currentJob'.dir
         /\ currentJob'.dir # d /\ shot'.dir = shot.dir /\ shot'.number = shot.number
         /\ \A e \in Job : e # d => /\ currentJob'.dir = e => currentJob' = currentJob
                                    /\ currentJob'.dir = e <=> currentJob.dir = e
                                    /\ currentJob.dir = e => shot'.own = shot.own
                                    /\ ~shot.own => ~shot'.own
<1>1. 0 \notin Job
  BY DirFacts DEF TimelapseOK
<1>2. CASE currentJob.dir = d
  <2>1. /\ currentJob' = NoJobYet /\ NoJobYet \in [dir : {0} \cup Job, framecount : Nat]
        /\ NoJobYet.dir = 0
    BY <1>2 DEF SetJob, NoJobYet
  <2>2. shot' = [shot EXCEPT !.own = FALSE] /\ shot \in [dir : {0} \cup Job, number : Nat, own : BOOLEAN]
        /\ (shot.own => shot.dir = d)
    BY <1>2 DEF SetJob, TimelapseOK, DirTypes
  <2>3. /\ shot' \in [dir : {0} \cup Job, number : Nat, own : BOOLEAN] /\ ~shot'.own
        /\ shot'.dir = shot.dir /\ shot'.number = shot.number
    BY <2>2
  <2>4. QED
    BY <1>1, <1>2, <2>1, <2>3
<1>3. CASE currentJob.dir # d
  BY <1>1, <1>3 DEF TimelapseOK, DirTypes
<1>4. QED
  BY <1>2, <1>3

LEMMA RenderFlagGoes ==
  ASSUME TimelapseOK, NEW t \in {"timer", "worker"}, pc[t] = "rendering" \/ rendering = NoRender,
         rendering' = NoRender,
         DOMAIN pc' = Task, \A u \in Task : u # t => pc'[u] = pc[u], pc'[t] \in {"render", "idle"}
  PROVE  RenderFlagOK'
<1>1. {"timer", "worker"} \subseteq Task
  BY DEF Task, Background
<1>2. RenderFlagOK
  BY DEF TimelapseOK
<1>3. \A u \in Task : u # t => pc[u] # "rendering"
  <2>1. CASE pc[t] = "rendering"
    BY <1>2, <2>1 DEF RenderFlagOK
  <2>2. CASE rendering = NoRender
    BY <1>2, <2>2 DEF RenderFlagOK, NoRender
  <2>3. QED
    BY <2>1, <2>2
<1>4. \A u \in Task : pc'[u] # "rendering"
  BY <1>3
<1>5. QED
  BY <1>1, <1>4 DEF RenderFlagOK

LEMMA RendersPlaces ==
  ASSUME TimelapseOK, NEW t \in {"timer", "worker"}, NEW d, EndsRender(t, d)
  PROVE  /\ DOMAIN pc' = Task /\ \A u \in Task : u # t => pc'[u] = pc[u]
         /\ pc'[t] \in {"render", "idle"} /\ t \in Task /\ t \in Background
<1>1. t \in Task /\ t \in Background
  BY DEF Task, Background
<1>2. DOMAIN pc = Task
  BY DEF TimelapseOK, CaptureLockOK
<1>3. QED
  BY <1>1, <1>2 DEF EndsRender, Goes

(* A directory goes whose frames are in videos. *)
LEMMA DirGoes ==
  ASSUME TimelapseOK, NEW d \in Job, dirs' = [dirs EXCEPT ![d] = NoDir],
         home' = home, overlapped' = overlapped, rendering' = NoRender, videos \subseteq videos',
         \A e \in Job \ overlapped : e # d => JobCount(e)' /\ ShotCount(e)',
         d \notin overlapped => \A k \in Frames(d) : dirs[d].files[k] \in videos'
  PROVE  EmptyOK' /\ CountsOK' /\ FramesKept'
<1>1. /\ dirs' \in Seq(FrameDir) /\ DOMAIN dirs' = DOMAIN dirs /\ dirs'[d] = NoDir /\ Job' = Job
      /\ \A e \in Job : e # d => dirs'[e] = dirs[e]
  BY NoFiles, DirChanged DEF TimelapseOK, Job
<1>2. EmptyOK'
  BY <1>1, NoFiles DEF TimelapseOK, EmptyOK
<1>3. ASSUME NEW e \in Job \ overlapped PROVE CountOK(e)'
  <2>1. RenderCount(e)'
    <3>1. rendering'.dir # e
      BY DirFacts DEF TimelapseOK, NoRender
    <3>2. QED
      BY <3>1 DEF RenderCount
  <2>2. CASE e = d
    <3>1. Numbered(d, 0)'
      BY <1>1, NoFiles DEF Numbered
    <3>2. JobCount(d)' /\ ShotCount(d)'
      BY <1>1, NoFiles DEF JobCount, ShotCount
    <3>3. QED
      BY <2>1, <2>2, <3>1, <3>2 DEF CountOK
  <2>3. CASE e # d
    <3>1. CountOK(e)
      BY DEF TimelapseOK, CountsOK
    <3>2. PICK n \in Nat : Numbered(e, n)
      BY <3>1 DEF CountOK
    <3>3. Numbered(e, n)'
      BY <1>1, <2>3, <3>2 DEF Numbered
    <3>4. QED
      BY <2>1, <2>3, <3>3 DEF CountOK
  <2>4. QED
    BY <2>2, <2>3
<1>4. CountsOK'
  BY <1>1, <1>3 DEF CountsOK
<1>5. ASSUME NEW n \in DOMAIN home, NEW h \in Job, home[n] = h, h \notin overlapped, n \notin videos'
      PROVE  \E k \in Frames(h)' : dirs'[h].files[k] = n
  <2>1. \E k \in Frames(h) : dirs[h].files[k] = n
    BY <1>5 DEF TimelapseOK, FramesKept
  <2>2. h # d
    BY <1>5, <2>1
  <2>3. dirs'[h] = dirs[h]
    BY <1>1, <2>2
  <2>4. QED
    BY <2>1, <2>3 DEF Frames, Exists
<1>6. \A n \in DOMAIN home : home[n] \in Job
  BY DEF TimelapseOK, DirTypes
<1>7. FramesKept'
  BY <1>5, <1>6 DEF FramesKept
<1>8. QED
  BY <1>2, <1>4, <1>7

(* The last of the frames is copied to the number after it. *)
LEMMA FrameCopiedKeeps ==
  ASSUME TimelapseOK, NEW t \in {"timer", "worker"}, NEW d \in Job, NEW last \in Frames(d), NEW dupe,
         dupe = Cardinality(Frames(d)) + 1, LastFrameCopied(d, last, dupe),
         rendering = NoRender, Goes(t, "rendering"), overlapped' = Met(d, shot.dir),
         UNCHANGED <<currentJob, captureQueue, shot, home, videos>>
  PROVE  TimelapseOK'
<1>0. PICK old, f : old = dirs[d].files /\ f = WithFile(old, dupe, old[last])
  OBVIOUS
<1>1. /\ Frames(d) = DOMAIN old /\ IsFiniteSet(DOMAIN old) /\ old \in FileMap /\ last \in DOMAIN old
      /\ DOMAIN old \subseteq Nat /\ (\A k \in DOMAIN old : old[k] \in Nat)
      /\ 0 \notin Job /\ dirs[d].there
  <2>1. old \in FileMap /\ Frames(d) = DOMAIN old /\ 0 \notin Job /\ dirs[d].there
    BY <1>0, DirFacts, FramesThere DEF TimelapseOK, Frames, Exists
  <2>2. DOMAIN old \subseteq Nat /\ IsFiniteSet(DOMAIN old) /\ old \in [DOMAIN old -> Nat]
    BY <2>1 DEF FileMap
  <2>3. QED
    BY <2>1, <2>2
<1>2. Cardinality(DOMAIN old) \in Nat /\ dupe \in Nat /\ old[last] \in Nat
  BY <1>1, FS_CardinalityType
<1>3. /\ f \in FileMap /\ DOMAIN f = DOMAIN old \cup {dupe} /\ f[dupe] = old[last]
      /\ \A i \in DOMAIN old : i # dupe => f[i] = old[i]
  <2>1. PICK x : x = old[last]
    OBVIOUS
  <2>2. old \in FileMap /\ dupe \in Nat /\ x \in Nat /\ f = WithFile(old, dupe, x)
    BY <1>0, <1>1, <1>2, <2>1
  <2>3. WithFile(old, dupe, x) \in FileMap /\ DOMAIN WithFile(old, dupe, x) = DOMAIN old \cup {dupe}
    BY <2>2, FileAdded
  <2>4. /\ WithFile(old, dupe, x)[dupe] = x
        /\ \A i \in DOMAIN old : i # dupe => WithFile(old, dupe, x)[i] = old[i]
    BY <2>2, FileAdded
  <2>5. QED
    BY <2>1, <2>2, <2>3, <2>4
<1>4. dirs' = [dirs EXCEPT ![d].files = f]
  BY <1>0 DEF LastFrameCopied
<1>5. /\ dirs' \in Seq(FrameDir) /\ DOMAIN dirs' = DOMAIN dirs /\ Job' = Job
      /\ dirs'[d].files = f /\ dirs'[d].there = dirs[d].there
      /\ \A e \in Job : e # d => dirs'[e] = dirs[e]
  BY <1>3, <1>4, FilesChanged DEF TimelapseOK, Job
<1>6. rendering' = [dir |-> d, dupe |-> dupe, frames |-> {old[k] : k \in DOMAIN old}]
  BY <1>0, <1>1 DEF LastFrameCopied
<1>7. /\ rendering'.dir = d /\ rendering'.dupe = dupe
      /\ rendering'.frames = {old[k] : k \in DOMAIN old}
      /\ rendering' \in [dir : {0} \cup Job, dupe : Nat, frames : SUBSET Nat]
  BY <1>1, <1>2, <1>6
<1>8. DirTypes'
  BY <1>1, <1>5, <1>7 DEF TimelapseOK, DirTypes
<1>9. EmptyOK'
  BY <1>1, <1>5 DEF TimelapseOK, EmptyOK
<1>10. CaptureLockOK' /\ RenderFlagOK'
  <2>1. /\ DOMAIN pc' = Task /\ \A u \in Task : pc'[u] = IF u = t THEN "rendering" ELSE pc[u]
        /\ {"timer", "worker"} \subseteq Task /\ t \in Background
    BY DEF Goes, TimelapseOK, CaptureLockOK, Task, Background
  <2>2. CaptureLockOK'
    <3>1. \A u \in Task : pc'[u] = pc[u]
                          \/ (u \in Background /\ pc'[u] \notin {"waiting", "capturing"})
      BY <2>1
    <3>2. QED
      BY <2>1, <3>1, LockStays DEF TimelapseOK
  <2>3. \A u \in Task : pc[u] # "rendering"
    BY DEF TimelapseOK, RenderFlagOK, NoRender
  <2>4. rendering'.dir # 0
    BY <1>1, <1>7
  <2>5. RenderFlagOK'
    BY <2>1, <2>3, <2>4 DEF RenderFlagOK
  <2>6. QED
    BY <2>2, <2>5
<1>11. overlapped \subseteq overlapped' /\ (d \notin overlapped' => d # shot.dir /\ d \notin overlapped)
  BY DEF Met
<1>12. ASSUME d \notin overlapped
       PROVE  /\ dupe > 1 /\ DOMAIN old = 1..(dupe - 1) /\ last = dupe - 1
              /\ DOMAIN f = 1..dupe /\ f[dupe] = f[dupe - 1] /\ dupe \notin DOMAIN old
              /\ \A k \in 1..(dupe - 1) : f[k] = old[k]
  <2>1. PICK n \in Nat : DOMAIN old = 1..n
    BY <1>0, <1>12 DEF TimelapseOK, CountsOK, CountOK, Numbered
  <2>2. Cardinality(1..n) = n
    BY <2>1, FS_Interval
  <2>3. dupe = n + 1 /\ last \in 1..n
    BY <1>1, <2>1, <2>2
  <2>4. last = n
    <3>1. \A k \in 1..n : k <= last
      BY <1>1, <2>1 DEF LastFrameCopied
    <3>2. n \in 1..n
      BY <2>1, <2>3
    <3>3. QED
      BY <2>1, <2>3, <3>1, <3>2
  <2>5. dupe > 1 /\ dupe - 1 = n /\ dupe \notin DOMAIN old /\ DOMAIN f = 1..dupe
    BY <1>3, <2>1, <2>3
  <2>6. \A k \in 1..n : f[k] = old[k]
    BY <1>3, <2>1, <2>5
  <2>7. QED
    BY <1>3, <2>1, <2>3, <2>4, <2>5, <2>6
<1>13. ASSUME NEW e \in Job \ overlapped' PROVE CountOK(e)'
  <2>1. CountOK(e)
    BY <1>11 DEF TimelapseOK, CountsOK
  <2>2. CASE e = d
    <3>1. d \notin overlapped /\ shot'.dir # d
      BY <1>11, <1>13, <2>2
    <3>2. Numbered(d, dupe)'
      BY <1>5, <1>12, <3>1 DEF Numbered
    <3>3. {old[k] : k \in DOMAIN old} = {f[k] : k \in 1..(dupe - 1)}
      BY <1>12, <3>1
    <3>4. RenderCount(d)'
      <4>1. dirs'[d].there
        BY <1>1, <1>5
      <4>2. rendering'.frames = {f[k] : k \in 1..(dupe - 1)}
        BY <1>7, <3>3
      <4>3. dupe > 1 /\ f[dupe] = f[dupe - 1]
        BY <1>12, <3>1
      <4>4. QED
        BY <1>5, <1>7, <1>12, <3>1, <4>1, <4>2, <4>3 DEF RenderCount, Numbered
    <3>5. JobCount(d)' /\ ShotCount(d)'
      BY <1>7, <3>1 DEF JobCount, ShotCount
    <3>6. QED
      BY <1>2, <2>2, <3>2, <3>4, <3>5 DEF CountOK
  <2>3. CASE e # d
    <3>1. rendering.dir # e /\ rendering'.dir # e /\ dirs'[e] = dirs[e]
      BY <1>1, <1>5, <1>7, <2>3 DEF NoRender
    <3>2. QED
      BY <2>1, <3>1 DEF CountOK, JobCount, ShotCount, RenderCount, Numbered
  <2>4. QED
    BY <2>2, <2>3
<1>14. CountsOK'
  BY <1>5, <1>13 DEF CountsOK
<1>15. ASSUME NEW m \in DOMAIN home, NEW h \in Job, home[m] = h, h \notin overlapped', m \notin videos
       PROVE  \E i \in Frames(h)' : dirs'[h].files[i] = m
  <2>1. PICK i \in Frames(h) : dirs[h].files[i] = m
    BY <1>11, <1>15 DEF TimelapseOK, FramesKept
  <2>2. CASE h = d
    <3>1. i \in DOMAIN old /\ i # dupe /\ old[i] = m
      BY <1>0, <1>1, <1>11, <1>12, <1>15, <2>1, <2>2
    <3>2. i \in DOMAIN f /\ f[i] = m
      BY <1>3, <3>1
    <3>3. QED
      BY <1>5, <1>8, <1>9, <2>2, <3>2, FramesThereNext
  <2>3. CASE h # d
    <3>1. dirs'[h] = dirs[h]
      BY <1>5, <2>3
    <3>2. QED
      BY <2>1, <3>1 DEF Frames, Exists
  <2>4. QED
    BY <2>2, <2>3
<1>16. FramesKept'
  <2>1. \A m \in DOMAIN home : home[m] \in Job
    BY DEF TimelapseOK, DirTypes
  <2>2. QED
    BY <1>15, <2>1 DEF FramesKept
<1>17. QED
  BY <1>8, <1>9, <1>10, <1>14, <1>16 DEF TimelapseOK

(* A render is skipped, or a directory without frames goes, or its frames are rendered. *)
LEMMA BeginsRenderKeeps ==
  ASSUME TimelapseOK, NEW t \in {"timer", "worker"}, NEW d \in Job, BeginsRender(t, d)
  PROVE  TimelapseOK'
<1>1. /\ UNCHANGED <<currentJob, captureQueue, shot, home, videos>> /\ pc[t] = "render"
      /\ t \in Task /\ t \in Background /\ DOMAIN pc = Task
  BY DEF BeginsRender, captureVars, Task, Background, TimelapseOK, CaptureLockOK
<1>2. CASE rendering # NoRender /\ EndsRender(t, d) /\ UNCHANGED <<dirs, rendering, overlapped>>
  <2>1. /\ DOMAIN pc' = Task /\ \A u \in Task : u # t => pc'[u] = pc[u]
        /\ pc'[t] \in {"render", "idle"}
    BY <1>2, RendersPlaces
  <2>2. \A u \in Task : \/ pc'[u] = pc[u]
                        \/ u \in Background /\ pc'[u] \notin {"waiting", "capturing", "rendering"}
    BY <1>1, <2>1
  <2>3. QED
    BY <1>1, <1>2, <2>1, <2>2, PlacesKeep
<1>3. CASE /\ rendering = NoRender /\ Frames(d) = {} /\ EndsRender(t, d)
           /\ dirs' = [dirs EXCEPT ![d] = NoDir] /\ UNCHANGED <<rendering, overlapped>>
  <2>1. /\ DOMAIN pc' = Task /\ \A u \in Task : u # t => pc'[u] = pc[u]
        /\ pc'[t] \in {"render", "idle"}
    BY <1>3, RendersPlaces
  <2>2. RenderFlagOK'
    BY <1>3, <2>1, RenderFlagGoes
  <2>3. CaptureLockOK'
    <3>1. \A u \in Task : pc'[u] = pc[u]
                          \/ (u \in Background /\ pc'[u] \notin {"waiting", "capturing"})
      BY <1>1, <2>1
    <3>2. QED
      BY <1>1, <2>1, <3>1, LockStays DEF TimelapseOK
  <2>4. /\ dirs' \in Seq(FrameDir) /\ DOMAIN dirs' = DOMAIN dirs /\ Job' = Job
        /\ \A e \in Job : e # d => dirs'[e] = dirs[e]
    BY <1>3, NoFiles, DirChanged DEF TimelapseOK, Job
  <2>5. DirTypes'
    BY <1>1, <1>3, <2>4 DEF TimelapseOK, DirTypes
  <2>6. \A e \in Job \ overlapped : e # d => JobCount(e)' /\ ShotCount(e)'
    BY <1>1, <1>3, <2>4 DEF TimelapseOK, CountsOK, CountOK, JobCount, ShotCount, Numbered
  <2>7. EmptyOK' /\ CountsOK' /\ FramesKept'
    BY <1>1, <1>3, <2>6, DirGoes
  <2>8. QED
    BY <2>2, <2>3, <2>5, <2>7 DEF TimelapseOK
<1>4. ASSUME NEW last \in Frames(d), LastFrameCopied(d, last, Cardinality(Frames(d)) + 1),
             rendering = NoRender, Goes(t, "rendering"), overlapped' = Met(d, shot.dir)
      PROVE  TimelapseOK'
  BY <1>1, <1>4, FrameCopiedKeeps
<1>5. QED
  BY <1>2, <1>3, <1>4 DEF BeginsRender

LEMMA RenderPlaces ==
  ASSUME TimelapseOK, NEW t \in {"timer", "worker"}, pc[t] = "rendering", rendering' = NoRender,
         EndsRender(t, rendering.dir), captureQueue' = captureQueue, shot'.dir = shot.dir
  PROVE  CaptureLockOK' /\ RenderFlagOK' /\ rendering.dir \in Job
<1>1. /\ DOMAIN pc' = Task /\ \A u \in Task : u # t => pc'[u] = pc[u]
      /\ pc'[t] \in {"render", "idle"} /\ t \in Task /\ t \in Background
  BY RendersPlaces
<1>2. RenderFlagOK'
  BY <1>1, RenderFlagGoes
<1>3. \A u \in Task : pc'[u] = pc[u] \/ (u \in Background /\ pc'[u] \notin {"waiting", "capturing"})
  BY <1>1
<1>4. CaptureLockOK'
  BY <1>1, <1>3, LockStays DEF TimelapseOK
<1>5. rendering.dir \in Job
  BY <1>1 DEF TimelapseOK, RenderFlagOK, DirTypes
<1>6. QED
  BY <1>2, <1>4, <1>5

LEMMA IsRendering ==
  ASSUME TimelapseOK, NEW t \in {"timer", "worker"}, pc[t] = "rendering"
  PROVE  rendering.dir \in Job
  BY DEF TimelapseOK, RenderFlagOK, DirTypes, Task, Background

(* The others keep their counts when a job that is rendered is over. *)
LEMMA OtherCountsKeep ==
  ASSUME TimelapseOK, NEW d \in Job, rendering.dir = d, rendering' = NoRender,
         IF currentJob.dir = d THEN SetJob(NoJobYet) ELSE UNCHANGED <<currentJob, shot>>,
         \A e \in Job : e # d => dirs'[e] = dirs[e]
  PROVE  \A e \in Job \ overlapped : e # d => JobCount(e)' /\ ShotCount(e)'
<1> SUFFICES ASSUME NEW e \in Job \ overlapped, e # d PROVE JobCount(e)' /\ ShotCount(e)'
  OBVIOUS
<1>1. CountOK(e) /\ dirs'[e] = dirs[e] /\ 0 \notin Job
  BY DirFacts DEF TimelapseOK, CountsOK
<1>2. /\ currentJob'.dir = e => currentJob' = currentJob
      /\ currentJob'.dir = e <=> currentJob.dir = e
      /\ currentJob.dir = e => shot'.own = shot.own
      /\ ~shot.own => ~shot'.own
      /\ shot'.dir = shot.dir /\ shot'.number = shot.number
  BY JobIsOver
<1>3. rendering.dir # e /\ rendering'.dir # e
  BY <1>1 DEF NoRender
<1>4. JobCount(e)'
  BY <1>1, <1>2, <1>3 DEF CountOK, JobCount, Numbered
<1>5. ShotCount(e)'
  <2>1. CASE shot.dir = e /\ dirs[e].there
    <3>1. shot.number # 0 /\ Numbered(e, shot.number - 1) /\ (shot.own <=> currentJob.dir = e)
      BY <1>1, <2>1 DEF CountOK, ShotCount
    <3>2. shot'.own <=> currentJob'.dir = e
      BY <1>2, <3>1
    <3>3. QED
      BY <1>1, <1>2, <1>3, <3>1, <3>2 DEF ShotCount, Numbered
  <2>2. CASE ~(shot.dir = e /\ dirs[e].there)
    BY <1>1, <1>2, <2>2 DEF ShotCount
  <2>3. QED
    BY <2>1, <2>2
<1>6. QED
  BY <1>4, <1>5

(* The video has all the frames, as the last is twice in the directory. *)
LEMMA RenderedKeeps ==
  ASSUME TimelapseOK, NEW t \in {"timer", "worker"}, Rendered(t)
  PROVE  TimelapseOK'
<1>0. PICK d : d = rendering.dir
  OBVIOUS
<1>1. /\ pc[t] = "rendering" /\ dirs' = [dirs EXCEPT ![d] = NoDir] /\ videos' = videos \cup rendering.frames
      /\ IF currentJob.dir = d THEN SetJob(NoJobYet) ELSE UNCHANGED <<currentJob, shot>>
      /\ rendering' = NoRender /\ EndsRender(t, d)
      /\ UNCHANGED <<captureQueue, home, overlapped>>
  BY <1>0 DEF Rendered
<1>2. d \in Job
  BY <1>0, <1>1, IsRendering
<1>3. /\ currentJob' \in [dir : {0} \cup Job, framecount : Nat]
      /\ currentJob'.dir = 0 => currentJob' = NoJobYet
      /\ shot' \in [dir : {0} \cup Job, number : Nat, own : BOOLEAN]
      /\ shot'.own => shot'.dir = currentJob'.dir
      /\ shot'.dir = shot.dir
  BY <1>1, <1>2, JobIsOver
<1>4. CaptureLockOK' /\ RenderFlagOK'
  BY <1>0, <1>1, <1>3, RenderPlaces
<1>5. /\ dirs' \in Seq(FrameDir) /\ DOMAIN dirs' = DOMAIN dirs /\ Job' = Job
      /\ \A e \in Job : e # d => dirs'[e] = dirs[e]
  BY <1>1, <1>2, NoFiles, DirChanged DEF TimelapseOK, Job
<1>6. DirTypes'
  <2>1. NoRender \in [dir : {0} \cup Job, dupe : Nat, frames : SUBSET Nat]
    BY DEF NoRender
  <2>2. QED
    BY <1>1, <1>3, <1>5, <2>1 DEF TimelapseOK, DirTypes
<1>7. \A e \in Job \ overlapped : e # d => JobCount(e)' /\ ShotCount(e)'
  BY <1>0, <1>1, <1>2, <1>5, OtherCountsKeep
<1>8. ASSUME d \notin overlapped, NEW k \in Frames(d) PROVE dirs[d].files[k] \in videos'
  <2>1. RenderCount(d) /\ k \in DOMAIN dirs[d].files /\ rendering.dupe \in Nat
    BY <1>2, <1>8, FramesThere DEF TimelapseOK, CountsOK, CountOK, DirTypes
  <2>2. /\ k \in 1..rendering.dupe /\ rendering.dupe > 1
        /\ dirs[d].files[rendering.dupe] = dirs[d].files[rendering.dupe - 1]
        /\ rendering.frames = {dirs[d].files[i] : i \in 1..(rendering.dupe - 1)}
    BY <1>0, <2>1 DEF RenderCount, Numbered
  <2>3. CASE k = rendering.dupe
    <3>1. rendering.dupe - 1 \in 1..(rendering.dupe - 1)
      BY <2>1, <2>2
    <3>2. QED
      BY <1>1, <2>2, <2>3, <3>1
  <2>4. CASE k # rendering.dupe
    <3>1. k \in 1..(rendering.dupe - 1)
      BY <2>1, <2>2, <2>4
    <3>2. QED
      BY <1>1, <2>2, <3>1
  <2>5. QED
    BY <2>3, <2>4
<1>9. EmptyOK' /\ CountsOK' /\ FramesKept'
  <2>1. videos \subseteq videos'
    BY <1>1
  <2>2. QED
    BY <1>1, <1>2, <1>7, <1>8, <2>1, DirGoes
<1>10. QED
  BY <1>4, <1>6, <1>9 DEF TimelapseOK

(* The copy of the last frame is removed, and the frames are as they were. *)
LEMMA RenderFailsKeeps ==
  ASSUME TimelapseOK, NEW t \in {"timer", "worker"}, RenderFails(t)
  PROVE  TimelapseOK'
<1>0. PICK d, k, f : d = rendering.dir /\ k = rendering.dupe /\ f = WithoutFile(dirs[d].files, k)
  OBVIOUS
<1>1. /\ pc[t] = "rendering" /\ dirs' = [dirs EXCEPT ![d].files = f]
      /\ IF currentJob.dir = d THEN SetJob(NoJobYet) ELSE UNCHANGED <<currentJob, shot>>
      /\ rendering' = NoRender /\ EndsRender(t, d)
      /\ UNCHANGED <<captureQueue, home, overlapped, videos>>
  BY <1>0 DEF RenderFails, frameVars
<1>2. d \in Job /\ k \in Nat /\ 0 \notin Job
  BY <1>0, <1>1, IsRendering, DirFacts DEF TimelapseOK, DirTypes
<1>3. /\ currentJob' \in [dir : {0} \cup Job, framecount : Nat]
      /\ currentJob'.dir = 0 => currentJob' = NoJobYet
      /\ shot' \in [dir : {0} \cup Job, number : Nat, own : BOOLEAN]
      /\ shot'.own => shot'.dir = currentJob'.dir
      /\ shot'.dir = shot.dir /\ currentJob'.dir # d
  BY <1>1, <1>2, JobIsOver
<1>4. CaptureLockOK' /\ RenderFlagOK'
  BY <1>0, <1>1, <1>3, RenderPlaces
<1>5. /\ dirs[d].files \in FileMap /\ f \in FileMap /\ DOMAIN f = DOMAIN dirs[d].files \ {k}
      /\ \A i \in DOMAIN dirs[d].files : i # k => f[i] = dirs[d].files[i]
  <2>1. PICK old : old = dirs[d].files
    OBVIOUS
  <2>2. old \in FileMap /\ f = WithoutFile(old, k)
    BY <1>0, <1>2, <2>1, DirFacts DEF TimelapseOK
  <2>3. /\ WithoutFile(old, k) \in FileMap /\ DOMAIN WithoutFile(old, k) = DOMAIN old \ {k}
        /\ \A i \in DOMAIN old : i # k => WithoutFile(old, k)[i] = old[i]
    BY <2>2, FileGone
  <2>4. QED
    BY <2>1, <2>2, <2>3
<1>6. /\ dirs' \in Seq(FrameDir) /\ DOMAIN dirs' = DOMAIN dirs /\ Job' = Job
      /\ dirs'[d].files = f /\ dirs'[d].there = dirs[d].there
      /\ \A e \in Job : e # d => dirs'[e] = dirs[e]
  BY <1>1, <1>2, <1>5, FilesChanged DEF TimelapseOK, Job
<1>7. DirTypes'
  <2>1. NoRender \in [dir : {0} \cup Job, dupe : Nat, frames : SUBSET Nat]
    BY DEF NoRender
  <2>2. QED
    BY <1>1, <1>3, <1>6, <2>1 DEF TimelapseOK, DirTypes
<1>8. EmptyOK'
  BY <1>5, <1>6 DEF TimelapseOK, EmptyOK
<1>9. \A e \in Job \ overlapped : e # d => JobCount(e)' /\ ShotCount(e)'
  BY <1>0, <1>1, <1>2, <1>6, OtherCountsKeep
<1>10. ASSUME d \notin overlapped
       PROVE  /\ k > 1 /\ DOMAIN dirs[d].files = 1..k /\ DOMAIN f = 1..(k - 1) /\ dirs[d].there
              /\ dirs[d].files[k] = dirs[d].files[k - 1] /\ shot.dir # d
  <2>1. CountOK(d)
    BY <1>2, <1>10 DEF TimelapseOK, CountsOK
  <2>2. /\ k > 1 /\ DOMAIN dirs[d].files = 1..k /\ dirs[d].there
        /\ dirs[d].files[k] = dirs[d].files[k - 1]
    BY <1>0, <2>1 DEF CountOK, RenderCount, Numbered
  <2>3. shot.dir # d
    BY <1>0, <2>1, <2>2 DEF CountOK, ShotCount
  <2>4. DOMAIN f = 1..(k - 1)
    BY <1>2, <1>5, <2>2
  <2>5. QED
    BY <2>2, <2>3, <2>4
<1>11. ASSUME NEW e \in Job \ overlapped PROVE CountOK(e)'
  <2>1. RenderCount(e)'
    BY <1>1, <1>2 DEF RenderCount, NoRender
  <2>2. CASE e = d
    <3>1. Numbered(d, k - 1)' /\ k - 1 \in Nat
      BY <1>2, <1>6, <1>10, <2>2 DEF Numbered
    <3>2. JobCount(d)' /\ ShotCount(d)'
      BY <1>3, <1>10, <2>2 DEF JobCount, ShotCount
    <3>3. QED
      BY <2>1, <2>2, <3>1, <3>2 DEF CountOK
  <2>3. CASE e # d
    <3>1. PICK n \in Nat : Numbered(e, n)
      BY DEF TimelapseOK, CountsOK, CountOK
    <3>2. Numbered(e, n)'
      BY <1>6, <2>3, <3>1 DEF Numbered
    <3>3. QED
      BY <1>9, <2>1, <2>3, <3>2 DEF CountOK
  <2>4. QED
    BY <2>2, <2>3
<1>12. CountsOK'
  BY <1>1, <1>6, <1>11 DEF CountsOK
<1>13. ASSUME NEW m \in DOMAIN home, NEW h \in Job, home[m] = h, h \notin overlapped, m \notin videos
       PROVE  \E i \in Frames(h)' : dirs'[h].files[i] = m
  <2>1. PICK i \in DOMAIN dirs[h].files : dirs[h].files[i] = m
    BY <1>13, FramesThere DEF TimelapseOK, FramesKept
  <2>2. Frames(h)' = DOMAIN dirs'[h].files
    BY <1>6, <1>7, <1>8, FramesThereNext
  <2>3. CASE h = d
    <3>1. PICK j \in 1..(k - 1) : dirs[d].files[j] = m
      <4>1. CASE i = k
        <5>1. k - 1 \in 1..(k - 1)
          BY <1>2, <1>10, <1>13, <2>3
        <5>2. QED
          BY <1>10, <1>13, <2>1, <2>3, <4>1, <5>1
      <4>2. CASE i # k
        <5>1. i \in 1..(k - 1)
          BY <1>2, <1>10, <1>13, <2>1, <2>3, <4>2
        <5>2. QED
          BY <2>1, <2>3, <5>1
      <4>3. QED
        BY <4>1, <4>2
    <3>2. j \in DOMAIN f /\ f[j] = m
      BY <1>5, <1>10, <1>13, <2>3, <3>1
    <3>3. QED
      BY <1>6, <2>2, <2>3, <3>2
  <2>4. CASE h # d
    <3>1. dirs'[h] = dirs[h]
      BY <1>6, <2>4
    <3>2. QED
      BY <2>1, <2>2, <3>1
  <2>5. QED
    BY <2>3, <2>4
<1>14. FramesKept'
  <2>1. \A m \in DOMAIN home : home[m] \in Job
    BY DEF TimelapseOK, DirTypes
  <2>2. QED
    BY <1>1, <1>13, <2>1 DEF FramesKept
<1>15. QED
  BY <1>4, <1>7, <1>8, <1>12, <1>14 DEF TimelapseOK

LEMMA TimelapseKilledKeeps ==
  ASSUME TimelapseOK, TimelapseKilled
  PROVE  TimelapseOK'
<1>1. /\ UNCHANGED <<dirs, home, videos, overlapped>> /\ Job' = Job /\ 0 \notin Job
      /\ currentJob' = NoJobYet /\ shot' = NoShot /\ rendering' = NoRender
      /\ captureQueue' = <<>> /\ pc' = [t \in Task |-> "idle"]
  BY DirFacts DEF TimelapseKilled, frameVars, Job, TimelapseOK
<1>2. DirTypes'
  BY <1>1 DEF TimelapseOK, DirTypes, NoJobYet, NoShot, NoRender
<1>3. CaptureLockOK'
  <2>1. captureQueue' \in Seq(Request) /\ Len(captureQueue') = 0
    BY <1>1
  <2>2. DOMAIN pc' = Task /\ \A t \in Task : pc'[t] = "idle"
    BY <1>1
  <2>3. QED
    BY <2>1, <2>2 DEF CaptureLockOK
<1>4. RenderFlagOK'
  BY <1>1 DEF RenderFlagOK, Task, Background
<1>5. CountsOK'
  BY <1>1 DEF TimelapseOK, CountsOK, CountOK, JobCount, ShotCount, RenderCount, Numbered,
              NoJobYet, NoShot, NoRender
<1>6. EmptyOK' /\ FramesKept'
  BY <1>1 DEF TimelapseOK, EmptyOK, FramesKept, Frames, Exists
<1>7. QED
  BY <1>2, <1>3, <1>4, <1>5, <1>6 DEF TimelapseOK

LEMMA TimelapseKeeps ==
  ASSUME TimelapseOK, TimelapseNext
  PROVE  TimelapseOK'
<1>1. ASSUME NEW b \in BOOLEAN, NEW autorender \in BOOLEAN, PrintStateChanges(b, autorender)
      PROVE  TimelapseOK'
  BY <1>1, PrintStateKeeps
<1>2. CASE (\E b \in BOOLEAN : ReadyAgain(b)) \/ PrintStatsSubscribed \/ StateTaken
  <2>1. UNCHANGED <<dirs, currentJob, captureQueue, shot, rendering, home, videos, overlapped>>
    BY <1>2 DEF ReadyAgain, PrintStatsSubscribed, StateTaken, captureVars, renderVars, frameVars
  <2>2. DOMAIN pc = Task /\ {"init", "event"} \subseteq Background
    BY DEF TimelapseOK, CaptureLockOK, Background
  <2>3. /\ DOMAIN pc' = Task
        /\ \A t \in Task : \/ pc'[t] = pc[t]
                           \/ t \in Background /\ pc'[t] \notin {"waiting", "capturing", "rendering"}
    BY <1>2, <2>2 DEF ReadyAgain, PrintStatsSubscribed, StateTaken, Goes
  <2>4. QED
    BY <2>1, <2>3, PlacesKeep
<1>3. ASSUME NEW t \in Request, NEW d \in Job, AskRender(t, d)
      PROVE  TimelapseOK'
  <2>1. UNCHANGED <<dirs, currentJob, captureQueue, shot, rendering, home, videos, overlapped>>
    BY <1>3 DEF AskRender, captureVars, frameVars
  <2>2. /\ DOMAIN pc' = Task
        /\ \A u \in Task : \/ pc'[u] = pc[u]
                           \/ u \in Background /\ pc'[u] \notin {"waiting", "capturing", "rendering"}
    BY <1>3 DEF AskRender, Goes, TimelapseOK, CaptureLockOK, Background
  <2>3. QED
    BY <2>1, <2>2, PlacesKeep
<1>4. ASSUME NEW t \in Request, NewFrame(t) \/ Captures(t)
      PROVE  TimelapseOK'
  BY <1>4, NewFrameKeeps, BeginsCaptureKeeps, CapturedKeeps, CaptureFailsKeeps DEF Captures
<1>5. ASSUME NEW t \in Task, Renders(t)
      PROVE  TimelapseOK'
  BY <1>5, BeginsRenderKeeps, RenderedKeeps, RenderFailsKeeps DEF Renders
<1>6. QED
  BY <1>1, <1>2, <1>3, <1>4, <1>5, NameKnownKeeps, ReconciledKeeps, TimelapseKilledKeeps
     DEF TimelapseNext, Recovers

(***************************************************************************)
(* Files: what is queued, read or noticed of a file is newer than what is  *)
(* kept of it.                                                             *)
(***************************************************************************)
Contents == (File \X Nat) \cup {Absent}
FileEvent ==
  {e \in [kind : {"write", "delete", "move"}, file : File, from : File \cup {None}] :
     /\ e.kind = "move" <=> e.from # None
     /\ e.from # e.file}
FileNotice == [file : File, from : File \cup {None}, parse : BOOLEAN]
FileJob == [file : File, info : File \X Nat]
FileOps == {"upload", "delete", "scan", "move", "copy"}

FileTypes ==
  /\ DOMAIN pc = Task
  /\ newest \in Nat
  /\ onDisk \in [File -> Contents] /\ meta \in [File -> Contents] /\ read \in Contents
  /\ events \in Seq(FileEvent) /\ notices \in Seq(FileNotice) /\ jobs \in Seq(FileJob)
  /\ deletes \in SUBSET File /\ overtaken \in SUBSET File

FileRequestsOK ==
  /\ DOMAIN fileOp = Request
  /\ \A t \in Request : pc[t] # "idle" =>
       /\ fileOp[t] \in [what : FileOps, file : File, to : File \cup {None}]
       /\ fileOp[t].what \in {"move", "copy"} <=> fileOp[t].to # None
       /\ fileOp[t].to # fileOp[t].file
       /\ pc[t] = "copying" => fileOp[t].what \in {"move", "copy"}

(* One request at a time is under way for a file, of what is on the disk; what   *)
(* the script reads is that, too.                                                 *)
JobsOK ==
  /\ \A i, j \in DOMAIN jobs : jobs[i].file = jobs[j].file => i = j
  /\ pc["worker"] = "extracting" => jobs # <<>>
  /\ \A i \in DOMAIN jobs : jobs[i].file \notin overtaken =>
       /\ jobs[i].info = onDisk[jobs[i].file]
       /\ i = 1 /\ pc["worker"] = "extracting" => read = jobs[i].info

(* The task that sends notices is at the first of them. *)
NoticesOK ==
  /\ pc["event"] \in {"idle", "parsing", "parsed"}
  /\ pc["event"] # "idle" => notices # <<>>
  /\ pc["event"] = "parsing" => Pending(notices[1].file)

(* The last that inotify says of a file is how it is. *)
Names(e) == {e.file, e.from}
LastOf(f, i) == f \in Names(events[i]) /\ \A j \in DOMAIN events : j > i => f \notin Names(events[j])
Removes(e, f) == e.kind = "delete" \/ e.from = f
EventsOK ==
  /\ \A f \in File : \A i \in DOMAIN events :
       LastOf(f, i) => (Removes(events[i], f) <=> onDisk[f] = Absent)
  /\ \A f \in deletes : ~Unread(f) => onDisk[f] = Absent

(* What an entry of a renamed file will be when the rename is read. *)
MoveOK(i) ==
  LET f == events[i].from
      g == events[i].file
  IN g \notin overtaken /\ LastOf(g, i) =>
       /\ f \notin deletes /\ meta[f] \in {Absent, onDisk[g]}
       /\ \A j \in DOMAIN events : j < i => f \notin Names(events[j])
MovesOK == \A i \in DOMAIN events : events[i].kind = "move" => MoveOK(i)

(* An entry that nobody is about to change is current, or will be asked for. *)
WillBeParsed(f) ==
  /\ onDisk[f] # Absent
  /\ \E i \in DOMAIN notices :
       notices[i].file = f /\ notices[i].parse /\ (i = 1 => pc["event"] = "idle")
WillBeScanned(f) == meta[f] = Absent /\ \E t \in Request : pc[t] = "scanning" /\ fileOp[t].file = f
CurrentOK(f) ==
  f \notin overtaken /\ ~Unread(f) /\ f \notin deletes /\ ~Pending(f) =>
    meta[f] = onDisk[f] \/ WillBeParsed(f) \/ WillBeScanned(f)

FilesOK ==
  /\ FileTypes /\ FileRequestsOK /\ JobsOK /\ NoticesOK /\ EventsOK /\ MovesOK
  /\ \A f \in File : CurrentOK(f)

(* Sequences of files *)

LEMMA Appended ==
  ASSUME NEW S, NEW q \in Seq(S), NEW x \in S
  PROVE  /\ Append(q, x) \in Seq(S) /\ Append(q, x) # <<>>
         /\ Len(q) \in Nat /\ DOMAIN q = 1..Len(q) /\ DOMAIN Append(q, x) = 1..(Len(q) + 1)
         /\ \A i \in 1..Len(q) : Append(q, x)[i] = q[i]
         /\ Append(q, x)[Len(q) + 1] = x
<1>1. PICK r : r = Append(q, x)
  OBVIOUS
<1>2. /\ r \in Seq(S) /\ Len(r) = Len(q) + 1 /\ Len(q) \in Nat
      /\ DOMAIN q = 1..Len(q) /\ DOMAIN r = 1..Len(r)
      /\ \A i \in 1..Len(q) : r[i] = q[i]
      /\ r[Len(q) + 1] = x
  BY <1>1
<1>3. r # <<>>
  <2>1. Len(<<>>) = 0
    OBVIOUS
  <2> QED BY <1>2, <2>1
<1> QED BY <1>1, <1>2, <1>3

LEMMA FirstTaken ==
  ASSUME NEW S, NEW q \in Seq(S), q # <<>>
  PROVE  /\ q[1] \in S /\ Tail(q) \in Seq(S)
         /\ Len(q) \in Nat /\ Len(q) > 0 /\ DOMAIN q = 1..Len(q)
         /\ DOMAIN Tail(q) = 1..(Len(q) - 1)
         /\ \A i \in 1..(Len(q) - 1) : Tail(q)[i] = q[i + 1]
<1>1. Len(q) \in Nat /\ Len(q) > 0 /\ DOMAIN q = 1..Len(q)
  OBVIOUS
<1>2. PICK r : r = Tail(q)
  OBVIOUS
<1>3. /\ r \in Seq(S) /\ Len(r) = Len(q) - 1
      /\ \A i \in 1..(Len(q) - 1) : r[i] = q[i + 1]
  BY <1>1, <1>2
<1>4. DOMAIN r = 1..(Len(q) - 1)
  BY <1>3
<1>5. q[1] \in S
  BY <1>1
<1> QED BY <1>1, <1>2, <1>3, <1>4, <1>5

LEMMA UnreadAdded ==
  ASSUME FileTypes, NEW e \in FileEvent, events' = Append(events, e)
  PROVE  \A f : Unread(f)' <=> Unread(f) \/ f \in Names(e)
<1>1. events \in Seq(FileEvent)
  BY DEF FileTypes
<1>2. /\ Len(events) \in Nat /\ DOMAIN events = 1..Len(events) /\ DOMAIN events' = 1..(Len(events) + 1)
      /\ \A i \in 1..Len(events) : events'[i] = events[i]
      /\ events'[Len(events) + 1] = e
  BY <1>1, Appended
<1>3. SUFFICES ASSUME NEW f PROVE Unread(f)' <=> Unread(f) \/ f \in Names(e)
  OBVIOUS
<1>4. ASSUME NEW i \in DOMAIN events', f \in {events'[i].file, events'[i].from}
      PROVE  Unread(f) \/ f \in Names(e)
  <2>1. i \in DOMAIN events \/ i = Len(events) + 1
    BY <1>2
  <2> QED BY <1>2, <1>4, <2>1 DEF Unread, Names
<1>5. ASSUME NEW i \in DOMAIN events, f \in {events[i].file, events[i].from}
      PROVE  Unread(f)'
  BY <1>2, <1>5 DEF Unread
<1>6. f \in Names(e) => Unread(f)'
  BY <1>2 DEF Unread, Names
<1> QED BY <1>4, <1>5, <1>6 DEF Unread

LEMMA UnreadTaken ==
  ASSUME FileTypes, events # <<>>, events' = Tail(events)
  PROVE  \A f : Unread(f) <=> Unread(f)' \/ f \in Names(events[1])
<1>1. events \in Seq(FileEvent)
  BY DEF FileTypes
<1>2. /\ Len(events) \in Nat /\ Len(events) > 0
      /\ DOMAIN events = 1..Len(events) /\ DOMAIN events' = 1..(Len(events) - 1)
      /\ \A i \in 1..(Len(events) - 1) : events'[i] = events[i + 1]
  BY <1>1, FirstTaken
<1>3. SUFFICES ASSUME NEW f PROVE Unread(f) <=> Unread(f)' \/ f \in Names(events[1])
  OBVIOUS
<1>4. ASSUME NEW i \in DOMAIN events, f \in {events[i].file, events[i].from}
      PROVE  Unread(f)' \/ f \in Names(events[1])
  <2>1. CASE i = 1
    BY <1>4, <2>1 DEF Names
  <2>2. CASE i # 1
    <3>1. i - 1 \in DOMAIN events' /\ events'[i - 1] = events[(i - 1) + 1] /\ (i - 1) + 1 = i
      BY <1>2, <2>2
    <3> QED BY <1>4, <3>1 DEF Unread
  <2> QED BY <2>1, <2>2
<1>5. ASSUME NEW i \in DOMAIN events', f \in {events'[i].file, events'[i].from}
      PROVE  Unread(f)
  <2>1. i + 1 \in DOMAIN events /\ events'[i] = events[i + 1]
    BY <1>2
  <2> QED BY <1>5, <2>1 DEF Unread
<1>6. 1 \in DOMAIN events
  BY <1>2
<1> QED BY <1>4, <1>5, <1>6 DEF Unread, Names

LEMMA PendingAdded ==
  ASSUME FileTypes, NEW j \in FileJob, jobs' = Append(jobs, j)
  PROVE  \A f : Pending(f)' <=> Pending(f) \/ f = j.file
<1>1. jobs \in Seq(FileJob)
  BY DEF FileTypes
<1>2. /\ Len(jobs) \in Nat /\ DOMAIN jobs = 1..Len(jobs) /\ DOMAIN jobs' = 1..(Len(jobs) + 1)
      /\ \A i \in 1..Len(jobs) : jobs'[i] = jobs[i]
      /\ jobs'[Len(jobs) + 1] = j
  BY <1>1, Appended
<1>3. SUFFICES ASSUME NEW f PROVE Pending(f)' <=> Pending(f) \/ f = j.file
  OBVIOUS
<1>4. ASSUME NEW i \in DOMAIN jobs', jobs'[i].file = f
      PROVE  Pending(f) \/ f = j.file
  <2>1. i \in DOMAIN jobs \/ i = Len(jobs) + 1
    BY <1>2
  <2> QED BY <1>2, <1>4, <2>1 DEF Pending
<1>5. ASSUME NEW i \in DOMAIN jobs, jobs[i].file = f
      PROVE  Pending(f)'
  BY <1>2, <1>5 DEF Pending
<1>6. f = j.file => Pending(f)'
  BY <1>2 DEF Pending
<1> QED BY <1>4, <1>5, <1>6 DEF Pending

LEMMA PendingTaken ==
  ASSUME FileTypes, JobsOK, jobs # <<>>, jobs' = Tail(jobs)
  PROVE  \A f : Pending(f)' <=> Pending(f) /\ f # jobs[1].file
<1>1. jobs \in Seq(FileJob)
  BY DEF FileTypes
<1>2. /\ Len(jobs) \in Nat /\ Len(jobs) > 0
      /\ DOMAIN jobs = 1..Len(jobs) /\ DOMAIN jobs' = 1..(Len(jobs) - 1)
      /\ \A i \in 1..(Len(jobs) - 1) : jobs'[i] = jobs[i + 1]
  BY <1>1, FirstTaken
<1>3. SUFFICES ASSUME NEW f PROVE Pending(f)' <=> Pending(f) /\ f # jobs[1].file
  OBVIOUS
<1>4. ASSUME NEW i \in DOMAIN jobs, jobs[i].file = f, f # jobs[1].file
      PROVE  Pending(f)'
  <2>1. i # 1
    BY <1>4
  <2>2. i - 1 \in DOMAIN jobs' /\ jobs'[i - 1] = jobs[(i - 1) + 1] /\ (i - 1) + 1 = i
    BY <1>2, <2>1
  <2> QED BY <1>4, <2>2 DEF Pending
<1>5. ASSUME NEW i \in DOMAIN jobs', jobs'[i].file = f
      PROVE  Pending(f) /\ f # jobs[1].file
  <2>1. i + 1 \in DOMAIN jobs /\ jobs'[i] = jobs[i + 1] /\ 1 \in DOMAIN jobs /\ i + 1 # 1
    BY <1>2
  <2>2. jobs[i + 1].file # jobs[1].file
    BY <2>1 DEF JobsOK
  <2> QED BY <1>5, <2>1, <2>2 DEF Pending
<1> QED BY <1>4, <1>5 DEF Pending


(* A step of one request, or none, in which the others go on as they were *)
LEMMA RequestStep ==
  ASSUME FileTypes, FileRequestsOK, NEW t \in Request,
         DOMAIN fileOp' = Request,
         \A u \in Request : u # t => pc'[u] = pc[u] /\ fileOp'[u] = fileOp[u],
         pc'[t] # "idle" =>
           /\ fileOp'[t] \in [what : FileOps, file : File, to : File \cup {None}]
           /\ fileOp'[t].what \in {"move", "copy"} <=> fileOp'[t].to # None
           /\ fileOp'[t].to # fileOp'[t].file
           /\ pc'[t] = "copying" => fileOp'[t].what \in {"move", "copy"}
  PROVE  FileRequestsOK'
BY DEF FileRequestsOK

LEMMA TaskKinds ==
  ASSUME NEW t \in Request
  PROVE  /\ t # "worker" /\ t # "event" /\ t # "timer" /\ t \in Task
         /\ "worker" \in Task /\ "event" \in Task /\ "timer" \in Task
BY HostConstants DEF Task, Background

LEMMA BackgroundTasks ==
  "worker" \in Task /\ "event" \in Task /\ "timer" \in Task
BY DEF Task, Background

LEMMA JobsStay ==
  ASSUME JobsOK, UNCHANGED <<jobs, onDisk, read>>, pc'["worker"] = pc["worker"],
         overtaken \subseteq overtaken'
  PROVE  JobsOK'
BY DEF JobsOK

(* Work that is added is of what is on the disk. *)
LEMMA WorkAdded ==
  ASSUME FileTypes, JobsOK, NEW f \in File, ~Pending(f), onDisk'[f] \in File \X Nat,
         jobs' = Append(jobs, [file |-> f, info |-> onDisk'[f]]),
         pc'["worker"] = pc["worker"], read' = read, overtaken \subseteq overtaken',
         \A x \in File \ overtaken' : Pending(x) => onDisk'[x] = onDisk[x]
  PROVE  JobsOK' /\ jobs' \in Seq(FileJob)
<1> DEFINE j == [file |-> f, info |-> onDisk'[f]]
<1>1. jobs \in Seq(FileJob) /\ j \in FileJob
  BY DEF FileTypes, FileJob
<1>2. /\ Len(jobs) \in Nat /\ DOMAIN jobs = 1..Len(jobs) /\ DOMAIN jobs' = 1..(Len(jobs) + 1)
      /\ \A i \in 1..Len(jobs) : jobs'[i] = jobs[i]
      /\ jobs'[Len(jobs) + 1] = j
      /\ jobs' # <<>> /\ jobs' \in Seq(FileJob)
  BY <1>1, Appended
<1>3. \A i \in DOMAIN jobs : jobs[i].file # f /\ jobs[i].file \in File
  <2>1. \A i \in DOMAIN jobs : jobs[i] \in FileJob
    BY <1>1
  <2> QED BY <2>1 DEF Pending, FileJob
<1>4. \A i, k \in DOMAIN jobs' : jobs'[i].file = jobs'[k].file => i = k
  <2> TAKE i, k \in DOMAIN jobs'
  <2>1. i \in 1..Len(jobs) \/ i = Len(jobs) + 1
    BY <1>2
  <2>2. k \in 1..Len(jobs) \/ k = Len(jobs) + 1
    BY <1>2
  <2>3. j.file = f
    OBVIOUS
  <2> QED BY <1>2, <1>3, <2>1, <2>2, <2>3 DEF JobsOK
<1>5. ASSUME NEW i \in DOMAIN jobs', jobs'[i].file \notin overtaken'
      PROVE  /\ jobs'[i].info = onDisk'[jobs'[i].file]
             /\ i = 1 /\ pc'["worker"] = "extracting" => read' = jobs'[i].info
  <2>1. CASE i \in 1..Len(jobs)
    <3>1. jobs'[i] = jobs[i] /\ i \in DOMAIN jobs /\ jobs[i].file \notin overtaken
      BY <1>2, <1>5, <2>1
    <3>2. onDisk'[jobs[i].file] = onDisk[jobs[i].file]
      BY <1>3, <1>5, <3>1 DEF Pending
    <3> QED BY <3>1, <3>2 DEF JobsOK
  <2>2. CASE i = Len(jobs) + 1
    <3>1. jobs'[i].info = onDisk'[f] /\ jobs'[i].file = f
      BY <1>2, <2>2
    <3>2. pc["worker"] = "extracting" => Len(jobs) # 0
      BY <1>2 DEF JobsOK
    <3> QED BY <1>2, <2>2, <3>1, <3>2
  <2> QED BY <1>2, <2>1, <2>2
<1> QED BY <1>2, <1>4, <1>5 DEF JobsOK

LEMMA NoticesStay ==
  ASSUME FileTypes, NoticesOK, UNCHANGED notices, pc'["event"] = pc["event"],
         \A f : Pending(f) => Pending(f)'
  PROVE  NoticesOK'
BY DEF NoticesOK

(* Nothing happens on the disk, and entries are at most removed. *)
LEMMA EventsStay ==
  ASSUME EventsOK, UNCHANGED <<onDisk, events>>, deletes' \subseteq deletes
  PROVE  EventsOK'
BY DEF EventsOK, LastOf, Unread

LEMMA MovesStay ==
  ASSUME FileTypes, MovesOK, UNCHANGED <<onDisk, events, overtaken>>, deletes' \subseteq deletes,
         \A x \in File : meta'[x] \in {meta[x], Absent}
  PROVE  MovesOK'
<1> SUFFICES ASSUME NEW i \in DOMAIN events, events[i].kind = "move" PROVE MoveOK(i)'
  BY DEF MovesOK
<1>1. events[i] \in FileEvent
  BY DEF FileTypes
<1>2. events[i].from \in File
  BY <1>1 DEF FileEvent
<1>3. MoveOK(i)
  BY DEF MovesOK
<1> QED BY <1>2, <1>3 DEF MoveOK, LastOf

(* What an entry, the disk and the notices say of a file stays. *)
LEMMA CurrentStays ==
  ASSUME NEW f \in File, CurrentOK(f), overtaken \subseteq overtaken',
         f \notin overtaken' /\ ~Unread(f)' /\ f \notin deletes' /\ ~Pending(f)' =>
           /\ ~Unread(f) /\ f \notin deletes /\ ~Pending(f)
           /\ meta'[f] = meta[f] /\ onDisk'[f] = onDisk[f]
           /\ WillBeParsed(f) => WillBeParsed(f)'
           /\ WillBeScanned(f) => WillBeScanned(f)'
  PROVE  CurrentOK(f)'
BY DEF CurrentOK

LEMMA ParsedStays ==
  ASSUME UNCHANGED <<notices, onDisk>>, pc'["event"] = pc["event"], NEW f, WillBeParsed(f)
  PROVE  WillBeParsed(f)'
BY DEF WillBeParsed

ScansGoOn ==
  \A t \in Request : pc[t] = "scanning" => pc'[t] = "scanning" /\ fileOp'[t] = fileOp[t]

LEMMA ScannedStays ==
  ASSUME ScansGoOn, NEW f, meta'[f] = meta[f], WillBeScanned(f)
  PROVE  WillBeScanned(f)'
BY DEF WillBeScanned, ScansGoOn


(***************************************************************************)
(* A change of the disk and what inotify will say of it.  A file that is    *)
(* moved was settled, or where it goes to is overtaken.                     *)
(***************************************************************************)
DiskChanges(e) ==
  /\ events' = Append(events, e)
  /\ onDisk' \in [File -> Contents] /\ newest' \in Nat
  /\ \A x \in File : x \notin Names(e) => onDisk'[x] = onDisk[x]
  /\ \A x \in File : x \in Names(e) => (Removes(e, x) <=> onDisk'[x] = Absent)
  /\ overtaken \subseteq overtaken' /\ overtaken' \in SUBSET File
  /\ \A x \in File : x \in Names(e) /\ Pending(x) => x \in overtaken'
  /\ e.kind = "move" /\ e.file \notin overtaken' =>
       ~Unsettled(e.from) /\ e.from \notin overtaken /\ onDisk'[e.file] = onDisk[e.from]

LEMMA DiskEvents ==
  ASSUME FilesOK, NEW e \in FileEvent, DiskChanges(e), UNCHANGED deletes
  PROVE  EventsOK' /\ events' \in Seq(FileEvent)
<1>1. events \in Seq(FileEvent)
  BY DEF FilesOK, FileTypes
<1>2. /\ Len(events) \in Nat /\ DOMAIN events = 1..Len(events) /\ DOMAIN events' = 1..(Len(events) + 1)
      /\ \A i \in 1..Len(events) : events'[i] = events[i]
      /\ events'[Len(events) + 1] = e /\ events' \in Seq(FileEvent)
  BY <1>1, Appended DEF DiskChanges
<1>3. \A f : Unread(f)' <=> Unread(f) \/ f \in Names(e)
  BY UnreadAdded DEF FilesOK, DiskChanges
<1>4. ASSUME NEW f \in File, NEW i \in DOMAIN events', LastOf(f, i)'
      PROVE  Removes(events'[i], f) <=> onDisk'[f] = Absent
  <2>1. CASE i = Len(events) + 1
    <3>1. f \in Names(e)
      BY <1>2, <1>4, <2>1 DEF LastOf
    <3> QED BY <1>2, <2>1, <3>1 DEF DiskChanges
  <2>2. CASE i \in 1..Len(events)
    <3>1. f \notin Names(e)
      BY <1>2, <1>4, <2>2 DEF LastOf
    <3>2. LastOf(f, i) /\ i \in DOMAIN events /\ events'[i] = events[i]
      BY <1>2, <1>4, <2>2 DEF LastOf
    <3> QED BY <3>1, <3>2 DEF DiskChanges, FilesOK, EventsOK
  <2> QED BY <1>2, <2>1, <2>2
<1>5. \A f \in deletes' : ~Unread(f)' => onDisk'[f] = Absent
  BY <1>3 DEF FilesOK, FileTypes, EventsOK, DiskChanges
<1> QED BY <1>2, <1>4, <1>5 DEF EventsOK

(* Of a file that is settled, what is kept is what is on the disk, or nothing. *)
LEMMA SettledIsCurrent ==
  ASSUME FilesOK, NEW f \in File, f \notin overtaken, ~Unsettled(f)
  PROVE  meta[f] \in {Absent, onDisk[f]}
<1>1. CurrentOK(f) /\ ~WillBeParsed(f)
  BY DEF FilesOK, Unsettled, ToNotify, WillBeParsed
<1> QED BY <1>1 DEF CurrentOK, Unsettled, WillBeScanned

LEMMA DiskMoves ==
  ASSUME FilesOK, NEW e \in FileEvent, DiskChanges(e), UNCHANGED deletes,
         \A x \in File : meta'[x] \in {meta[x], Absent}
  PROVE  MovesOK'
<1>1. events \in Seq(FileEvent)
  BY DEF FilesOK, FileTypes
<1>2. /\ Len(events) \in Nat /\ DOMAIN events = 1..Len(events) /\ DOMAIN events' = 1..(Len(events) + 1)
      /\ \A i \in 1..Len(events) : events'[i] = events[i] /\ events[i] \in FileEvent
      /\ events'[Len(events) + 1] = e
  BY <1>1, Appended DEF DiskChanges
<1>3. SUFFICES ASSUME NEW i \in DOMAIN events', events'[i].kind = "move",
                      NEW f, f = events'[i].from, NEW g, g = events'[i].file,
                      g \notin overtaken', LastOf(g, i)'
               PROVE  /\ f \notin deletes /\ meta'[f] \in {Absent, onDisk'[g]}
                      /\ \A j \in DOMAIN events' : j < i => f \notin Names(events'[j])
  BY DEF MovesOK, MoveOK
<1>4. events'[i] \in FileEvent
  BY <1>2
<1>5. f \in File /\ g \in File /\ f # g
  BY <1>3, <1>4 DEF FileEvent
<1>6. CASE i = Len(events) + 1
  <2>1. events'[i] = e
    BY <1>2, <1>6
  <2>2. ~Unsettled(f) /\ f \notin overtaken /\ onDisk'[g] = onDisk[f]
    BY <1>3, <2>1 DEF DiskChanges
  <2>3. meta[f] \in {Absent, onDisk[f]}
    BY <1>5, <2>2, SettledIsCurrent
  <2>4. \A j \in DOMAIN events : f \notin Names(events[j])
    BY <2>2 DEF Unsettled, Unread, Names
  <2>5. \A j \in DOMAIN events' : j < i => f \notin Names(events'[j])
    <3> SUFFICES ASSUME NEW j \in DOMAIN events', j < i PROVE f \notin Names(events'[j])
      OBVIOUS
    <3>1. j \in DOMAIN events /\ events'[j] = events[j]
      BY <1>2, <1>6
    <3> QED BY <2>4, <3>1
  <2>6. f \notin deletes
    BY <2>2 DEF Unsettled
  <2> QED BY <1>5, <2>2, <2>3, <2>5, <2>6
<1>7. CASE i \in 1..Len(events)
  <2>1. g \notin Names(e) /\ LastOf(g, i) /\ events'[i] = events[i] /\ i \in DOMAIN events
    BY <1>2, <1>3, <1>7 DEF LastOf
  <2>2. onDisk'[g] = onDisk[g] /\ g \notin overtaken
    BY <1>3, <1>5, <2>1 DEF DiskChanges
  <2>3. /\ f \notin deletes /\ meta[f] \in {Absent, onDisk[g]}
        /\ \A j \in DOMAIN events : j < i => f \notin Names(events[j])
    BY <1>3, <2>1, <2>2 DEF FilesOK, MovesOK, MoveOK
  <2>4. \A j \in DOMAIN events' : j < i => j \in DOMAIN events /\ events'[j] = events[j]
    BY <1>2, <1>7
  <2> QED BY <1>5, <2>2, <2>3, <2>4
<1> QED BY <1>2, <1>6, <1>7

LEMMA DiskCurrent ==
  ASSUME FilesOK, NEW e \in FileEvent, DiskChanges(e), UNCHANGED <<deletes, notices, meta>>,
         pc'["event"] = pc["event"], ScansGoOn, \A x \in File : Pending(x) => Pending(x)',
         \A x \in File : x \notin Names(e) /\ Pending(x)' => Pending(x)
  PROVE  \A x \in File : CurrentOK(x)'
<1> SUFFICES ASSUME NEW x \in File PROVE CurrentOK(x)'
  OBVIOUS
<1>1. Unread(x)' <=> Unread(x) \/ x \in Names(e)
  BY UnreadAdded DEF FilesOK, DiskChanges
<1>2. x \notin Names(e) => onDisk'[x] = onDisk[x]
  BY DEF DiskChanges
<1>3. onDisk'[x] = onDisk[x] /\ WillBeParsed(x) => WillBeParsed(x)'
  BY DEF WillBeParsed
<1>4. WillBeScanned(x) => WillBeScanned(x)'
  BY ScannedStays
<1> QED BY <1>1, <1>2, <1>3, <1>4, CurrentStays DEF FilesOK, DiskChanges

(* When no work is added *)
LEMMA DiskJobs ==
  ASSUME FilesOK, NEW e \in FileEvent, DiskChanges(e), UNCHANGED <<jobs, read>>,
         pc'["worker"] = pc["worker"]
  PROVE  JobsOK' /\ \A x : Pending(x)' <=> Pending(x)
<1>1. \A x : Pending(x)' <=> Pending(x)
  BY DEF Pending
<1>2. \A i \in DOMAIN jobs : jobs[i].file \in File
  <2>1. \A i \in DOMAIN jobs : jobs[i] \in FileJob
    BY DEF FilesOK, FileTypes
  <2> QED BY <2>1 DEF FileJob
<1>3. \A i \in DOMAIN jobs : jobs[i].file \notin overtaken' =>
        jobs[i].file \notin overtaken /\ onDisk'[jobs[i].file] = onDisk[jobs[i].file]
  BY <1>2 DEF DiskChanges, Pending
<1> QED BY <1>1, <1>3 DEF FilesOK, JobsOK

(* A change of the disk by somebody who asks for no metadata *)
LEMMA DiskKeeps ==
  ASSUME FilesOK, NEW e \in FileEvent, DiskChanges(e),
         UNCHANGED <<deletes, notices, meta, jobs, read>>, DOMAIN pc' = Task,
         \A t \in {"worker", "event"} : pc'[t] = pc[t], ScansGoOn, FileRequestsOK'
  PROVE  FilesOK'
<1>1. EventsOK' /\ events' \in Seq(FileEvent) /\ MovesOK' /\ JobsOK'
  BY DiskEvents, DiskMoves, DiskJobs DEF FilesOK, FileTypes
<1>2. \A x : Pending(x)' <=> Pending(x)
  BY DiskJobs
<1>3. NoticesOK'
  BY <1>2, NoticesStay DEF FilesOK
<1>4. \A x \in File : CurrentOK(x)'
  BY <1>2, DiskCurrent
<1>5. FileTypes'
  BY <1>1 DEF FilesOK, FileTypes, DiskChanges
<1> QED BY <1>1, <1>3, <1>4, <1>5 DEF FilesOK

(* An upload *)
LEMMA DiskAndJobKeeps ==
  ASSUME FilesOK, NEW f \in File, NEW e \in FileEvent, e.file = f, DiskChanges(e),
         onDisk'[f] \in File \X Nat,
         jobs' = IF Pending(f) THEN jobs ELSE Append(jobs, [file |-> f, info |-> onDisk'[f]]),
         UNCHANGED <<deletes, notices, meta, read>>, DOMAIN pc' = Task,
         \A t \in {"worker", "event"} : pc'[t] = pc[t], ScansGoOn, FileRequestsOK'
  PROVE  FilesOK'
<1>1. CASE Pending(f)
  BY <1>1, DiskKeeps
<1>2. CASE ~Pending(f)
  <2>1. [file |-> f, info |-> onDisk'[f]] \in FileJob
    BY DEF FileJob
  <2>2. \A x : Pending(x)' <=> Pending(x) \/ x = f
    BY <1>2, <2>1, PendingAdded DEF FilesOK
  <2>3. \A x \in File \ overtaken' : Pending(x) => onDisk'[x] = onDisk[x]
    BY DEF DiskChanges
  <2>4. JobsOK' /\ jobs' \in Seq(FileJob)
    BY <1>2, <2>3, WorkAdded DEF FilesOK, DiskChanges
  <2>5. EventsOK' /\ events' \in Seq(FileEvent) /\ MovesOK'
    BY DiskEvents, DiskMoves DEF FilesOK, FileTypes
  <2>6. NoticesOK'
    BY <2>2, NoticesStay DEF FilesOK
  <2>7. f \in Names(e)
    BY DEF Names
  <2>8. \A x \in File : CurrentOK(x)'
    BY <2>2, <2>7, DiskCurrent
  <2>9. FileTypes'
    BY <2>4, <2>5 DEF FilesOK, FileTypes, DiskChanges
  <2> QED BY <2>4, <2>5, <2>6, <2>8, <2>9 DEF FilesOK
<1> QED BY <1>1, <1>2


(* The changes of the disk there are *)

LEMMA ContentIsThere ==
  /\ \A c \in File \X Nat : c # Absent /\ c \in Contents
  /\ \A c \in Contents : c # Absent => c \in File \X Nat
BY DEF Contents, Absent

LEMMA WriteEvent ==
  ASSUME NEW f \in File
  PROVE  LET e == [kind |-> "write", file |-> f, from |-> None]
         IN  e \in FileEvent /\ e.file = f /\ e.kind # "move"
             /\ \A x \in File : (x \in Names(e) <=> x = f) /\ ~Removes(e, x)
BY FilesConstants DEF FileEvent, Names, Removes

LEMMA WritesChanges ==
  ASSUME FilesOK, NEW f \in File, Writes("write", f)
  PROVE  /\ DiskChanges([kind |-> "write", file |-> f, from |-> None])
         /\ onDisk'[f] \in File \X Nat
<1> DEFINE e == [kind |-> "write", file |-> f, from |-> None]
<1>1. /\ newest' \in Nat /\ onDisk' = [onDisk EXCEPT ![f] = <<f, newest'>>]
      /\ events' = Append(events, e)
      /\ overtaken' = overtaken \cup {x \in {f} : Pending(x)}
  BY DEF Writes, Happens, Alters, FilesOK, FileTypes
<1>2. onDisk \in [File -> Contents] /\ overtaken \in SUBSET File
  BY DEF FilesOK, FileTypes
<1>3. <<f, newest'>> \in File \X Nat
  BY <1>1
<1>4. /\ onDisk' \in [File -> Contents] /\ onDisk'[f] \in File \X Nat /\ onDisk'[f] # Absent
      /\ \A x \in File : x # f => onDisk'[x] = onDisk[x]
  BY <1>1, <1>2, <1>3, ContentIsThere
<1>5. /\ e \in FileEvent /\ e.file = f /\ e.kind # "move"
      /\ \A x \in File : (x \in Names(e) <=> x = f) /\ ~Removes(e, x)
  BY WriteEvent
<1>6. overtaken \subseteq overtaken' /\ overtaken' \in SUBSET File /\ (Pending(f) => f \in overtaken')
  BY <1>1, <1>2
<1> HIDE DEF e
<1>7. DiskChanges(e)
  BY <1>1, <1>4, <1>5, <1>6 DEF DiskChanges
<1> QED BY <1>4, <1>7 DEF e

LEMMA DuplicatesChanges ==
  ASSUME FilesOK, NEW f \in File, NEW g \in File, onDisk[f] # Absent, Duplicates(f, g)
  PROVE  DiskChanges([kind |-> "write", file |-> g, from |-> None])
<1> DEFINE e == [kind |-> "write", file |-> g, from |-> None]
<1>1. /\ newest' = newest /\ onDisk' = [onDisk EXCEPT ![g] = onDisk[f]]
      /\ events' = Append(events, e)
      /\ overtaken' = overtaken \cup {x \in {g} : Pending(x)}
  BY DEF Duplicates, Happens, Alters
<1>2. onDisk \in [File -> Contents] /\ overtaken \in SUBSET File /\ newest \in Nat
  BY DEF FilesOK, FileTypes
<1>3. /\ onDisk' \in [File -> Contents] /\ onDisk'[g] # Absent
      /\ \A x \in File : x # g => onDisk'[x] = onDisk[x]
  BY <1>1, <1>2
<1>4. /\ e \in FileEvent /\ e.file = g /\ e.kind # "move"
      /\ \A x \in File : (x \in Names(e) <=> x = g) /\ ~Removes(e, x)
  BY WriteEvent
<1>5. overtaken \subseteq overtaken' /\ overtaken' \in SUBSET File /\ (Pending(g) => g \in overtaken')
  BY <1>1, <1>2
<1> HIDE DEF e
<1>6. DiskChanges(e)
  BY <1>1, <1>2, <1>3, <1>4, <1>5 DEF DiskChanges
<1> QED BY <1>6 DEF e

LEMMA DeletesChanges ==
  ASSUME FilesOK, NEW f \in File, Deletes(f)
  PROVE  /\ [kind |-> "delete", file |-> f, from |-> None] \in FileEvent
         /\ DiskChanges([kind |-> "delete", file |-> f, from |-> None])
<1> DEFINE e == [kind |-> "delete", file |-> f, from |-> None]
<1>1. /\ newest' = newest /\ onDisk' = [onDisk EXCEPT ![f] = Absent]
      /\ events' = Append(events, e)
      /\ overtaken' = overtaken \cup {x \in {f} : Pending(x)}
  BY DEF Deletes, Happens, Alters
<1>2. onDisk \in [File -> Contents] /\ overtaken \in SUBSET File /\ newest \in Nat
  BY DEF FilesOK, FileTypes
<1>3. /\ onDisk' \in [File -> Contents] /\ onDisk'[f] = Absent
      /\ \A x \in File : x # f => onDisk'[x] = onDisk[x]
  BY <1>1, <1>2 DEF Contents
<1>4. /\ e \in FileEvent /\ e.file = f /\ e.kind # "move"
      /\ \A x \in File : (x \in Names(e) <=> x = f) /\ Removes(e, x)
  BY FilesConstants DEF FileEvent, Names, Removes
<1>5. overtaken \subseteq overtaken' /\ overtaken' \in SUBSET File /\ (Pending(f) => f \in overtaken')
  BY <1>1, <1>2
<1> HIDE DEF e
<1>6. DiskChanges(e)
  BY <1>1, <1>2, <1>3, <1>4, <1>5 DEF DiskChanges
<1> QED BY <1>4, <1>6 DEF e

LEMMA RenamesChanges ==
  ASSUME FilesOK, NEW f \in File, NEW g \in File, f # g, onDisk[f] # Absent, Renames(f, g)
  PROVE  /\ [kind |-> "move", file |-> g, from |-> f] \in FileEvent
         /\ DiskChanges([kind |-> "move", file |-> g, from |-> f])
<1> DEFINE e == [kind |-> "move", file |-> g, from |-> f]
<1>1. /\ newest' = newest /\ onDisk' = [onDisk EXCEPT ![g] = onDisk[f], ![f] = Absent]
      /\ events' = Append(events, e)
      /\ overtaken' = overtaken \cup {x \in {f, g} : Pending(x)}
                                \cup (IF Unsettled(f) \/ f \in overtaken THEN {g} ELSE {})
  BY DEF Renames, Happens
<1>2. onDisk \in [File -> Contents] /\ overtaken \in SUBSET File /\ newest \in Nat
  BY DEF FilesOK, FileTypes
<1>3. /\ onDisk' \in [File -> Contents] /\ onDisk'[f] = Absent /\ onDisk'[g] = onDisk[f]
      /\ \A x \in File : x # f /\ x # g => onDisk'[x] = onDisk[x]
  BY <1>1, <1>2 DEF Contents
<1>4. /\ e \in FileEvent /\ e.file = g /\ e.from = f
      /\ \A x \in File : (x \in Names(e) <=> x = f \/ x = g) /\ (Removes(e, x) <=> x = f)
  BY FilesConstants DEF FileEvent, Names, Removes
<1>5. /\ overtaken \subseteq overtaken' /\ overtaken' \in SUBSET File
      /\ \A x \in {f, g} : Pending(x) => x \in overtaken'
      /\ g \notin overtaken' => ~Unsettled(f) /\ f \notin overtaken
  BY <1>1, <1>2
<1> HIDE DEF e
<1>6. DiskChanges(e)
  BY <1>1, <1>2, <1>3, <1>4, <1>5 DEF DiskChanges
<1> QED BY <1>4, <1>6 DEF e

(* Other programs *)
LEMMA MeddlesKeeps ==
  ASSUME FilesOK, Meddles
  PROVE  FilesOK'
<1>1. UNCHANGED <<pc, fileOp, meta, jobs, read, deletes, notices>>
  BY DEF Meddles, storageVars, observerVars
<1>2. FileRequestsOK' /\ ScansGoOn /\ DOMAIN pc' = Task
  BY <1>1 DEF FilesOK, FileTypes, FileRequestsOK, ScansGoOn
<1>3. ASSUME NEW f \in File, Writes("write", f) PROVE FilesOK'
  <2>1. [kind |-> "write", file |-> f, from |-> None] \in FileEvent
    BY WriteEvent
  <2>2. DiskChanges([kind |-> "write", file |-> f, from |-> None])
    BY <1>3, WritesChanges
  <2> QED BY <1>1, <1>2, <2>1, <2>2, DiskKeeps
<1>4. ASSUME NEW f \in File, Deletes(f) PROVE FilesOK'
  BY <1>1, <1>2, <1>4, DeletesChanges, DiskKeeps
<1>5. ASSUME NEW f \in File, NEW g \in File, f # g, onDisk[f] # Absent, Renames(f, g)
      PROVE  FilesOK'
  BY <1>1, <1>2, <1>5, RenamesChanges, DiskKeeps
<1> QED BY <1>3, <1>4, <1>5 DEF Meddles


(***************************************************************************)
(* Steps that leave the disk                                               *)
(***************************************************************************)
DiskStays == UNCHANGED <<newest, onDisk, overtaken, events>>

(* Only tasks of requests go on. *)
LEMMA CalmKeepsFiles ==
  ASSUME FilesOK, DiskStays, UNCHANGED <<meta, jobs, read, deletes, notices>>,
         DOMAIN pc' = Task, \A t \in {"worker", "event"} : pc'[t] = pc[t], FileRequestsOK',
         \A x \in File : WillBeScanned(x) => WillBeScanned(x)' \/ onDisk[x] = Absent
  PROVE  FilesOK'
<1>1. FileTypes'
  BY DEF FilesOK, FileTypes, DiskStays
<1>2. JobsOK'
  BY JobsStay DEF FilesOK, DiskStays
<1>3. \A x : (Pending(x)' <=> Pending(x)) /\ (Unread(x)' <=> Unread(x))
  BY DEF Pending, Unread, DiskStays
<1>4. NoticesOK'
  BY <1>3, NoticesStay DEF FilesOK
<1>5. EventsOK' /\ MovesOK'
  BY EventsStay, MovesStay DEF FilesOK, DiskStays
<1>6. ASSUME NEW x \in File PROVE CurrentOK(x)'
  <2>1. CurrentOK(x) /\ (WillBeScanned(x) /\ onDisk[x] = Absent => meta[x] = onDisk[x])
    BY DEF FilesOK, WillBeScanned
  <2>2. WillBeParsed(x) => WillBeParsed(x)'
    BY ParsedStays DEF DiskStays
  <2> QED BY <1>3, <2>1, <2>2 DEF CurrentOK, DiskStays
<1> QED BY <1>1, <1>2, <1>4, <1>5, <1>6 DEF FilesOK

(* Metadata is asked for that somebody waits for. *)
LEMMA AskedKeeps ==
  ASSUME FilesOK, DiskStays, UNCHANGED <<meta, read, deletes, notices>>,
         NEW f \in File, onDisk[f] # Absent,
         jobs' = IF Pending(f) THEN jobs ELSE Append(jobs, [file |-> f, info |-> onDisk[f]]),
         DOMAIN pc' = Task, pc'["worker"] = pc["worker"], FileRequestsOK',
         Pending(f)' => NoticesOK',
         \A x \in File : x # f => /\ WillBeParsed(x) => WillBeParsed(x)'
                                  /\ WillBeScanned(x) => WillBeScanned(x)'
  PROVE  FilesOK'
<1>1. onDisk[f] \in File \X Nat
  BY ContentIsThere DEF FilesOK, FileTypes
<1>2. JobsOK' /\ jobs' \in Seq(FileJob) /\ \A x : Pending(x)' <=> Pending(x) \/ x = f
  <2>1. CASE Pending(f)
    <3>1. JobsOK' /\ jobs' \in Seq(FileJob)
      BY <2>1, JobsStay DEF FilesOK, FileTypes, DiskStays
    <3> QED BY <2>1, <3>1 DEF Pending
  <2>2. CASE ~Pending(f)
    <3>1. [file |-> f, info |-> onDisk[f]] \in FileJob
      BY <1>1 DEF FileJob
    <3> QED BY <1>1, <2>2, <3>1, WorkAdded, PendingAdded DEF FilesOK, DiskStays
  <2> QED BY <2>1, <2>2
<1>3. FileTypes'
  BY <1>2 DEF FilesOK, FileTypes, DiskStays
<1>4. EventsOK' /\ MovesOK'
  BY EventsStay, MovesStay DEF FilesOK, DiskStays
<1>5. NoticesOK'
  BY <1>2
<1>6. ASSUME NEW x \in File PROVE CurrentOK(x)'
  <2>1. CASE x = f
    BY <1>2, <2>1 DEF CurrentOK
  <2>2. CASE x # f
    <3>1. CurrentOK(x) /\ (Unread(x)' <=> Unread(x))
      BY DEF FilesOK, Unread, DiskStays
    <3> QED BY <1>2, <2>2, <3>1 DEF CurrentOK, DiskStays
  <2> QED BY <2>1, <2>2
<1> QED BY <1>2, <1>3, <1>4, <1>5, <1>6 DEF FilesOK

(* Requests *)

LEMMA AskFilesKeeps ==
  ASSUME FilesOK, NEW t \in Request, NEW f \in File, NEW g \in File \cup {None}, NEW what \in FileOps,
         AskFiles(t, what, f, g)
  PROVE  FilesOK'
<1>1. /\ pc[t] = "idle" /\ pc' = [pc EXCEPT ![t] = "waiting"] /\ DOMAIN pc = Task
      /\ fileOp' = [fileOp EXCEPT ![t] = [what |-> what, file |-> f, to |-> g]]
      /\ f # g /\ (what \in {"move", "copy"} <=> g # None) /\ DOMAIN fileOp = Request
      /\ DiskStays /\ UNCHANGED <<meta, jobs, read, deletes, notices>>
  BY DEF AskFiles, Idle, Goes, FilesOK, FileTypes, FileRequestsOK, fsVars, storageVars, observerVars,
         DiskStays
<1>2. FileRequestsOK'
  <2>1. /\ DOMAIN fileOp' = Request /\ pc'[t] = "waiting"
        /\ fileOp'[t] = [what |-> what, file |-> f, to |-> g]
        /\ \A u \in Request : u # t => pc'[u] = pc[u] /\ fileOp'[u] = fileOp[u]
    BY <1>1, TaskKinds
  <2> QED BY <1>1, <2>1, RequestStep DEF FilesOK
<1>3. DOMAIN pc' = Task /\ \A u \in {"worker", "event"} : pc'[u] = pc[u]
  BY <1>1, TaskKinds
<1>4. ScansGoOn
  BY <1>1, TaskKinds DEF ScansGoOn
<1>5. \A x \in File : WillBeScanned(x) => WillBeScanned(x)'
  BY <1>1, <1>4, ScannedStays
<1> QED BY <1>1, <1>2, <1>3, <1>5, CalmKeepsFiles

(* A request goes on, or is answered. *)
IsServed(t, place) ==
  \/ StaysIn(t, place) /\ (place = "copying" => fileOp[t].what \in {"move", "copy"})
  \/ Answers(t)

LEMMA PlaceKeeps ==
  ASSUME FilesOK, NEW t \in Request, NEW place, pc[t] # "idle",
         IsServed(t, place)
  PROVE  /\ FileRequestsOK' /\ DOMAIN pc' = Task
         /\ \A u \in {"worker", "event"} : pc'[u] = pc[u]
         /\ \A u \in Request : u # t => pc'[u] = pc[u] /\ fileOp'[u] = fileOp[u]
         /\ pc[t] # "scanning" => ScansGoOn
<1>1. DOMAIN pc = Task /\ DOMAIN fileOp = Request
  BY DEF FilesOK, FileTypes, FileRequestsOK
<1>2. /\ DOMAIN pc' = Task /\ \A u \in {"worker", "event"} : pc'[u] = pc[u]
      /\ \A u \in Request : u # t => pc'[u] = pc[u] /\ fileOp'[u] = fileOp[u]
      /\ DOMAIN fileOp' = Request
      /\ \/ pc'[t] = place /\ fileOp'[t] = fileOp[t]
            /\ (place = "copying" => fileOp[t].what \in {"move", "copy"})
         \/ pc'[t] = "idle"
  BY <1>1, TaskKinds DEF IsServed, StaysIn, Answers, Goes
<1>3. FileRequestsOK'
  <2>1. /\ fileOp[t] \in [what : FileOps, file : File, to : File \cup {None}]
        /\ fileOp[t].what \in {"move", "copy"} <=> fileOp[t].to # None
        /\ fileOp[t].to # fileOp[t].file
    BY DEF FilesOK, FileRequestsOK
  <2> QED BY <1>2, <2>1, RequestStep DEF FilesOK
<1>4. pc[t] # "scanning" => ScansGoOn
  BY <1>2 DEF ScansGoOn
<1> QED BY <1>2, <1>3, <1>4

LEMMA AnsweredKeeps ==
  ASSUME FilesOK, NEW t \in Request, NEW place, pc[t] \notin {"idle", "scanning"},
         IsServed(t, place),
         DiskStays, UNCHANGED <<meta, jobs, read, deletes, notices>>
  PROVE  FilesOK'
<1>1. /\ FileRequestsOK' /\ DOMAIN pc' = Task
      /\ \A u \in {"worker", "event"} : pc'[u] = pc[u] /\ ScansGoOn
  BY PlaceKeeps
<1>2. \A x \in File : WillBeScanned(x) => WillBeScanned(x)'
  BY <1>1, ScannedStays
<1> QED BY <1>1, <1>2, CalmKeepsFiles


LEMMA OpFacts ==
  ASSUME FilesOK, NEW t \in Request, pc[t] # "idle"
  PROVE  /\ fileOp[t].file \in File /\ fileOp[t].what \in FileOps /\ fileOp[t].to # fileOp[t].file
         /\ fileOp[t].what \in {"move", "copy"} => fileOp[t].to \in File
         /\ pc[t] = "copying" => fileOp[t].what \in {"move", "copy"}
BY DEF FilesOK, FileRequestsOK

LEMMA UploadKeeps ==
  ASSUME FilesOK, NEW t \in Request, pc[t] = "waiting", Serves(t), fileOp[t].what = "upload"
  PROVE  FilesOK'
<1>1. PICK f \in File : f = fileOp[t].file
  BY OpFacts
<1>2. /\ Writes("write", f) /\ ParseMetadata(t, f, onDisk'[f])
      /\ UNCHANGED <<syncQueue, fileOp, meta, read, deletes, notices>>
  BY <1>1 DEF Serves, observerVars
<1>3. IsServed(t, "parsing")
  BY <1>2 DEF ParseMetadata, IsServed, StaysIn
<1>4. /\ FileRequestsOK' /\ DOMAIN pc' = Task
      /\ \A u \in {"worker", "event"} : pc'[u] = pc[u] /\ ScansGoOn
  BY <1>3, PlaceKeeps
<1> DEFINE e == [kind |-> "write", file |-> f, from |-> None]
<1>5. e \in FileEvent /\ e.file = f
  BY WriteEvent
<1>6. DiskChanges(e) /\ onDisk'[f] \in File \X Nat
  BY <1>2, WritesChanges
<1>7. jobs' = IF Pending(f) THEN jobs ELSE Append(jobs, [file |-> f, info |-> onDisk'[f]])
  BY <1>2 DEF ParseMetadata
<1> HIDE DEF e
<1> QED BY <1>2, <1>4, <1>5, <1>6, <1>7, DiskAndJobKeeps

LEMMA DeleteServedKeeps ==
  ASSUME FilesOK, NEW t \in Request, pc[t] = "waiting", Serves(t), fileOp[t].what = "delete",
         onDisk[fileOp[t].file] # Absent
  PROVE  FilesOK'
<1>1. PICK f \in File : f = fileOp[t].file
  BY OpFacts
<1>2. Answers(t) /\ Deletes(f) /\ UNCHANGED <<meta, jobs, read, deletes, notices>>
  BY <1>1 DEF Serves, observerVars
<1>3. /\ FileRequestsOK' /\ DOMAIN pc' = Task
      /\ \A u \in {"worker", "event"} : pc'[u] = pc[u] /\ ScansGoOn
  BY <1>2, PlaceKeeps DEF IsServed
<1> QED BY <1>2, <1>3, DeletesChanges, DiskKeeps

(* The entry goes now, and the request asks for it next. *)
LEMMA ScanServedKeeps ==
  ASSUME FilesOK, NEW t \in Request, pc[t] = "waiting", Serves(t), fileOp[t].what = "scan",
         onDisk[fileOp[t].file] # Absent
  PROVE  FilesOK'
<1>1. PICK f \in File : f = fileOp[t].file
  BY OpFacts
<1>2. /\ StaysIn(t, "scanning") /\ meta' = Without({f})
      /\ DiskStays /\ UNCHANGED <<jobs, read, deletes, notices>>
  BY <1>1 DEF Serves, observerVars, NothingOnDisk, fsVars, DiskStays
<1>3. /\ FileRequestsOK' /\ DOMAIN pc' = Task
      /\ \A u \in {"worker", "event"} : pc'[u] = pc[u] /\ ScansGoOn
  BY <1>2, PlaceKeeps DEF IsServed
<1>4. /\ meta' \in [File -> Contents] /\ meta'[f] = Absent
      /\ \A x \in File : x # f => meta'[x] = meta[x]
  BY <1>2 DEF Without, FilesOK, FileTypes, Contents
<1>5. FileTypes'
  BY <1>2, <1>3, <1>4 DEF FilesOK, FileTypes, DiskStays
<1>6. JobsOK'
  BY <1>2, <1>3, JobsStay DEF FilesOK, DiskStays
<1>7. \A x : (Pending(x)' <=> Pending(x)) /\ (Unread(x)' <=> Unread(x))
  BY <1>2 DEF Pending, Unread, DiskStays
<1>8. NoticesOK'
  BY <1>2, <1>3, <1>7, NoticesStay DEF FilesOK
<1>9. EventsOK' /\ MovesOK'
  <2>1. \A x \in File : meta'[x] \in {meta[x], Absent}
    BY <1>4
  <2> QED BY <1>2, <2>1, EventsStay, MovesStay DEF FilesOK, DiskStays
<1>10. WillBeScanned(f)'
  <2>1. pc'[t] = "scanning" /\ fileOp'[t].file = f
    BY <1>1, <1>2, TaskKinds DEF StaysIn, Goes, FilesOK, FileTypes
  <2> QED BY <1>4, <2>1 DEF WillBeScanned
<1>11. ASSUME NEW x \in File PROVE CurrentOK(x)'
  <2>1. CASE x = f
    BY <1>10, <2>1 DEF CurrentOK
  <2>2. CASE x # f
    <3>1. CurrentOK(x) /\ meta'[x] = meta[x]
      BY <1>4, <2>2 DEF FilesOK
    <3>2. WillBeParsed(x) => WillBeParsed(x)'
      BY <1>2, <1>3, ParsedStays DEF DiskStays
    <3>3. WillBeScanned(x) => WillBeScanned(x)'
      BY <1>3, <3>1, ScannedStays
    <3> QED BY <1>2, <1>7, <3>1, <3>2, <3>3 DEF CurrentOK, DiskStays
  <2> QED BY <2>1, <2>2
<1> QED BY <1>3, <1>5, <1>6, <1>8, <1>9, <1>11 DEF FilesOK

LEMMA ServesKeeps ==
  ASSUME FilesOK, NEW t \in Request, Serves(t)
  PROVE  FilesOK'
<1>1. pc[t] = "waiting"
  BY DEF Serves, HoldsSync
<1>2. fileOp[t].what \in FileOps
  BY <1>1, OpFacts
<1>3. CASE fileOp[t].what = "upload"
  BY <1>1, <1>3, UploadKeeps
<1>4. CASE fileOp[t].what # "upload" /\ onDisk[fileOp[t].file] = Absent
  <2>1. Answers(t) /\ DiskStays /\ UNCHANGED <<meta, jobs, read, deletes, notices>>
    BY <1>4 DEF Serves, observerVars, NothingOnDisk, fsVars, DiskStays
  <2> QED BY <1>1, <2>1, AnsweredKeeps DEF IsServed
<1>5. CASE fileOp[t].what = "delete" /\ onDisk[fileOp[t].file] # Absent
  BY <1>1, <1>5, DeleteServedKeeps
<1>6. CASE fileOp[t].what = "scan" /\ onDisk[fileOp[t].file] # Absent
  BY <1>1, <1>6, ScanServedKeeps
<1>7. CASE fileOp[t].what \in {"move", "copy"} /\ onDisk[fileOp[t].file] # Absent
  <2>1. StaysIn(t, "copying") /\ DiskStays /\ UNCHANGED <<meta, jobs, read, deletes, notices>>
    BY <1>7 DEF Serves, observerVars, NothingOnDisk, fsVars, DiskStays
  <2> QED BY <1>1, <1>7, <2>1, AnsweredKeeps DEF IsServed
<1> QED BY <1>2, <1>3, <1>4, <1>5, <1>6, <1>7 DEF FileOps

LEMMA CopiesKeeps ==
  ASSUME FilesOK, NEW t \in Request, Copies(t)
  PROVE  FilesOK'
<1>1. pc[t] = "copying" /\ UNCHANGED <<meta, jobs, read, deletes, notices>>
  BY DEF Copies, HoldsSync, storageVars, observerVars
<1>2. PICK f \in File, g \in File : f = fileOp[t].file /\ g = fileOp[t].to /\ f # g
  BY <1>1, OpFacts
<1>3. CASE onDisk[f] = Absent
  <2>1. Answers(t) /\ DiskStays
    BY <1>2, <1>3 DEF Copies, NothingOnDisk, fsVars, DiskStays
  <2> QED BY <1>1, <2>1, AnsweredKeeps DEF IsServed
<1>4. CASE onDisk[f] # Absent
  <2>1. StaysIn(t, "syncing") /\ (Renames(f, g) \/ Duplicates(f, g))
    BY <1>2, <1>4 DEF Copies
  <2>2. /\ FileRequestsOK' /\ DOMAIN pc' = Task
        /\ \A u \in {"worker", "event"} : pc'[u] = pc[u] /\ ScansGoOn
    BY <1>1, <2>1, PlaceKeeps DEF IsServed
  <2>3. PICK e \in FileEvent : DiskChanges(e)
    <3>1. CASE Renames(f, g)
      BY <1>2, <1>4, <3>1, RenamesChanges
    <3>2. CASE Duplicates(f, g)
      <4>1. [kind |-> "write", file |-> g, from |-> None] \in FileEvent
        BY WriteEvent
      <4> QED BY <1>2, <1>4, <3>2, <4>1, DuplicatesChanges
    <3> QED BY <2>1, <3>1, <3>2
  <2> QED BY <1>1, <2>2, <2>3, DiskKeeps
<1> QED BY <1>3, <1>4

LEMMA ScansKeeps ==
  ASSUME FilesOK, NEW t \in Request, Scans(t)
  PROVE  FilesOK'
<1>1. pc[t] = "scanning" /\ DiskStays /\ UNCHANGED <<meta, read, deletes, notices>>
  BY DEF Scans, HoldsSync, fsVars, observerVars, DiskStays
<1>2. PICK f \in File : f = fileOp[t].file
  BY <1>1, OpFacts
<1>3. IsServed(t, "parsing")
  BY DEF Scans, ParseMetadata, IsServed, StaysIn
<1>4. /\ FileRequestsOK' /\ DOMAIN pc' = Task
      /\ \A u \in {"worker", "event"} : pc'[u] = pc[u]
      /\ \A u \in Request : u # t => pc'[u] = pc[u] /\ fileOp'[u] = fileOp[u]
  BY <1>1, <1>3, PlaceKeeps
<1>5. ASSUME NEW x \in File, x # f, WillBeScanned(x) PROVE WillBeScanned(x)'
  BY <1>1, <1>2, <1>4, <1>5 DEF WillBeScanned
<1>6. CASE onDisk[f] = Absent
  <2>1. UNCHANGED jobs
    BY <1>2, <1>6 DEF Scans
  <2> QED BY <1>1, <1>4, <1>5, <1>6, <2>1, CalmKeepsFiles
<1>7. CASE onDisk[f] # Absent
  <2>1. jobs' = IF Pending(f) THEN jobs ELSE Append(jobs, [file |-> f, info |-> onDisk[f]])
    BY <1>2, <1>7 DEF Scans, ParseMetadata
  <2>2. \A x \in File : WillBeParsed(x) => WillBeParsed(x)'
    BY <1>1, <1>4, ParsedStays DEF DiskStays
  <2>3. \A x : Pending(x) => Pending(x)'
    <3>1. [file |-> f, info |-> onDisk[f]] \in FileJob
      BY <1>7, ContentIsThere DEF FileJob, FilesOK, FileTypes
    <3>2. CASE Pending(f)
      BY <2>1, <3>2 DEF Pending
    <3>3. CASE ~Pending(f)
      BY <2>1, <3>1, <3>3, PendingAdded DEF FilesOK
    <3> QED BY <3>2, <3>3
  <2>4. NoticesOK'
    BY <1>1, <1>4, <2>3, NoticesStay DEF FilesOK
  <2> QED BY <1>1, <1>4, <1>5, <1>7, <2>1, <2>2, <2>4, AskedKeeps
<1> QED BY <1>6, <1>7

LEMMA ServedKeeps ==
  ASSUME FilesOK, NEW t \in Request, Served(t)
  PROVE  FilesOK'
<1>1. /\ pc[t] \in {"parsed", "syncing"} /\ Answers(t)
      /\ DiskStays /\ UNCHANGED <<meta, jobs, read, deletes, notices>>
  BY DEF Served, HoldsSync, fsVars, storageVars, observerVars, DiskStays
<1> QED BY <1>1, AnsweredKeeps DEF IsServed


(***************************************************************************)
(* The observer, and the task that sends notices                           *)
(***************************************************************************)
OthersStay(t) == DOMAIN pc' = Task /\ \A u \in Task : u # t => pc'[u] = pc[u]

LEMMA RequestsStay ==
  ASSUME FilesOK, UNCHANGED fileOp, NEW t \in Background, OthersStay(t)
  PROVE  FileRequestsOK' /\ ScansGoOn
<1>1. \A u \in Request : pc'[u] = pc[u]
  BY TaskKinds, HostConstants DEF OthersStay, Background
<1> QED BY <1>1 DEF FilesOK, FileRequestsOK, ScansGoOn

LEMMA NoticeAdded ==
  ASSUME FilesOK, NEW n \in FileNotice, notices' = Append(notices, n),
         pc'["event"] = pc["event"], UNCHANGED <<onDisk, jobs>>
  PROVE  /\ notices' \in Seq(FileNotice) /\ NoticesOK'
         /\ \A x \in File : WillBeParsed(x) => WillBeParsed(x)'
         /\ n.parse /\ onDisk[n.file] # Absent => WillBeParsed(n.file)'
<1>1. notices \in Seq(FileNotice)
  BY DEF FilesOK, FileTypes
<1>2. /\ Len(notices) \in Nat /\ DOMAIN notices = 1..Len(notices)
      /\ DOMAIN notices' = 1..(Len(notices) + 1)
      /\ \A i \in 1..Len(notices) : notices'[i] = notices[i]
      /\ notices'[Len(notices) + 1] = n
      /\ notices' \in Seq(FileNotice) /\ notices' # <<>>
  BY <1>1, Appended
<1>3. notices # <<>> => notices'[1] = notices[1]
  <2>1. notices # <<>> => Len(notices) > 0
    BY <1>1, FirstTaken
  <2> QED BY <1>2, <2>1
<1>4. NoticesOK'
  BY <1>2, <1>3 DEF FilesOK, NoticesOK, Pending
<1>5. ASSUME NEW x \in File, WillBeParsed(x) PROVE WillBeParsed(x)'
  <2>1. PICK i \in DOMAIN notices :
          notices[i].file = x /\ notices[i].parse /\ (i = 1 => pc["event"] = "idle")
    BY <1>5 DEF WillBeParsed
  <2>2. i \in DOMAIN notices' /\ notices'[i] = notices[i]
    BY <1>2
  <2> QED BY <1>5, <2>1, <2>2 DEF WillBeParsed
<1>6. ASSUME n.parse, onDisk[n.file] # Absent PROVE WillBeParsed(n.file)'
  <2>1. Len(notices) = 0 => pc["event"] = "idle"
    <3>1. Len(notices) = 0 => notices = <<>>
      BY <1>1
    <3> QED BY <3>1 DEF FilesOK, NoticesOK
  <2> QED BY <1>2, <1>6, <2>1 DEF WillBeParsed
<1> QED BY <1>2, <1>4, <1>5, <1>6

(* What is read of inotify: the entries of other files stay, but for those   *)
(* whose delete is carried out.                                                *)
ReadOf(e) ==
  /\ events # <<>> /\ e = events[1] /\ events' = Tail(events)
  /\ UNCHANGED <<newest, onDisk, overtaken, jobs, read, fileOp>>
  /\ OthersStay("timer")
  /\ meta' \in [File -> Contents]
  /\ deletes' \subseteq deletes \cup {e.file}
  /\ e.kind # "delete" => deletes' = {}
  /\ \A x \in File : x \notin Names(e) =>
       /\ x \notin deletes => meta'[x] = meta[x]
       /\ x \in deletes /\ x \notin deletes' => meta'[x] = Absent
       /\ WillBeParsed(x) => WillBeParsed(x)'
  /\ notices' \in Seq(FileNotice) /\ NoticesOK'

LEMMA FirstEvent ==
  ASSUME FilesOK, events # <<>>
  PROVE  events[1] \in FileEvent /\ 1 \in DOMAIN events
<1>1. events \in Seq(FileEvent)
  BY DEF FilesOK, FileTypes
<1> QED BY <1>1, FirstTaken

LEMMA LastIsFirst ==
  ASSUME FilesOK, NEW e, ReadOf(e), NEW x \in File, x \in Names(e), ~Unread(x)'
  PROVE  LastOf(x, 1) /\ (Removes(e, x) <=> onDisk[x] = Absent)
<1>1. events \in Seq(FileEvent) /\ events # <<>> /\ e = events[1] /\ events' = Tail(events)
  BY DEF FilesOK, FileTypes, ReadOf
<1>2. /\ Len(events) \in Nat /\ Len(events) > 0
      /\ DOMAIN events = 1..Len(events) /\ DOMAIN events' = 1..(Len(events) - 1)
      /\ \A i \in 1..(Len(events) - 1) : events'[i] = events[i + 1]
  BY <1>1, FirstTaken
<1>3. ASSUME NEW j \in DOMAIN events, j > 1 PROVE x \notin Names(events[j])
  <2>1. j - 1 \in DOMAIN events' /\ events'[j - 1] = events[(j - 1) + 1] /\ (j - 1) + 1 = j
    BY <1>2, <1>3
  <2> QED BY <2>1 DEF Unread, Names
<1>4. LastOf(x, 1)
  BY <1>1, <1>3 DEF LastOf
<1>5. 1 \in DOMAIN events
  BY <1>2
<1> QED BY <1>1, <1>4, <1>5 DEF FilesOK, EventsOK

LEMMA ReadKeeps ==
  ASSUME FilesOK, NEW e, ReadOf(e), \A x \in File : x \in Names(e) => CurrentOK(x)'
  PROVE  FilesOK'
<1>1. events \in Seq(FileEvent) /\ events # <<>> /\ e = events[1] /\ events' = Tail(events)
  BY DEF FilesOK, FileTypes, ReadOf
<1>2. /\ Len(events) \in Nat /\ Len(events) > 0 /\ Tail(events) \in Seq(FileEvent)
      /\ DOMAIN events = 1..Len(events) /\ DOMAIN events' = 1..(Len(events) - 1)
      /\ \A i \in 1..(Len(events) - 1) : events'[i] = events[i + 1]
      /\ e \in FileEvent
  BY <1>1, FirstTaken
<1>3. \A x : Unread(x) <=> Unread(x)' \/ x \in Names(e)
  BY <1>1, UnreadTaken DEF FilesOK
<1>4. /\ DOMAIN pc' = Task /\ pc'["worker"] = pc["worker"] /\ pc'["event"] = pc["event"]
      /\ FileRequestsOK' /\ ScansGoOn
  <2>1. "timer" \in Background
    BY DEF Background
  <2> QED BY <2>1, BackgroundTasks, RequestsStay DEF ReadOf, OthersStay
<1>5. JobsOK'
  BY <1>4, JobsStay DEF FilesOK, ReadOf
<1>6. EventsOK'
  <2>1. ASSUME NEW f \in File, NEW i \in DOMAIN events', LastOf(f, i)'
        PROVE  Removes(events'[i], f) <=> onDisk'[f] = Absent
    <3>1. i + 1 \in DOMAIN events /\ events'[i] = events[i + 1]
      BY <1>2
    <3>2. ASSUME NEW j \in DOMAIN events, j > i + 1 PROVE f \notin Names(events[j])
      <4>1. /\ j - 1 \in DOMAIN events' /\ events'[j - 1] = events[(j - 1) + 1]
            /\ (j - 1) + 1 = j /\ j - 1 > i
        BY <1>2, <3>2
      <4> QED BY <2>1, <4>1 DEF LastOf
    <3>3. LastOf(f, i + 1)
      BY <2>1, <3>1, <3>2 DEF LastOf
    <3> QED BY <3>1, <3>3 DEF FilesOK, EventsOK, ReadOf
  <2>2. ASSUME NEW f \in deletes', ~Unread(f)' PROVE onDisk'[f] = Absent
    <3>1. e.kind = "delete" /\ f \in deletes \cup {e.file} /\ f \in File
      BY <1>2 DEF ReadOf, FilesOK, FileTypes, FileEvent
    <3>2. CASE f \in Names(e)
      BY <2>2, <3>1, <3>2, LastIsFirst DEF Removes, ReadOf
    <3>3. CASE f \notin Names(e)
      BY <1>3, <2>2, <3>1, <3>3 DEF FilesOK, EventsOK, ReadOf, Names
    <3> QED BY <3>2, <3>3
  <2> QED BY <2>1, <2>2 DEF EventsOK
<1>7. MovesOK'
  <2> SUFFICES ASSUME NEW i \in DOMAIN events', events'[i].kind = "move",
                      NEW f, f = events'[i].from, NEW g, g = events'[i].file,
                      g \notin overtaken', LastOf(g, i)'
               PROVE  /\ f \notin deletes' /\ meta'[f] \in {Absent, onDisk'[g]}
                      /\ \A j \in DOMAIN events' : j < i => f \notin Names(events'[j])
    BY DEF MovesOK, MoveOK
  <2>1. i + 1 \in DOMAIN events /\ events'[i] = events[i + 1] /\ 1 < i + 1 /\ 1 \in DOMAIN events
    BY <1>2
  <2>2. events[i + 1] \in FileEvent
    BY <1>1, <2>1
  <2>3. f \in File
    BY <2>1, <2>2 DEF FileEvent
  <2>4. ASSUME NEW j \in DOMAIN events, j > i + 1 PROVE g \notin Names(events[j])
    <3>1. /\ j - 1 \in DOMAIN events' /\ events'[j - 1] = events[(j - 1) + 1]
          /\ (j - 1) + 1 = j /\ j - 1 > i
      BY <1>2, <2>4
    <3> QED BY <3>1 DEF LastOf
  <2>5. LastOf(g, i + 1)
    BY <2>1, <2>4 DEF LastOf
  <2>6. /\ f \notin deletes /\ meta[f] \in {Absent, onDisk[g]}
        /\ \A j \in DOMAIN events : j < i + 1 => f \notin Names(events[j])
    BY <2>1, <2>5 DEF FilesOK, MovesOK, MoveOK, ReadOf
  <2>7. f \notin Names(e)
    BY <1>1, <2>1, <2>6
  <2>8. meta'[f] = meta[f] /\ f \notin deletes' /\ onDisk' = onDisk
    BY <2>3, <2>6, <2>7 DEF ReadOf, Names
  <2>9. ASSUME NEW j \in DOMAIN events', j < i PROVE f \notin Names(events'[j])
    <3>1. j + 1 \in DOMAIN events /\ events'[j] = events[j + 1] /\ j + 1 < i + 1
      BY <1>2, <2>9
    <3> QED BY <2>6, <3>1
  <2> QED BY <2>6, <2>8, <2>9
<1>8. ASSUME NEW x \in File, x \notin Names(e) PROVE CurrentOK(x)'
  <2>1. CurrentOK(x) /\ (Unread(x)' <=> Unread(x)) /\ (Pending(x)' <=> Pending(x))
    BY <1>3, <1>8 DEF FilesOK, ReadOf, Pending
  <2>2. CASE x \in deletes
    <3>1. ~Unread(x) => onDisk[x] = Absent
      BY <2>2 DEF FilesOK, EventsOK
    <3> QED BY <1>8, <2>1, <2>2, <3>1 DEF ReadOf, CurrentOK
  <2>3. CASE x \notin deletes
    <3>1. meta'[x] = meta[x] /\ (WillBeParsed(x) => WillBeParsed(x)')
      BY <1>8, <2>3 DEF ReadOf
    <3>2. WillBeScanned(x) => WillBeScanned(x)'
      BY <1>4, <3>1, ScannedStays
    <3> QED BY <2>1, <2>3, <3>1, <3>2 DEF ReadOf, CurrentOK
  <2> QED BY <2>2, <2>3
<1>9. FileTypes'
  <2>1. deletes' \in SUBSET File
    BY <1>2 DEF ReadOf, FilesOK, FileTypes, FileEvent
  <2> QED BY <1>1, <1>2, <1>4, <2>1 DEF FilesOK, FileTypes, ReadOf
<1>10. NoticesOK'
  BY DEF ReadOf
<1> QED BY <1>4, <1>5, <1>6, <1>7, <1>8, <1>9, <1>10 DEF FilesOK


LEMMA TimerGoes ==
  ASSUME FilesOK, NEW place, Goes("timer", place)
  PROVE  OthersStay("timer") /\ pc'["event"] = pc["event"] /\ pc'["worker"] = pc["worker"]
BY BackgroundTasks DEF Goes, OthersStay, FilesOK, FileTypes

LEMMA WithoutFacts ==
  ASSUME FilesOK, NEW S
  PROVE  /\ Without(S) \in [File -> Contents]
         /\ \A x \in File : /\ x \in S => Without(S)[x] = Absent
                            /\ x \notin S => Without(S)[x] = meta[x]
BY DEF Without, FilesOK, FileTypes, Contents

LEMMA DeleteReadKeeps ==
  ASSUME FilesOK, ReadsEvent, events[1].kind = "delete"
  PROVE  FilesOK'
<1> DEFINE e == events[1]
<1>1. /\ events # <<>> /\ events' = Tail(events) /\ FileDeleted(e.file)
      /\ UNCHANGED <<newest, onDisk, overtaken, jobs, read, fileOp>>
  BY DEF ReadsEvent, fsVars
<1>2. e \in FileEvent
  BY <1>1, FirstEvent
<1> HIDE DEF e
<1>3. deletes' = deletes \cup {e.file} /\ UNCHANGED <<meta, notices>>
  BY <1>1 DEF FileDeleted
<1>4. OthersStay("timer") /\ pc'["event"] = pc["event"]
  BY <1>1, TimerGoes DEF FileDeleted
<1>5. NoticesOK'
  BY <1>1, <1>3, <1>4, NoticesStay DEF FilesOK, Pending
<1>6. \A x \in File : WillBeParsed(x) => WillBeParsed(x)'
  BY <1>1, <1>3, <1>4, ParsedStays
<1>7. ReadOf(e)
  <2>1. meta \in [File -> Contents] /\ notices \in Seq(FileNotice)
    BY DEF FilesOK, FileTypes
  <2>2. e = events[1] /\ e.kind = "delete"
    BY DEF e
  <2> QED BY <1>1, <1>3, <1>4, <1>5, <1>6, <2>1, <2>2 DEF ReadOf
<1>8. ASSUME NEW x \in File, x \in Names(e) PROVE CurrentOK(x)'
  <2>1. e.kind = "delete"
    BY DEF e
  <2>2. e.from = None
    BY <1>2, <2>1 DEF FileEvent
  <2>3. x = e.file
    BY <1>8, <2>2, FilesConstants DEF Names
  <2> QED BY <1>3, <2>3 DEF CurrentOK
<1> QED BY <1>7, <1>8, ReadKeeps

LEMMA WriteReadKeeps ==
  ASSUME FilesOK, ReadsEvent, events[1].kind = "write"
  PROVE  FilesOK'
<1>0. PICK e : e = events[1]
  OBVIOUS
<1>00. PICK n : n = [file |-> e.file, from |-> None, parse |-> TRUE]
  OBVIOUS
<1>1. /\ events # <<>> /\ events' = Tail(events) /\ FileWritten(e.file)
      /\ UNCHANGED <<newest, onDisk, overtaken, jobs, read, fileOp>>
  BY <1>0 DEF ReadsEvent, fsVars
<1>2. e \in FileEvent /\ e.kind = "write"
  BY <1>0, <1>1, FirstEvent
<1>3. e.file \in File /\ e.from = None /\ n \in FileNotice
  BY <1>00, <1>2 DEF FileEvent, FileNotice
<1>4. /\ deletes' = {} /\ meta' = Without(deletes) /\ Goes("timer", "idle")
      /\ (Pending(e.file) /\ UNCHANGED notices) \/ notices' = Append(notices, n)
  BY <1>00, <1>1 DEF FileWritten, Flushed, Queued
<1>5. OthersStay("timer") /\ pc'["event"] = pc["event"]
  BY <1>4, TimerGoes
<1>6. n.parse /\ n.file = e.file
  BY <1>00
<1>8. /\ notices' \in Seq(FileNotice) /\ NoticesOK'
      /\ \A x \in File : WillBeParsed(x) => WillBeParsed(x)'
      /\ Pending(e.file) \/ (onDisk[e.file] # Absent => WillBeParsed(e.file)')
  <2>1. CASE Pending(e.file) /\ UNCHANGED notices
    <3>1. NoticesOK'
      BY <1>1, <1>5, <2>1, NoticesStay DEF FilesOK, Pending
    <3> QED BY <1>1, <1>5, <2>1, <3>1, ParsedStays DEF FilesOK, FileTypes
  <2>2. CASE notices' = Append(notices, n)
    BY <1>1, <1>3, <1>5, <1>6, <2>2, NoticeAdded
  <2> QED BY <1>4, <2>1, <2>2
<1>9. ReadOf(e)
  BY <1>1, <1>4, <1>5, <1>0, <1>8, WithoutFacts DEF ReadOf
<1>10. ASSUME NEW x \in File, x \in Names(e) PROVE CurrentOK(x)'
  <2>1. x = e.file
    BY <1>3, <1>10, FilesConstants DEF Names
  <2>2. ~Unread(x)' => onDisk[x] # Absent
    BY <1>2, <1>3, <1>9, <1>10, LastIsFirst, FilesConstants DEF Removes
  <2>3. Pending(x)' <=> Pending(x)
    BY <1>1 DEF Pending
  <2> QED BY <1>8, <2>1, <2>2, <2>3 DEF CurrentOK
<1> QED BY <1>9, <1>10, ReadKeeps

LEMMA MoveReadKeeps ==
  ASSUME FilesOK, ReadsEvent, events[1].kind = "move"
  PROVE  FilesOK'
<1>1. PICK e : e = events[1]
  OBVIOUS
<1>2. e \in FileEvent /\ e.kind = "move" /\ 1 \in DOMAIN events
  BY <1>1, FirstEvent DEF ReadsEvent
<1>3. PICK f \in File, g \in File : f = e.from /\ g = e.file /\ f # g
  BY <1>2 DEF FileEvent
<1>4. PICK kept : kept = Without(deletes)[f]
  OBVIOUS
<1>5. PICK n \in FileNotice : n = [file |-> g, from |-> f, parse |-> kept = Absent]
  <2>1. [file |-> g, from |-> f, parse |-> kept = Absent] \in FileNotice
    BY DEF FileNotice
  <2> QED BY <2>1
<1>6. /\ events # <<>> /\ events' = Tail(events)
      /\ UNCHANGED <<newest, onDisk, overtaken, jobs, read, fileOp>>
      /\ deletes' = {} /\ Goes("timer", "idle")
      /\ meta' = [Without(deletes) EXCEPT ![f] = Absent, ![g] = kept]
      /\ notices' = Append(notices, n)
  <2>1. FileMoved(f, g)
    BY <1>1, <1>2, <1>3 DEF ReadsEvent
  <2> QED BY <1>4, <1>5, <2>1 DEF ReadsEvent, fsVars, FileMoved, Flushed, Queued
<1>7. OthersStay("timer") /\ pc'["event"] = pc["event"]
  BY <1>6, TimerGoes
<1>8. /\ meta' \in [File -> Contents] /\ meta'[f] = Absent /\ meta'[g] = kept
      /\ \A x \in File : x # f /\ x # g =>
           /\ x \notin deletes => meta'[x] = meta[x]
           /\ x \in deletes => meta'[x] = Absent
  <2>1. Absent \in Contents /\ kept \in Contents
    BY <1>4, WithoutFacts DEF Contents
  <2> QED BY <1>3, <1>6, <2>1, WithoutFacts
<1>9. /\ notices' \in Seq(FileNotice) /\ NoticesOK'
      /\ \A x \in File : WillBeParsed(x) => WillBeParsed(x)'
      /\ kept = Absent /\ onDisk[g] # Absent => WillBeParsed(g)'
  <2>1. n.file = g /\ n.parse = (kept = Absent)
    BY <1>5
  <2> QED BY <1>6, <1>7, <2>1, NoticeAdded
<1>10. \A x : x \in Names(e) <=> x = f \/ x = g
  BY <1>3 DEF Names
<1>11. ReadOf(e)
  BY <1>1, <1>2, <1>6, <1>7, <1>8, <1>9, <1>10 DEF ReadOf
<1>12. CurrentOK(f)'
  <2>1. Removes(e, f)
    BY <1>3 DEF Removes
  <2>2. ~Unread(f)' => onDisk[f] = Absent
    BY <1>10, <1>11, <2>1, LastIsFirst
  <2> QED BY <1>6, <1>8, <2>2 DEF CurrentOK
<1>13. CurrentOK(g)'
  <2> SUFFICES ASSUME g \notin overtaken, ~Unread(g)' PROVE meta'[g] = onDisk[g] \/ WillBeParsed(g)'
    BY <1>6 DEF CurrentOK
  <2>1. ~Removes(e, g)
    BY <1>2, <1>3 DEF Removes
  <2>2. LastOf(g, 1) /\ onDisk[g] # Absent
    BY <1>10, <1>11, <2>1, LastIsFirst
  <2>3. f \notin deletes /\ meta[f] \in {Absent, onDisk[g]}
    BY <1>1, <1>2, <1>3, <2>2 DEF FilesOK, MovesOK, MoveOK
  <2>4. kept = meta[f]
    BY <1>4, <2>3, WithoutFacts
  <2> QED BY <1>8, <1>9, <2>2, <2>3, <2>4
<1> QED BY <1>10, <1>11, <1>12, <1>13, ReadKeeps

LEMMA ReadsEventKeeps ==
  ASSUME FilesOK, ReadsEvent
  PROVE  FilesOK'
<1>1. events[1] \in FileEvent
  BY FirstEvent DEF ReadsEvent
<1>2. events[1].kind \in {"write", "delete", "move"}
  BY <1>1 DEF FileEvent
<1> QED BY <1>2, DeleteReadKeeps, WriteReadKeeps, MoveReadKeeps

LEMMA DeletesExpireKeeps ==
  ASSUME FilesOK, DeletesExpire
  PROVE  FilesOK'
<1>1. /\ meta' = Without(deletes) /\ deletes' = {} /\ Goes("timer", "idle")
      /\ DiskStays /\ UNCHANGED <<fileOp, jobs, read, notices>>
  BY DEF DeletesExpire, fsVars, DiskStays
<1>2. OthersStay("timer") /\ pc'["event"] = pc["event"] /\ pc'["worker"] = pc["worker"]
  BY <1>1, TimerGoes
<1>3. FileRequestsOK' /\ ScansGoOn
  BY <1>1, <1>2, RequestsStay DEF Background
<1>4. /\ meta' \in [File -> Contents]
      /\ \A x \in File : /\ x \in deletes => meta'[x] = Absent
                         /\ x \notin deletes => meta'[x] = meta[x]
  BY <1>1, WithoutFacts
<1>5. FileTypes'
  BY <1>1, <1>2, <1>4 DEF FilesOK, FileTypes, DiskStays, OthersStay
<1>6. JobsOK'
  BY <1>1, <1>2, JobsStay DEF FilesOK, DiskStays
<1>7. \A x : (Pending(x)' <=> Pending(x)) /\ (Unread(x)' <=> Unread(x))
  BY <1>1 DEF Pending, Unread, DiskStays
<1>8. NoticesOK'
  BY <1>1, <1>2, <1>7, NoticesStay DEF FilesOK
<1>9. EventsOK' /\ MovesOK'
  <2>1. \A x \in File : meta'[x] \in {meta[x], Absent}
    BY <1>4
  <2> QED BY <1>1, <2>1, EventsStay, MovesStay DEF FilesOK, DiskStays
<1>10. ASSUME NEW x \in File PROVE CurrentOK(x)'
  <2>1. CurrentOK(x)
    BY DEF FilesOK
  <2>2. CASE x \in deletes
    <3>1. ~Unread(x) => onDisk[x] = Absent
      BY <2>2 DEF FilesOK, EventsOK
    <3> QED BY <1>1, <1>4, <1>7, <2>2, <3>1 DEF CurrentOK, DiskStays
  <2>3. CASE x \notin deletes
    <3>1. WillBeParsed(x) => WillBeParsed(x)'
      BY <1>1, <1>2, ParsedStays DEF DiskStays
    <3>2. WillBeScanned(x) => WillBeScanned(x)'
      BY <1>3, <1>4, <2>3, ScannedStays
    <3> QED BY <1>1, <1>4, <1>7, <2>1, <2>3, <3>1, <3>2 DEF CurrentOK, DiskStays
  <2> QED BY <2>2, <2>3
<1> QED BY <1>3, <1>5, <1>6, <1>8, <1>9, <1>10 DEF FilesOK


LEMMA NotifiesKeeps ==
  ASSUME FilesOK, Notifies
  PROVE  FilesOK'
<1>1. PICK n : n = notices[1]
  OBVIOUS
<1>2. notices # <<>> /\ DiskStays /\ UNCHANGED <<fileOp, meta, read, deletes>>
  BY DEF Notifies, fsVars, DiskStays
<1>3. notices \in Seq(FileNotice)
  BY DEF FilesOK, FileTypes
<1>4. /\ n \in FileNotice /\ Tail(notices) \in Seq(FileNotice)
      /\ Len(notices) \in Nat /\ Len(notices) > 0 /\ DOMAIN notices = 1..Len(notices)
      /\ DOMAIN Tail(notices) = 1..(Len(notices) - 1)
      /\ \A i \in 1..(Len(notices) - 1) : Tail(notices)[i] = notices[i + 1]
  BY <1>1, <1>2, <1>3, FirstTaken
<1>5. PICK f \in File : f = n.file
  BY <1>4 DEF FileNotice
<1>6. CASE /\ pc["event"] = "idle" /\ onDisk[f] # Absent
           /\ ParseMetadata("event", f, onDisk[f]) /\ UNCHANGED notices
  <2>1. /\ jobs' = IF Pending(f) THEN jobs ELSE Append(jobs, [file |-> f, info |-> onDisk[f]])
        /\ Goes("event", "parsing")
    BY <1>6 DEF ParseMetadata
  <2>2. OthersStay("event") /\ pc'["event"] = "parsing" /\ pc'["worker"] = pc["worker"]
    BY <2>1, BackgroundTasks DEF Goes, OthersStay, FilesOK, FileTypes
  <2>3. FileRequestsOK' /\ ScansGoOn
    BY <1>2, <2>2, RequestsStay DEF Background
  <2>4. Pending(f)' => NoticesOK'
    BY <1>1, <1>2, <1>5, <1>6, <2>2 DEF NoticesOK
  <2>5. ASSUME NEW x \in File, x # f, WillBeParsed(x) PROVE WillBeParsed(x)'
    <3>1. PICK i \in DOMAIN notices : notices[i].file = x /\ notices[i].parse
      BY <2>5 DEF WillBeParsed
    <3>2. i # 1
      BY <1>1, <1>5, <2>5, <3>1
    <3> QED BY <1>2, <1>6, <2>5, <3>1, <3>2 DEF WillBeParsed, DiskStays
  <2>6. \A x \in File : WillBeScanned(x) => WillBeScanned(x)'
    BY <1>2, <2>3, ScannedStays
  <2>7. DOMAIN pc' = Task
    BY <2>2 DEF OthersStay
  <2> QED BY <1>2, <1>6, <2>1, <2>2, <2>3, <2>4, <2>5, <2>6, <2>7, AskedKeeps
<1>7. CASE /\ \/ pc["event"] = "parsed"
              \/ n.parse /\ onDisk[f] # Absent => ~MustWait(f, onDisk[f])
           /\ Sent(n)
  <2>1. Goes("event", "idle") /\ notices' = Tail(notices) /\ UNCHANGED jobs
    BY <1>7 DEF Sent
  <2>2. OthersStay("event") /\ pc'["event"] = "idle" /\ pc'["worker"] = pc["worker"]
    BY <2>1, BackgroundTasks DEF Goes, OthersStay, FilesOK, FileTypes
  <2>3. FileRequestsOK' /\ ScansGoOn
    BY <1>2, <2>2, RequestsStay DEF Background
  <2>4. NoticesOK'
    BY <2>2 DEF NoticesOK
  <2>5. JobsOK'
    BY <1>2, <2>1, <2>2, JobsStay DEF FilesOK, DiskStays
  <2>6. EventsOK' /\ MovesOK'
    BY <1>2, EventsStay, MovesStay DEF FilesOK, DiskStays
  <2>7. FileTypes'
    BY <1>2, <1>4, <2>1, <2>2 DEF FilesOK, FileTypes, DiskStays, OthersStay
  <2>8. ASSUME NEW x \in File, WillBeParsed(x)
        PROVE  WillBeParsed(x)' \/ (~Pending(x) => meta[x] = onDisk[x])
    <3>1. PICK i \in DOMAIN notices :
            notices[i].file = x /\ notices[i].parse /\ (i = 1 => pc["event"] = "idle")
      BY <2>8 DEF WillBeParsed
    <3>2. CASE i = 1
      BY <1>1, <1>5, <1>7, <2>8, <3>1, <3>2 DEF WillBeParsed, MustWait
    <3>3. CASE i # 1
      <4>1. i - 1 \in DOMAIN notices' /\ notices'[i - 1] = notices[(i - 1) + 1] /\ (i - 1) + 1 = i
        BY <1>4, <2>1, <3>3
      <4> QED BY <1>2, <2>2, <2>8, <3>1, <4>1 DEF WillBeParsed, DiskStays
    <3> QED BY <3>2, <3>3
  <2>9. ASSUME NEW x \in File PROVE CurrentOK(x)'
    <3>1. CurrentOK(x) /\ (Pending(x)' <=> Pending(x)) /\ (Unread(x)' <=> Unread(x))
      BY <1>2, <2>1 DEF FilesOK, Pending, Unread, DiskStays
    <3>2. WillBeScanned(x) => WillBeScanned(x)'
      BY <1>2, <2>3, ScannedStays
    <3> QED BY <1>2, <2>8, <3>1, <3>2 DEF CurrentOK, DiskStays
  <2> QED BY <2>3, <2>4, <2>5, <2>6, <2>7, <2>9 DEF FilesOK
<1> QED BY <1>1, <1>5, <1>6, <1>7 DEF Notifies, Idle

(***************************************************************************)
(* The task that extracts metadata                                         *)
(***************************************************************************)
LEMMA FirstJob ==
  ASSUME FilesOK, jobs # <<>>
  PROVE  /\ jobs[1] \in FileJob /\ jobs[1].file \in File /\ jobs[1].info \in Contents
         /\ 1 \in DOMAIN jobs
<1>1. jobs \in Seq(FileJob)
  BY DEF FilesOK, FileTypes
<1>2. jobs[1] \in FileJob /\ 1 \in DOMAIN jobs
  BY <1>1, FirstTaken
<1> QED BY <1>2 DEF FileJob, Contents

LEMMA ProcessesNextKeeps ==
  ASSUME FilesOK, ProcessesNext
  PROVE  FilesOK'
<1>1. /\ pc["worker"] = "idle" /\ jobs # <<>> /\ DiskStays
      /\ UNCHANGED <<fileOp, meta, jobs, deletes, notices>>
      /\ \/ UNCHANGED <<pc, read>>
         \/ Goes("worker", "extracting") /\ read' = onDisk[jobs[1].file]
  BY DEF ProcessesNext, Idle, fsVars, observerVars, DiskStays
<1>2. CASE UNCHANGED <<pc, read>>
  <2>1. FileRequestsOK' /\ ScansGoOn /\ DOMAIN pc' = Task
    BY <1>1, <1>2 DEF FilesOK, FileTypes, FileRequestsOK, ScansGoOn
  <2>2. \A x \in File : WillBeScanned(x) => WillBeScanned(x)'
    BY <1>1, <2>1, ScannedStays
  <2> QED BY <1>1, <1>2, <2>1, <2>2, CalmKeepsFiles
<1>3. CASE Goes("worker", "extracting") /\ read' = onDisk[jobs[1].file]
  <2>1. OthersStay("worker") /\ pc'["event"] = pc["event"] /\ pc'["worker"] = "extracting"
    BY <1>3, BackgroundTasks DEF Goes, OthersStay, FilesOK, FileTypes
  <2>2. FileRequestsOK' /\ ScansGoOn
    BY <1>1, <2>1, RequestsStay DEF Background
  <2>3. JobsOK'
    BY <1>1, <1>3 DEF FilesOK, JobsOK, DiskStays
  <2>4. \A x : (Pending(x)' <=> Pending(x)) /\ (Unread(x)' <=> Unread(x))
    BY <1>1 DEF Pending, Unread, DiskStays
  <2>5. NoticesOK'
    BY <1>1, <2>1, <2>4, NoticesStay DEF FilesOK
  <2>6. EventsOK' /\ MovesOK'
    BY <1>1, EventsStay, MovesStay DEF FilesOK, DiskStays
  <2>7. FileTypes'
    BY <1>1, <1>3, <2>1, FirstJob DEF FilesOK, FileTypes, DiskStays, OthersStay
  <2>8. ASSUME NEW x \in File PROVE CurrentOK(x)'
    <3>1. CurrentOK(x)
      BY DEF FilesOK
    <3>2. WillBeParsed(x) => WillBeParsed(x)'
      BY <1>1, <2>1, ParsedStays DEF DiskStays
    <3>3. WillBeScanned(x) => WillBeScanned(x)'
      BY <1>1, <2>2, ScannedStays
    <3> QED BY <1>1, <2>4, <3>1, <3>2, <3>3 DEF CurrentOK, DiskStays
  <2> QED BY <2>2, <2>3, <2>5, <2>6, <2>7, <2>8 DEF FilesOK
<1> QED BY <1>1, <1>2, <1>3

(* What is stored is what is on the disk, unless the file is overtaken, and all *)
(* that is read of inotify meanwhile has been dealt with.                        *)
LEMMA ExtractedKeeps ==
  ASSUME FilesOK, Extracted
  PROVE  FilesOK'
<1>1. /\ pc["worker"] = "extracting" /\ events = <<>> /\ DiskStays
      /\ UNCHANGED <<fileOp, deletes, notices>>
  BY DEF Extracted, fsVars, observerVars, DiskStays
<1>2. PICK c \in {jobs[1].info, read} : Stored(c)
  BY DEF Extracted
<1>3. jobs # <<>>
  BY <1>1 DEF FilesOK, JobsOK
<1>4. PICK f \in File : f = jobs[1].file
  BY <1>3, FirstJob
<1>5. c \in Contents /\ (f \notin overtaken => c = onDisk[f])
  BY <1>1, <1>3, <1>4, FirstJob DEF FilesOK, FileTypes, JobsOK
<1>6. /\ meta' = [meta EXCEPT ![f] = c] /\ jobs' = Tail(jobs) /\ read' = Absent
      /\ DOMAIN pc' = Task /\ pc'["worker"] = "idle"
      /\ \A t \in Task : t # "worker" => pc'[t] = pc[t] \/ (pc[t] = "parsing" /\ pc'[t] = "parsed")
      /\ pc'["event"] = "parsing" => notices[1].file # f
  BY <1>2, <1>4, BackgroundTasks DEF Stored
<1>7. /\ meta' \in [File -> Contents] /\ meta'[f] = c
      /\ \A x \in File : x # f => meta'[x] = meta[x]
  BY <1>5, <1>6 DEF FilesOK, FileTypes
<1>8. \A x : Pending(x)' <=> Pending(x) /\ x # f
  BY <1>3, <1>4, <1>6, PendingTaken DEF FilesOK
<1>9. /\ Tail(jobs) \in Seq(FileJob)
      /\ Len(jobs) \in Nat /\ DOMAIN jobs = 1..Len(jobs) /\ DOMAIN jobs' = 1..(Len(jobs) - 1)
      /\ \A i \in 1..(Len(jobs) - 1) : jobs'[i] = jobs[i + 1]
  <2>1. jobs \in Seq(FileJob)
    BY DEF FilesOK, FileTypes
  <2> QED BY <1>3, <1>6, <2>1, FirstTaken
<1>10. JobsOK'
  <2>1. \A i \in DOMAIN jobs' : i + 1 \in DOMAIN jobs /\ jobs'[i] = jobs[i + 1]
    BY <1>9
  <2>2. \A i, j \in DOMAIN jobs' : jobs'[i].file = jobs'[j].file => i = j
    <3> TAKE i, j \in DOMAIN jobs'
    <3>1. jobs[i + 1].file = jobs[j + 1].file => i + 1 = j + 1
      BY <2>1 DEF FilesOK, JobsOK
    <3> QED BY <1>9, <2>1, <3>1
  <2>3. \A i \in DOMAIN jobs' : jobs'[i].file \notin overtaken => jobs'[i].info = onDisk[jobs'[i].file]
    BY <2>1 DEF FilesOK, JobsOK
  <2> QED BY <1>1, <1>6, <2>2, <2>3 DEF JobsOK, DiskStays
<1>11. /\ pc'["event"] = pc["event"] \/ (pc["event"] = "parsing" /\ pc'["event"] = "parsed")
       /\ \A t \in Request : pc'[t] = pc[t] \/ (pc[t] = "parsing" /\ pc'[t] = "parsed")
  BY <1>6, BackgroundTasks, TaskKinds
<1>12. NoticesOK'
  BY <1>1, <1>6, <1>8, <1>11 DEF FilesOK, NoticesOK
<1>13. FileRequestsOK' /\ ScansGoOn
  BY <1>1, <1>11 DEF FilesOK, FileRequestsOK, ScansGoOn
<1>14. EventsOK' /\ MovesOK'
  <2>1. DOMAIN events = {}
    BY <1>1
  <2>2. MovesOK'
    BY <1>1, <2>1 DEF MovesOK, DiskStays
  <2> QED BY <1>1, <2>2, EventsStay DEF FilesOK, DiskStays
<1>15. FileTypes'
  <2>1. Absent \in Contents
    BY DEF Contents
  <2> QED BY <1>1, <1>6, <1>7, <1>9, <2>1 DEF FilesOK, FileTypes, DiskStays
<1>16. ASSUME NEW x \in File PROVE CurrentOK(x)'
  <2>1. CASE x = f
    BY <1>1, <1>5, <1>7, <2>1 DEF CurrentOK, DiskStays
  <2>2. CASE x # f
    <3>1. CurrentOK(x) /\ meta'[x] = meta[x] /\ (Pending(x)' <=> Pending(x)) /\ (Unread(x)' <=> Unread(x))
      BY <1>1, <1>7, <1>8, <2>2 DEF FilesOK, Unread, DiskStays
    <3>2. WillBeParsed(x) => WillBeParsed(x)'
      BY <1>1, <1>11 DEF WillBeParsed, DiskStays
    <3>3. WillBeScanned(x) => WillBeScanned(x)'
      BY <1>13, <3>1, ScannedStays
    <3> QED BY <1>1, <3>1, <3>2, <3>3 DEF CurrentOK, DiskStays
  <2> QED BY <2>1, <2>2
<1> QED BY <1>10, <1>12, <1>13, <1>14, <1>15, <1>16 DEF FilesOK

LEMMA FilesKeeps ==
  ASSUME FilesOK, FilesNext
  PROVE  FilesOK'
<1>1. ASSUME NEW t \in Request, NEW f \in File, NEW g \in File \cup {None},
             NEW what \in {"upload", "delete", "scan", "move", "copy"}, AskFiles(t, what, f, g)
      PROVE  FilesOK'
  BY <1>1, AskFilesKeeps DEF FileOps
<1>2. ASSUME NEW t \in Request, FileRequest(t)
      PROVE  FilesOK'
  BY <1>2, ServesKeeps, CopiesKeeps, ScansKeeps, ServedKeeps DEF FileRequest
<1> QED BY <1>1, <1>2, MeddlesKeeps, ReadsEventKeeps, DeletesExpireKeeps, NotifiesKeeps,
           ProcessesNextKeeps, ExtractedKeeps DEF FilesNext, Extraction

(* The files whose metadata is extracted at the start are those that changed. *)
LEMMA FilesBegin ==
  ASSUME HostInit, FilesInit
  PROVE  FilesOK
<1>1. PICK stale \in SUBSET File :
        /\ onDisk = [f \in File |-> <<f, IF f \in stale THEN 1 ELSE 0>>]
        /\ jobs = SetToSeq({[file |-> f, info |-> <<f, 1>>] : f \in stale})
  <2>1. Among(SUBSET File, "files") \subseteq SUBSET File
    <3>1. {} \in SUBSET File
      OBVIOUS
    <3>2. (CHOOSE x \in SUBSET File : TRUE) \in SUBSET File
      BY <3>1
    <3> QED BY <3>2 DEF Among
  <2> QED BY <2>1 DEF FilesInit
<1> DEFINE S == {[file |-> f, info |-> <<f, 1>>] : f \in stale}
<1>2. IsFiniteSet(S)
  <2>1. IsFiniteSet(stale)
    BY FilesConstants, FS_Subset
  <2> DEFINE fileJob == [f \in stale |-> [file |-> f, info |-> <<f, 1>>]]
  <2>2. fileJob \in Surjection(stale, S)
    BY DEF Surjection
  <2> QED BY <2>1, <2>2, FS_Surjection
<1>3. /\ jobs \in [1..Cardinality(S) -> S] /\ Cardinality(S) \in Nat
      /\ \A i, j \in 1..Cardinality(S) : jobs[i] = jobs[j] => i = j
      /\ \A s \in S : \E i \in 1..Cardinality(S) : jobs[i] = s
  <2> DEFINE n == Cardinality(S)
  <2>1. n \in Nat /\ ExistsBijection(1..n, S)
    BY <1>2, FS_CardinalityType
  <2>2. \E q \in [1..n -> S] : \A i, j \in 1..n : q[i] = q[j] => i = j
    BY <2>1 DEF ExistsBijection, Bijection, Injection, IsInjective
  <2>3. jobs = CHOOSE q \in [1..n -> S] : IsInjective(q)
    BY <1>1 DEF SetToSeq
  <2> HIDE DEF n
  <2>4. jobs \in [1..n -> S] /\ \A i, j \in 1..n : jobs[i] = jobs[j] => i = j
    <3>1. \E q \in [1..n -> S] : IsInjective(q)
      BY <2>2 DEF IsInjective
    <3>2. jobs \in [1..n -> S] /\ IsInjective(jobs)
      BY <2>3, <3>1
    <3> QED BY <3>2 DEF IsInjective
  <2>5. jobs \in Injection(1..n, S)
    BY <2>4 DEF Injection, IsInjective
  <2>6. IsFiniteSet(1..n) /\ Cardinality(1..n) = n
    BY <2>1, FS_Interval
  <2>7. jobs \in Surjection(1..n, S)
    BY <1>2, <2>5, <2>6, FS_Injection DEF n
  <2>8. \A s \in S : \E i \in 1..n : jobs[i] = s
    BY <2>7 DEF Surjection
  <2> QED BY <2>1, <2>4, <2>8 DEF n
<1>4. \A s \in S : s \in FileJob /\ s.file \in stale /\ s.info = <<s.file, 1>>
  BY DEF FileJob
<1>5. jobs \in Seq(FileJob) /\ DOMAIN jobs = 1..Cardinality(S)
  <2> HIDE DEF S
  <2>1. jobs \in [1..Cardinality(S) -> FileJob]
    BY <1>3, <1>4
  <2> QED BY <1>3, <2>1
<1>6. \A i \in DOMAIN jobs : jobs[i] \in S
  BY <1>3, <1>5
<1>7. /\ meta = [f \in File |-> <<f, 0>>] /\ events = <<>> /\ notices = <<>> /\ read = Absent
      /\ newest = 1 /\ deletes = {} /\ overtaken = {} /\ fileOp = [t \in Request |-> NoOp]
      /\ pc = [t \in Task |-> "idle"]
  BY DEF FilesInit, HostInit
<1>8. FileTypes
  <2>1. onDisk \in [File -> Contents] /\ meta \in [File -> Contents] /\ read \in Contents
    BY <1>1, <1>7 DEF Contents
  <2> QED BY <1>5, <1>7, <2>1 DEF FileTypes
<1>9. FileRequestsOK
  BY <1>7, TaskKinds DEF FileRequestsOK
<1>10. JobsOK
  <2> HIDE DEF S
  <2>1. \A i, j \in DOMAIN jobs : jobs[i].file = jobs[j].file => i = j
    <3> TAKE i, j \in DOMAIN jobs
    <3>1. jobs[i] \in FileJob /\ jobs[j] \in FileJob
      BY <1>4, <1>6
    <3>2. jobs[i].file = jobs[j].file => jobs[i] = jobs[j]
      BY <1>4, <1>6, <3>1 DEF FileJob
    <3> QED BY <1>3, <1>5, <3>2
  <2>2. \A i \in DOMAIN jobs : jobs[i].info = onDisk[jobs[i].file]
    BY <1>1, <1>4, <1>6
  <2>3. pc["worker"] = "idle"
    BY <1>7, BackgroundTasks
  <2> QED BY <2>1, <2>2, <2>3 DEF JobsOK
<1>11. NoticesOK
  BY <1>7, BackgroundTasks DEF NoticesOK
<1>12. EventsOK /\ MovesOK
  BY <1>7 DEF EventsOK, MovesOK
<1>13. ASSUME NEW x \in File PROVE CurrentOK(x)
  <2>1. CASE x \in stale
    <3>1. [file |-> x, info |-> <<x, 1>>] \in S
      BY <2>1
    <3>2. Pending(x)
      <4>1. PICK i \in DOMAIN jobs : jobs[i] = [file |-> x, info |-> <<x, 1>>]
        BY <1>3, <1>5, <3>1
      <4> QED BY <4>1 DEF Pending
    <3> QED BY <3>2 DEF CurrentOK
  <2>2. CASE x \notin stale
    BY <1>1, <1>7, <2>2 DEF CurrentOK
  <2> QED BY <2>1, <2>2
<1> QED BY <1>8, <1>9, <1>10, <1>11, <1>12, <1>13 DEF FilesOK

LEMMA FilesAreCurrent ==
  ASSUME FilesOK
  PROVE  MetadataCurrent
<1> SUFFICES ASSUME NEW f \in File \ overtaken, ~Unsettled(f),
                    \A t \in Request : fileOp[t].file # f
             PROVE  meta[f] = onDisk[f]
  BY DEF MetadataCurrent
<1>1. CurrentOK(f) /\ ~WillBeParsed(f) /\ ~WillBeScanned(f)
  BY DEF FilesOK, Unsettled, ToNotify, WillBeParsed, WillBeScanned
<1> QED BY <1>1 DEF CurrentOK, Unsettled

(***************************************************************************)
(* Queues: what goes to the end, and what is taken from the front.          *)
(***************************************************************************)
LEMMA FirstAndRest ==
  ASSUME NEW S, NEW q \in Seq(S), q # <<>>
  PROVE  /\ Len(q) \in Nat \ {0} /\ Head(q) = q[1] /\ Head(q) \in S
         /\ Tail(q) \in Seq(S) /\ Len(Tail(q)) = Len(q) - 1
         /\ \A i \in 1..Len(Tail(q)) : Tail(q)[i] = q[i + 1] /\ i + 1 \in 1..Len(q)
OBVIOUS

LEMMA AddedLast ==
  ASSUME NEW S, NEW q \in Seq(S), NEW e \in S
  PROVE  /\ Append(q, e) \in Seq(S) /\ Len(q) \in Nat /\ Len(Append(q, e)) = Len(q) + 1
         /\ \A i \in 1..Len(q) : Append(q, e)[i] = q[i] /\ q[i] \in S
         /\ Append(q, e)[Len(q) + 1] = e /\ Append(q, e) # <<>>
OBVIOUS

(***************************************************************************)
(* Strips of lights: of each thing that is said of a strip, the last command *)
(* that waits and decides it says the same, or the strip shows it.           *)
(***************************************************************************)
StripState == [on : BOOLEAN, preset : {"none", "party"}, bright : {"unknown", "full", "dim"},
               chain : [Pixel -> Color], full : BOOLEAN]
PixelColors == UNION {[S -> Color] : S \in SUBSET Pixel}
StripCommand == {c \in [on : {"on", "off", "same"}, preset : {"none", "party", "same"},
                        bright : {"same", "full", "dim"}, pixels : PixelColors] :
                   c.pixels # NoPixels => c.on = "on"}

StripTypes ==
  /\ DOMAIN pc = Task /\ DOMAIN stripTodo = Task
  /\ stripPreset0 \in {"none", "party"} /\ strip \in StripState
  /\ {stripUp, stripLost, stripRepeated, lights.on} \subseteq BOOLEAN
  /\ lights.preset \in {"none", "party"} /\ lights.pixels \in [Pixel -> Color \cup {"other"}]
  /\ stripQueue \in Seq([task : Task, command : StripCommand])

(* What a command decides, and how; what the strip shows of it *)
Decides(what, p, c) ==
  \/ what = "on" /\ c.on # "same"
  \/ what = "preset" /\ c.preset # Same
  \/ what = "bright" /\ (c.bright # Same \/ c.preset = "party")
  \/ what = "pixel" /\ (p \in DOMAIN c.pixels \/ c.on = "off" \/ c.preset = "party")

AsDecided(what, p, c, v) ==
  \/ what = "on" /\ v = c.on
  \/ what = "preset" /\ v = c.preset
  \/ what = "bright" /\ v = IF c.preset = "party" THEN "other" ELSE c.bright
  \/ what = "pixel" /\ v = IF p \in DOMAIN c.pixels THEN c.pixels[p] ELSE "other"

Shown(what, p, v) ==
  \/ what = "on" /\ v = IF lights.on THEN "on" ELSE "off"
  \/ what = "preset" /\ v = lights.preset
  \/ what = "bright" /\ v = lights.bright
  \/ what = "pixel" /\ v = lights.pixels[p]

WillShow(what, p, v) ==
  IF \E i \in 1..Len(stripQueue) : Decides(what, p, stripQueue[i].command)
  THEN \E i \in 1..Len(stripQueue) :
         /\ Decides(what, p, stripQueue[i].command) /\ AsDecided(what, p, stripQueue[i].command, v)
         /\ \A j \in i + 1..Len(stripQueue) : ~Decides(what, p, stripQueue[j].command)
  ELSE Shown(what, p, v)

SaidOn == IF strip.on THEN "on" ELSE "off"
(* Colors for a strip that is off will be sent again. *)
ColorsLast == stripQueue # <<>> /\ stripQueue[Len(stripQueue)].command.pixels # NoPixels

StripSays ==
  /\ WillShow("on", 1, SaidOn) \/ (~strip.on /\ ColorsLast)
  /\ WillShow("preset", 1, strip.preset)
  /\ strip.bright # "unknown" => WillShow("bright", 1, strip.bright)
  /\ ~strip.full => \A p \in Pixel : WillShow("pixel", p, strip.chain[p])

StripSenders ==
  /\ \A i, j \in 1..Len(stripQueue) : i # j => stripQueue[i].task # stripQueue[j].task
  /\ \A t \in Task : pc[t] = "sending" <=> \E i \in 1..Len(stripQueue) : stripQueue[i].task = t

StripsOK ==
  /\ StripTypes /\ StripSenders
  /\ ~Idle("init") => ~stripUp /\ pc["init"] = "sending"
  /\ ~stripUp => \A t \in Request : Idle(t)
  /\ stripUp \/ ~Idle("init") \/ stripQueue = <<>>
  /\ (stripUp \/ ~Idle("init")) /\ ~stripLost /\ ~stripRepeated => StripSays

LEMMA StripTasks == "init" \in Task /\ "init" \notin Request /\ Request \subseteq Task
BY HostConstants DEF Task, Background

LEMMA StripsBegin ==
  ASSUME HostInit, StripsInit, component = "wled"
  PROVE  StripsOK
<1>1. /\ DOMAIN pc = Task /\ (\A t \in Task : pc[t] = "idle")
      /\ stripPreset0 \in {"none", "party"} /\ stripUp = FALSE
      /\ strip = [on |-> FALSE, preset |-> stripPreset0, bright |-> "unknown",
                  chain |-> All("initial"), full |-> TRUE]
      /\ stripTodo = [t \in Task |-> <<>>] /\ stripQueue = <<>>
      /\ lights = [on |-> FALSE, preset |-> "none", bright |-> "other", pixels |-> All("other")]
      /\ stripLost = FALSE /\ stripRepeated = FALSE
  BY DEF HostInit, StripsInit, Among
<1>2. strip \in StripState
  <2>1. \A b, c \in BOOLEAN : [on |-> b, preset |-> stripPreset0, bright |-> "unknown",
                               chain |-> All("initial"), full |-> c] \in StripState
    BY <1>1 DEF StripState, All, Color
  <2> QED BY <1>1, <2>1, Zenon
<1>3. stripUp \in BOOLEAN /\ stripLost \in BOOLEAN /\ stripRepeated \in BOOLEAN /\ lights.on \in BOOLEAN
      /\ lights.preset \in {"none", "party"} /\ lights.pixels \in [Pixel -> Color \cup {"other"}]
  BY <1>1 DEF All
<1>4. stripQueue \in Seq([task : Task, command : StripCommand]) /\ DOMAIN stripTodo = Task
  BY <1>1
<1>5. StripTypes
  BY <1>1, <1>2, <1>3, <1>4 DEF StripTypes
<1>6. StripSenders /\ Idle("init") /\ ~stripUp /\ \A t \in Request : Idle(t)
  BY <1>1, StripTasks DEF StripSenders, Idle
<1> QED BY <1>1, <1>5, <1>6 DEF StripsOK

LEMMA StripsServe ==
  ASSUME StripsOK
  PROVE  StripAsSaid /\ StripsTypeOK
<1>1. ASSUME stripUp, stripQueue = <<>>, ~stripLost, ~stripRepeated
      PROVE  /\ lights.on = strip.on
             /\ lights.preset = strip.preset
             /\ strip.bright # "unknown" => lights.bright = strip.bright
             /\ strip.preset = "none" /\ ~strip.full => lights.pixels = strip.chain
  <2>0. StripSays /\ StripTypes
    BY <1>1 DEF StripsOK
  <2>1. \A what, p, v : WillShow(what, p, v) <=> Shown(what, p, v)
    BY <1>1 DEF WillShow
  <2>2. lights.on = strip.on
    BY <1>1, <2>0, <2>1 DEF StripSays, ColorsLast, Shown, SaidOn, StripTypes, StripState
  <2>3. lights.preset = strip.preset /\ (strip.bright # "unknown" => lights.bright = strip.bright)
    BY <1>1, <2>0, <2>1 DEF StripSays, Shown
  <2>4. ~strip.full => \A p \in Pixel : lights.pixels[p] = strip.chain[p]
    BY <1>1, <2>0, <2>1 DEF StripSays, Shown
  <2>5. ~strip.full => lights.pixels = strip.chain
    BY <2>0, <2>4 DEF StripTypes, StripState
  <2> QED BY <2>2, <2>3, <2>5
<1>2. StripsTypeOK
  BY DEF StripsTypeOK, StripsOK, StripTypes, StripState, StripSenders
<1> QED BY <1>1, <1>2 DEF StripAsSaid

(* A command goes to the end of the queue. *)
LEMMA StripCommandQueued ==
  ASSUME StripTypes, NEW t \in Task, NEW c \in StripCommand, SendsInTurn(t, c), lights' = lights
  PROVE  /\ stripQueue' \in Seq([task : Task, command : StripCommand])
         /\ Len(stripQueue') = Len(stripQueue) + 1 /\ Len(stripQueue) \in Nat
         /\ \A i \in 1..Len(stripQueue) : stripQueue'[i] = stripQueue[i]
         /\ stripQueue'[Len(stripQueue')].task = t /\ stripQueue'[Len(stripQueue')].command = c
         /\ \A what, p, v : Decides(what, p, c) /\ AsDecided(what, p, c, v) => WillShow(what, p, v)'
         /\ \A what, p, v : ~Decides(what, p, c) /\ WillShow(what, p, v) => WillShow(what, p, v)'
<1> DEFINE e == [task |-> t, command |-> c]
           n == Len(stripQueue')
<1>1. /\ stripQueue' = Append(stripQueue, e) /\ e.task = t /\ e.command = c
      /\ e \in [task : Task, command : StripCommand]
  BY DEF SendsInTurn
<1> HIDE DEF e
<1>2. /\ stripQueue' \in Seq([task : Task, command : StripCommand])
      /\ n = Len(stripQueue) + 1 /\ Len(stripQueue) \in Nat
      /\ \A i \in 1..Len(stripQueue) : stripQueue'[i] = stripQueue[i]
      /\ stripQueue'[n] = e
  BY <1>1 DEF StripTypes
<1>3. ASSUME NEW what, NEW p, NEW v, Decides(what, p, c), AsDecided(what, p, c, v)
      PROVE  WillShow(what, p, v)'
  <2>1. n \in 1..n /\ stripQueue'[n].command = c /\ n + 1..n = {}
    BY <1>1, <1>2
  <2>2. Decides(what, p, stripQueue'[n].command) /\ AsDecided(what, p, stripQueue'[n].command, v)
    BY <1>3, <2>1
  <2> QED BY <2>1, <2>2 DEF WillShow
<1>4. ASSUME NEW what, NEW p, NEW v, ~Decides(what, p, c), WillShow(what, p, v)
      PROVE  WillShow(what, p, v)'
  <2>1. CASE \E i \in 1..Len(stripQueue) : Decides(what, p, stripQueue[i].command)
    <3>1. PICK i \in 1..Len(stripQueue) :
            /\ Decides(what, p, stripQueue[i].command) /\ AsDecided(what, p, stripQueue[i].command, v)
            /\ \A j \in i + 1..Len(stripQueue) : ~Decides(what, p, stripQueue[j].command)
      BY <1>4, <2>1 DEF WillShow
    <3>2. /\ i \in 1..n /\ stripQueue'[i] = stripQueue[i]
          /\ \A j \in i + 1..n : ~Decides(what, p, stripQueue'[j].command)
      BY <1>1, <1>2, <1>4, <3>1
    <3> QED BY <3>1, <3>2 DEF WillShow
  <2>2. CASE ~\E i \in 1..Len(stripQueue) : Decides(what, p, stripQueue[i].command)
    <3>1. ~\E i \in 1..n : Decides(what, p, stripQueue'[i].command)
      BY <1>1, <1>2, <1>4, <2>2
    <3>2. Shown(what, p, v)'
      BY <1>4, <2>2 DEF WillShow, Shown
    <3> QED BY <3>1, <3>2 DEF WillShow
  <2> QED BY <2>1, <2>2
<1> QED BY <1>1, <1>2, <1>3, <1>4

ShowsNow(what, p) == what \in {"on", "preset", "bright"} \/ (what = "pixel" /\ p \in Pixel)

(* What a command decides is shown, and the rest stays. *)
LEMMA CommandShows ==
  ASSUME StripTypes, NEW c \in StripCommand, lights' = ShowsCommand(c)
  PROVE  /\ \A what, p, v : ShowsNow(what, p) /\ Decides(what, p, c) /\ AsDecided(what, p, c, v)
                              => Shown(what, p, v)'
         /\ \A what, p, v : ShowsNow(what, p) /\ ~Decides(what, p, c) /\ Shown(what, p, v)
                              => Shown(what, p, v)'
         /\ lights'.on \in BOOLEAN /\ lights'.preset \in {"none", "party"}
         /\ lights'.pixels \in [Pixel -> Color \cup {"other"}]
<1>1. /\ lights'.on = IF c.on = "same" THEN lights.on ELSE c.on = "on"
      /\ lights'.preset = IF c.preset = "same" THEN lights.preset ELSE c.preset
      /\ lights'.bright = IF c.preset = "party" THEN "other"
                          ELSE IF c.bright = "same" THEN lights.bright ELSE c.bright
      /\ lights'.pixels = [p \in Pixel |-> IF p \in DOMAIN c.pixels THEN c.pixels[p]
                                           ELSE IF c.on = "off" \/ c.preset = "party" THEN "other"
                                           ELSE lights.pixels[p]]
  BY DEF ShowsCommand, Or, Same
<1>2. c.on \in {"on", "off", "same"} /\ c.preset \in {"none", "party", "same"}
      /\ \A p \in DOMAIN c.pixels : c.pixels[p] \in Color
  BY DEF StripCommand, PixelColors
<1>3. lights'.on \in BOOLEAN
  BY <1>1, <1>2 DEF StripTypes
<1>4. lights'.preset \in {"none", "party"}
  BY <1>1, <1>2 DEF StripTypes
<1>5. lights'.pixels \in [Pixel -> Color \cup {"other"}]
  BY <1>1, <1>2 DEF StripTypes
<1>6. /\ c.on = "on" => lights'.on
      /\ c.on = "off" => ~lights'.on
      /\ c.on = "same" => (lights'.on <=> lights.on)
  BY <1>1, Zenon
<1>7. /\ c.on # "same" => c.on = IF lights'.on THEN "on" ELSE "off"
      /\ c.on = "same" => (IF lights'.on THEN "on" ELSE "off") = (IF lights.on THEN "on" ELSE "off")
  BY <1>2, <1>6
<1>8. ASSUME NEW what, NEW p, NEW v,
             ShowsNow(what, p),
             Decides(what, p, c), AsDecided(what, p, c, v)
      PROVE  Shown(what, p, v)'
  <2>1. CASE what = "on"
    BY <1>7, <1>8, <2>1 DEF Decides, AsDecided, Shown
  <2>2. CASE what \in {"preset", "bright"}
    BY <1>1, <1>8, <2>2 DEF Decides, AsDecided, Shown, Same
  <2>3. CASE what = "pixel" /\ p \in Pixel
    BY <1>1, <1>8, <2>3 DEF Decides, AsDecided, Shown
  <2> QED BY <1>8, <2>1, <2>2, <2>3 DEF ShowsNow
<1>9. ASSUME NEW what, NEW p, NEW v,
             ShowsNow(what, p),
             ~Decides(what, p, c), Shown(what, p, v)
      PROVE  Shown(what, p, v)'
  <2>1. CASE what = "on"
    BY <1>7, <1>9, <2>1 DEF Decides, Shown
  <2>2. CASE what \in {"preset", "bright"}
    BY <1>1, <1>9, <2>2 DEF Decides, Shown, Same
  <2>3. CASE what = "pixel" /\ p \in Pixel
    BY <1>1, <1>9, <2>3 DEF Decides, Shown
  <2> QED BY <1>9, <2>1, <2>2, <2>3 DEF ShowsNow
<1> QED BY <1>3, <1>4, <1>5, <1>8, <1>9

(* The first command is sent. *)
LEMMA FirstShown ==
  ASSUME StripTypes, stripQueue # <<>>, lights' = ShowsCommand(Head(stripQueue).command),
         stripQueue' = Tail(stripQueue),
         NEW what, NEW p, NEW v, WillShow(what, p, v),
         ShowsNow(what, p)
  PROVE  WillShow(what, p, v)'
<1> DEFINE c == Head(stripQueue).command
<1>1. /\ Len(stripQueue) \in Nat \ {0} /\ c = stripQueue[1].command /\ c \in StripCommand
      /\ Len(stripQueue') = Len(stripQueue) - 1
      /\ \A i \in 1..Len(stripQueue') : stripQueue'[i] = stripQueue[i + 1] /\ i + 1 \in 1..Len(stripQueue)
  <2>1. stripQueue \in Seq([task : Task, command : StripCommand])
    BY DEF StripTypes
  <2>2. Head(stripQueue) \in [task : Task, command : StripCommand]
    BY <2>1, FirstAndRest
  <2>3. c \in StripCommand
    BY <2>2
  <2>4. /\ Len(stripQueue) \in Nat \ {0} /\ Head(stripQueue) = stripQueue[1]
        /\ Len(Tail(stripQueue)) = Len(stripQueue) - 1
        /\ \A i \in 1..Len(Tail(stripQueue)) : Tail(stripQueue)[i] = stripQueue[i + 1] /\ i + 1 \in 1..Len(stripQueue)
    BY <2>1, FirstAndRest
  <2> HIDE DEF c
  <2> QED BY <2>3, <2>4 DEF c
<1> HIDE DEF c
<1>2. /\ Decides(what, p, c) /\ AsDecided(what, p, c, v) => Shown(what, p, v)'
      /\ ~Decides(what, p, c) /\ Shown(what, p, v) => Shown(what, p, v)'
  BY <1>1, CommandShows DEF c
<1>3. CASE \E i \in 1..Len(stripQueue) : Decides(what, p, stripQueue[i].command)
  <2>1. PICK i \in 1..Len(stripQueue) :
          /\ Decides(what, p, stripQueue[i].command) /\ AsDecided(what, p, stripQueue[i].command, v)
          /\ \A j \in i + 1..Len(stripQueue) : ~Decides(what, p, stripQueue[j].command)
    BY <1>3 DEF WillShow
  <2>2. CASE i = 1
    <3>1. ~\E j \in 1..Len(stripQueue') : Decides(what, p, stripQueue'[j].command)
      BY <1>1, <2>1, <2>2
    <3>2. Shown(what, p, v)'
      BY <1>1, <1>2, <2>1, <2>2
    <3> QED BY <3>1, <3>2 DEF WillShow
  <2>3. CASE i # 1
    <3>1. /\ i - 1 \in 1..Len(stripQueue') /\ stripQueue'[i - 1] = stripQueue[i]
          /\ \A j \in i - 1 + 1..Len(stripQueue') : ~Decides(what, p, stripQueue'[j].command)
      BY <1>1, <2>1, <2>3
    <3> QED BY <2>1, <3>1 DEF WillShow
  <2> QED BY <2>2, <2>3
<1>4. CASE ~\E i \in 1..Len(stripQueue) : Decides(what, p, stripQueue[i].command)
  <2>1. ~\E i \in 1..Len(stripQueue') : Decides(what, p, stripQueue'[i].command)
    BY <1>1, <1>4
  <2>2. ~Decides(what, p, c) /\ Shown(what, p, v)
    BY <1>1, <1>4 DEF WillShow
  <2> QED BY <1>2, <2>1, <2>2 DEF WillShow
<1> QED BY <1>3, <1>4

(* What is said now is what the new command says, or what was said and it leaves. *)
LEMMA StripSaysOn ==
  ASSUME StripTypes, NEW t \in Task, NEW c \in StripCommand, SendsInTurn(t, c), lights' = lights,
         \/ c.on # "same" /\ (c.on = SaidOn' \/ (~strip'.on /\ c.pixels # NoPixels))
         \/ StripSays /\ c.on = "same" /\ strip.on /\ strip'.on,
         \/ c.preset # "same" /\ strip'.preset = c.preset
         \/ StripSays /\ c.preset = "same" /\ strip'.preset = strip.preset,
         \/ strip'.bright = "unknown"
         \/ c.bright # "same" /\ c.preset # "party" /\ strip'.bright = c.bright
         \/ StripSays /\ c.bright = "same" /\ c.preset # "party" /\ strip'.bright = strip.bright,
         \/ strip'.full
         \/ \A p \in Pixel : \/ p \in DOMAIN c.pixels /\ c.pixels[p] = strip'.chain[p]
                             \/ /\ p \notin DOMAIN c.pixels /\ c.on # "off" /\ c.preset # "party"
                                /\ StripSays /\ ~strip.full /\ strip'.chain[p] = strip.chain[p]
  PROVE  StripSays'
<1>1. /\ Len(stripQueue') = Len(stripQueue) + 1 /\ Len(stripQueue) \in Nat
      /\ stripQueue'[Len(stripQueue')].command = c
      /\ \A what, p, v : Decides(what, p, c) /\ AsDecided(what, p, c, v) => WillShow(what, p, v)'
      /\ \A what, p, v : ~Decides(what, p, c) /\ WillShow(what, p, v) => WillShow(what, p, v)'
  BY StripCommandQueued
<1>2. ASSUME NEW v, v = SaidOn' PROVE WillShow("on", 1, v)' \/ (~strip'.on /\ ColorsLast')
  <2>1. CASE c.on # "same" /\ c.on = SaidOn'
    BY <1>1, <1>2, <2>1 DEF Decides, AsDecided
  <2>2. CASE ~strip'.on /\ c.pixels # NoPixels
    <3>1. stripQueue' # <<>>
      BY <1>1
    <3> QED BY <1>1, <2>2, <3>1 DEF ColorsLast
  <2>3. CASE StripSays /\ c.on = "same" /\ strip.on /\ strip'.on
    <3>1. WillShow("on", 1, SaidOn) /\ v = "on" /\ SaidOn = "on"
      BY <1>2, <2>3 DEF StripSays, SaidOn
    <3> QED BY <1>1, <2>3, <3>1 DEF Decides
  <2> QED BY <2>1, <2>2, <2>3
<1>3. ASSUME NEW v, v = strip'.preset PROVE WillShow("preset", 1, v)'
  BY <1>1, <1>3 DEF StripSays, Decides, AsDecided, Same
<1>4. ASSUME NEW v, v = strip'.bright, v # "unknown" PROVE WillShow("bright", 1, v)'
  BY <1>1, <1>4 DEF StripSays, Decides, AsDecided, Same
<1>5. ASSUME ~strip'.full, NEW p \in Pixel, NEW v, v = strip'.chain[p] PROVE WillShow("pixel", p, v)'
  BY <1>1, <1>5 DEF StripSays, Decides, AsDecided, Same
<1>6. (WillShow("on", 1, SaidOn))' \/ (~strip'.on /\ ColorsLast')
  BY <1>2 DEF WillShow, AsDecided, Shown
<1>7. (WillShow("preset", 1, strip.preset))'
  BY <1>3 DEF WillShow, AsDecided, Shown
<1>8. strip'.bright # "unknown" => (WillShow("bright", 1, strip.bright))'
  BY <1>4 DEF WillShow, AsDecided, Shown
<1>9. ~strip'.full => \A p \in Pixel : (WillShow("pixel", p, strip.chain[p]))'
  BY <1>5 DEF WillShow, AsDecided, Shown
<1> QED BY <1>6, <1>7, <1>8, <1>9 DEF StripSays

(* Commands and what is said with them *)
LEMMA ColorsOfPixels ==
  /\ NoPixels \in PixelColors /\ Same = "same"
  /\ \A S \in SUBSET Pixel : \A f \in [S -> Color] : f \in PixelColors
  /\ \A color \in Color : All(color) \in [Pixel -> Color]
<1>1. \A S \in SUBSET Pixel : \A f \in [S -> Color] : f \in PixelColors
  BY DEF PixelColors
<1>2. NoPixels \in [{} -> Color] /\ {} \in SUBSET Pixel
  BY DEF NoPixels
<1> QED BY <1>1, <1>2 DEF Same, All

LEMMA CommandTypes ==
  ASSUME NEW on \in {"on", "off", "same"}, NEW preset \in {"none", "party", "same"},
         NEW bright \in {"same", "full", "dim"}, NEW f \in PixelColors,
         f = NoPixels \/ on = "on"
  PROVE  LET c == Command(on, preset, bright, f) IN
         /\ c \in StripCommand /\ c.on = on /\ c.preset = preset /\ c.bright = bright /\ c.pixels = f
BY DEF Command, StripCommand

LEMMA BareCommand ==
  ASSUME NEW on \in {"on", "off", "same"}, NEW preset \in {"none", "party", "same"}
  PROVE  LET c == Command(on, preset, Same, NoPixels) IN
         c \in StripCommand /\ c.on = on /\ c.preset = preset /\ c.bright = "same"
BY ColorsOfPixels, CommandTypes

LEMMA StripStates ==
  ASSUME NEW s \in StripState, NEW b \in BOOLEAN, NEW f \in BOOLEAN, NEW preset \in {"none", "party"},
         NEW bright \in {"unknown", "full", "dim"}, NEW chain \in [Pixel -> Color]
  PROVE  /\ [s EXCEPT !.on = b, !.full = f, !.preset = preset, !.bright = bright] \in StripState
         /\ [s EXCEPT !.on = b, !.full = f] \in StripState
         /\ [s EXCEPT !.on = b] \in StripState
         /\ [s EXCEPT !.bright = bright] \in StripState
         /\ [s EXCEPT !.on = b, !.full = f, !.bright = bright] \in StripState
         /\ [s EXCEPT !.chain = chain, !.preset = preset, !.bright = bright, !.full = f] \in StripState
         /\ [s EXCEPT !.on = b, !.full = f, !.preset = preset, !.bright = bright, !.chain = chain] \in StripState
<1>1. /\ [s EXCEPT !.on = b, !.full = f, !.preset = preset, !.bright = bright] \in StripState
      /\ [s EXCEPT !.on = b, !.full = f] \in StripState
  BY DEF StripState
<1>2. /\ [s EXCEPT !.on = b] \in StripState
      /\ [s EXCEPT !.bright = bright] \in StripState
  BY DEF StripState
<1>3. [s EXCEPT !.on = b, !.full = f, !.bright = bright] \in StripState
  BY DEF StripState
<1>4. [s EXCEPT !.chain = chain, !.preset = preset, !.bright = bright, !.full = f] \in StripState
  BY DEF StripState
<1>5. [s EXCEPT !.on = b, !.full = f, !.preset = preset, !.bright = bright, !.chain = chain] \in StripState
  BY DEF StripState
<1> QED BY <1>1, <1>2, <1>3, <1>4, <1>5

(* A command that is queued *)
CommandsMake(t) ==
  /\ strip' \in StripState
  /\ \E c \in StripCommand : SendsInTurn(t, c)

LEMMA TurnsOnSays ==
  ASSUME StripTypes, NEW t \in Task, NEW preset \in {"none", "party"}, TurnsOn(t, preset), lights' = lights
  PROVE  CommandsMake(t) /\ StripSays'
<1> DEFINE c == Command("on", preset, Same, NoPixels)
<1>1. \A b \in BOOLEAN : [strip EXCEPT !.on = b, !.full = b, !.preset = preset, !.bright = "unknown"] \in StripState
  BY DEF StripTypes, StripState
<1>2. strip' \in StripState
  BY <1>1, Zenon DEF TurnsOn, NeedsAll
<1>3. strip'.on /\ strip'.full /\ strip'.preset = preset /\ strip'.bright = "unknown"
  <2>1. \A b : LET s == [strip EXCEPT !.on = b, !.full = b, !.preset = preset, !.bright = "unknown"] IN
                 s.on = b /\ s.full = b /\ s.preset = preset /\ s.bright = "unknown"
    BY DEF StripTypes, StripState
  <2> QED BY <2>1, Zenon DEF TurnsOn, NeedsAll
<1>4. c \in StripCommand /\ c.on = "on" /\ c.preset = preset
  BY BareCommand
<1>5. SendsInTurn(t, c)
  BY DEF TurnsOn
<1> HIDE DEF c
<1>6. SaidOn' = "on"
  BY <1>3 DEF SaidOn
<1>7. StripSays'
  BY <1>3, <1>4, <1>5, <1>6, StripSaysOn
<1> QED BY <1>2, <1>4, <1>5, <1>7 DEF CommandsMake

LEMMA TurnsOffSays ==
  ASSUME StripTypes, NEW t \in Task, TurnsOff(t), lights' = lights
  PROVE  CommandsMake(t) /\ (StripSays => StripSays')
<1> DEFINE c == Command("off", Same, Same, NoPixels)
<1>1. \A b, f \in BOOLEAN : LET s == [strip EXCEPT !.on = b, !.full = f] IN
          /\ s \in StripState /\ s.on = b /\ s.full = f /\ s.preset = strip.preset
          /\ s.bright = strip.bright
  BY DEF StripTypes, StripState
<1>2. /\ strip' \in StripState /\ strip'.on = FALSE /\ strip'.full = TRUE
      /\ strip'.preset = strip.preset /\ strip'.bright = strip.bright
  BY <1>1, Zenon DEF TurnsOff, NeedsAll
<1>3. ~strip'.on /\ strip'.full
  BY <1>2, Zenon
<1>4. c \in StripCommand /\ c.on = "off" /\ c.preset = "same" /\ c.bright = "same"
  BY ColorsOfPixels, BareCommand
<1>5. SendsInTurn(t, c)
  BY DEF TurnsOff
<1> HIDE DEF c
<1>6. SaidOn' = "off"
  BY <1>3 DEF SaidOn
<1>7. ASSUME StripSays PROVE StripSays'
  BY <1>2, <1>3, <1>4, <1>5, <1>6, <1>7, StripSaysOn
<1> QED BY <1>2, <1>4, <1>5, <1>7 DEF CommandsMake

LEMMA ControlsSays ==
  ASSUME StripTypes, strip.on, NEW t \in Task, Controls(t), lights' = lights
  PROVE  CommandsMake(t) /\ (StripSays => StripSays')
<1> DEFINE c == Command("same", Same, "dim", NoPixels)
<1>1. /\ strip' \in StripState /\ strip'.on = strip.on /\ strip'.full = strip.full
      /\ strip'.preset = strip.preset /\ strip'.bright = "dim" /\ strip'.chain = strip.chain
  BY DEF StripTypes, StripState, Controls
<1>4. /\ c \in StripCommand /\ c.on = "same" /\ c.preset = "same" /\ c.bright = "dim"
      /\ DOMAIN c.pixels = {}
  BY ColorsOfPixels, CommandTypes DEF NoPixels
<1>5. SendsInTurn(t, c)
  BY DEF Controls
<1> HIDE DEF c
<1>7. ASSUME StripSays PROVE StripSays'
  BY <1>1, <1>4, <1>5, <1>7, StripSaysOn
<1> QED BY <1>1, <1>4, <1>5, <1>7 DEF CommandsMake

(* Of a strip whose colors are all sent, or one whose other pixels are as said *)
LEMMA ColorsSay ==
  ASSUME StripTypes, NEW t \in Task, NEW chain \in [Pixel -> Color], NEW index \in Pixel \cup {0},
         NEW s \in StripState, Colors(t, chain, index, s), lights' = lights,
         \/ index = 0
         \/ s = strip /\ \A p \in Pixel \ {index} : chain[p] = strip.chain[p]
  PROVE  CommandsMake(t) /\ (index = 0 \/ StripSays => StripSays')
<1> DEFINE bright == IF s.bright = "unknown" THEN "full" ELSE s.bright
           pixels == IF index = 0 \/ s.full THEN chain ELSE [p \in {index} |-> chain[p]]
           c == Command("on", "none", bright, pixels)
<1>1. bright \in {"full", "dim"}
  BY DEF StripState
<1>2. \A b \in BOOLEAN : LET new == [s EXCEPT !.chain = chain, !.preset = "none", !.bright = bright, !.full = b] IN
        /\ new \in StripState /\ new.preset = "none" /\ new.bright = bright /\ new.chain = chain
        /\ new.on = s.on
  BY <1>1 DEF StripState
<1>3. /\ strip' \in StripState /\ strip'.preset = "none" /\ strip'.bright = bright
      /\ strip'.chain = chain /\ strip'.on = s.on
  BY <1>2, Zenon DEF Colors
<1>4. pixels \in [Pixel -> Color] \/ (index \in Pixel /\ pixels \in [{index} -> Color])
  OBVIOUS
<1>5. /\ c \in StripCommand /\ c.on = "on" /\ c.preset = "none" /\ c.bright = bright
      /\ c.pixels = pixels
  <2>1. pixels \in PixelColors
    <3>1. Pixel \in SUBSET Pixel /\ (index \in Pixel => {index} \in SUBSET Pixel)
      OBVIOUS
    <3> HIDE DEF pixels
    <3> QED BY <1>4, <3>1, ColorsOfPixels
  <2> HIDE DEF bright, pixels
  <2> QED BY <1>1, <2>1, CommandTypes
<1>6. SendsInTurn(t, c)
  BY Zenon DEF Colors
<1>7. pixels # NoPixels
  <2>1. DOMAIN pixels # {}
    BY <1>4 DEF Pixel
  <2>2. DOMAIN NoPixels = {}
    BY DEF NoPixels
  <2> QED BY <2>1, <2>2
<1>8. ASSUME index = 0 \/ StripSays, NEW p \in Pixel
      PROVE  \/ p \in DOMAIN pixels /\ pixels[p] = chain[p]
             \/ /\ p \notin DOMAIN pixels /\ StripSays /\ ~strip.full /\ chain[p] = strip.chain[p]
  BY <1>8
<1> HIDE DEF c, bright, pixels
<1>9. c.on = SaidOn' \/ ~strip'.on
  BY <1>5 DEF SaidOn
<1>10. ASSUME index = 0 \/ StripSays PROVE StripSays'
  BY <1>1, <1>3, <1>5, <1>6, <1>7, <1>8, <1>9, <1>10, StripSaysOn
<1> QED BY <1>3, <1>5, <1>6, <1>10 DEF CommandsMake

LEMMA InitialSays ==
  ASSUME StripTypes, NEW t \in Task, InitialState(t), lights' = lights
  PROVE  CommandsMake(t) /\ StripSays'
<1>0. All("initial") \in [Pixel -> Color]
  BY ColorsOfPixels DEF Color
<1>1. CASE stripPreset0 # "none"
  <2> DEFINE c == Command("on", stripPreset0, Same, NoPixels)
  <2>1. \A b \in BOOLEAN : LET s == [strip EXCEPT !.on = b, !.full = b, !.preset = stripPreset0,
                                                  !.bright = "unknown", !.chain = All("initial")] IN
          s \in StripState /\ s.on = b /\ s.full = b /\ s.preset = stripPreset0 /\ s.bright = "unknown"
    BY <1>0 DEF StripTypes, StripState
  <2>2. strip' = [strip EXCEPT !.on = TRUE, !.full = TRUE, !.preset = stripPreset0,
                               !.bright = "unknown", !.chain = All("initial")]
        /\ SendsInTurn(t, c)
    BY <1>1, Zenon DEF InitialState
  <2>3. /\ strip' \in StripState /\ strip'.on /\ strip'.full /\ strip'.preset = stripPreset0
        /\ strip'.bright = "unknown"
    BY <2>1, <2>2, Zenon
  <2>4. c \in StripCommand /\ c.on = "on" /\ c.preset = stripPreset0 /\ stripPreset0 # "same"
    BY BareCommand DEF StripTypes
  <2> HIDE DEF c
  <2>5. SaidOn' = "on"
    BY <2>3 DEF SaidOn
  <2>6. StripSays'
    BY <2>2, <2>3, <2>4, <2>5, StripSaysOn
  <2> QED BY <2>2, <2>3, <2>4, <2>6 DEF CommandsMake
<1>2. CASE stripPreset0 = "none"
  <2>1. \A b \in BOOLEAN : [strip EXCEPT !.on = b, !.full = b, !.bright = "full"] \in StripState
    BY DEF StripTypes, StripState
  <2>2. PICK s \in StripState : Colors(t, All("initial"), 0, s)
    BY <1>2, <2>1, Zenon DEF InitialState
  <2> QED BY <1>0, <2>2, ColorsSay
<1> QED BY <1>1, <1>2

(* A color that is only kept *)
LEMMA HoldSays ==
  ASSUME StripTypes, strip' = [strip EXCEPT !.chain[2] = "red", !.full = TRUE],
         stripQueue' = stripQueue, lights' = lights
  PROVE  strip' \in StripState /\ (StripSays => StripSays')
<1>1. \A b \in BOOLEAN : LET s == [strip EXCEPT !.chain[2] = "red", !.full = b] IN
        s \in StripState /\ s.on = strip.on /\ s.full = b /\ s.preset = strip.preset /\ s.bright = strip.bright
  BY DEF StripTypes, StripState, Pixel, Color
<1>2. /\ strip' \in StripState /\ strip'.on = strip.on /\ strip'.full /\ strip'.preset = strip.preset
      /\ strip'.bright = strip.bright
  BY <1>1, Zenon
<1>3. \A what, p, v : WillShow(what, p, v)' <=> WillShow(what, p, v)
  BY DEF WillShow, Shown
<1>4. SaidOn' = SaidOn /\ (ColorsLast' <=> ColorsLast)
  BY <1>2 DEF SaidOn, ColorsLast
<1>5. ASSUME StripSays PROVE StripSays'
  <2>1. (WillShow("on", 1, SaidOn))' <=> WillShow("on", 1, SaidOn)
    BY <1>4 DEF WillShow, Shown
  <2>2. (WillShow("preset", 1, strip.preset))' <=> WillShow("preset", 1, strip.preset)
    BY <1>2 DEF WillShow, Shown
  <2>3. (WillShow("bright", 1, strip.bright))' <=> WillShow("bright", 1, strip.bright)
    BY <1>2 DEF WillShow, Shown
  <2> QED BY <1>2, <1>4, <1>5, <2>1, <2>2, <2>3 DEF StripSays
<1> QED BY <1>2, <1>5

(* A task that sends is in the queue from then on. *)
LEMMA SenderQueued ==
  ASSUME StripTypes, StripSenders, NEW t \in Task, pc[t] # "sending", CommandsMake(t), lights' = lights,
         Goes(t, "sending")
  PROVE  StripSenders' /\ stripQueue' \in Seq([task : Task, command : StripCommand])
<1>1. PICK c \in StripCommand : SendsInTurn(t, c)
  BY DEF CommandsMake
<1>2. /\ stripQueue' \in Seq([task : Task, command : StripCommand])
      /\ Len(stripQueue') = Len(stripQueue) + 1 /\ Len(stripQueue) \in Nat
      /\ \A i \in 1..Len(stripQueue) : stripQueue'[i] = stripQueue[i]
      /\ stripQueue'[Len(stripQueue')].task = t
  BY <1>1, StripCommandQueued
<1>3. pc'[t] = "sending" /\ \A u \in Task \ {t} : pc'[u] = pc[u]
  BY DEF Goes, StripTypes
<1>4. \A i \in 1..Len(stripQueue) : stripQueue[i].task # t
  BY DEF StripSenders
<1>5. \A u \in Task : (\E i \in 1..Len(stripQueue') : stripQueue'[i].task = u)
                       <=> (u = t \/ \E i \in 1..Len(stripQueue) : stripQueue[i].task = u)
  <2> SUFFICES ASSUME NEW u \in Task
               PROVE  (\E i \in 1..Len(stripQueue') : stripQueue'[i].task = u)
                       <=> (u = t \/ \E i \in 1..Len(stripQueue) : stripQueue[i].task = u)
    OBVIOUS
  <2>1. \A i \in 1..Len(stripQueue') : i \in 1..Len(stripQueue) \/ i = Len(stripQueue')
    BY <1>2
  <2>2. Len(stripQueue') \in 1..Len(stripQueue') /\ \A i \in 1..Len(stripQueue) : i \in 1..Len(stripQueue')
    BY <1>2
  <2> QED BY <1>2, <2>1, <2>2
<1>6. \A i, j \in 1..Len(stripQueue') : i # j => stripQueue'[i].task # stripQueue'[j].task
  <2>1. \A i \in 1..Len(stripQueue') : i \in 1..Len(stripQueue) \/ i = Len(stripQueue')
    BY <1>2
  <2> QED BY <1>2, <1>4, <2>1 DEF StripSenders
<1> QED BY <1>2, <1>3, <1>5, <1>6 DEF StripSenders

LEMMA StripsStartKeeps ==
  ASSUME StripsOK, StripsStart
  PROVE  StripsOK'
<1>1. /\ StripTypes /\ StripSenders /\ "init" \in Task /\ pc["init"] # "sending" /\ ~stripUp
      /\ stripQueue = <<>> /\ UNCHANGED <<stripUp, lights, stripLost, stripRepeated, stripPreset0>>
  BY StripTasks DEF StripsOK, StripsStart, StripRests, Idle
<1>2. CASE InitialState("init") /\ Goes("init", "sending") /\ UNCHANGED <<left, stripTodo>>
  <2>1. CommandsMake("init") /\ StripSays'
    BY <1>1, <1>2, InitialSays
  <2>2. StripSenders' /\ stripQueue' \in Seq([task : Task, command : StripCommand])
    BY <1>1, <1>2, <2>1, SenderQueued
  <2>3. pc'["init"] = "sending" /\ DOMAIN pc' = Task /\ \A t \in Request : pc'[t] = pc[t]
    BY <1>1, <1>2, StripTasks DEF Goes, StripTypes
  <2>4. StripTypes'
    BY <1>1, <1>2, <2>1, <2>2, <2>3 DEF StripTypes, CommandsMake
  <2> QED BY <1>1, <2>1, <2>2, <2>3, <2>4 DEF StripsOK, Idle
<1>3. CASE stripTodo' = [stripTodo EXCEPT !["init"] = <<"failed">>] /\ UNCHANGED <<pc, strip, stripQueue>>
  BY <1>1, <1>3 DEF StripsOK, StripsStart, StripTypes, StripSenders, Idle
<1> QED BY <1>2, <1>3 DEF StripsStart

LEMMA AskStripKeeps ==
  ASSUME StripsOK, NEW t \in Request, AskStrip(t)
  PROVE  StripsOK'
<1>1. /\ StripTypes /\ StripSenders /\ stripUp /\ pc[t] # "sending" /\ t \in Task /\ t # "init"
      /\ DOMAIN stripTodo' = Task /\ "init" \in Task
      /\ UNCHANGED <<stripUp, strip, stripQueue, lights, stripLost, stripRepeated, stripPreset0>>
  BY StripTasks DEF StripsOK, AskStrip, StripRests, Idle, StripTypes
<1>2. pc' = [pc EXCEPT ![t] = "next"] /\ DOMAIN pc = Task
  BY <1>1 DEF AskStrip, Goes, StripTypes
<1>3. DOMAIN pc' = Task /\ pc'["init"] = pc["init"] /\ \A u \in Task : pc'[u] = "sending" <=> pc[u] = "sending"
  BY <1>1, <1>2
<1>4. StripTypes'
  BY <1>1, <1>3 DEF StripTypes
<1>5. StripSenders'
  BY <1>1, <1>3 DEF StripSenders
<1>6. StripSays' <=> StripSays
  BY <1>1 DEF StripSays, WillShow, Shown, SaidOn, ColorsLast
<1> QED BY <1>1, <1>3, <1>4, <1>5, <1>6 DEF StripsOK, Idle

LEMMA NextStepKeeps ==
  ASSUME StripsOK, NEW t \in Request, NextStep(t)
  PROVE  StripsOK'
<1>1. /\ StripTypes /\ stripUp /\ StripSenders /\ pc[t] = "next" /\ t \in Task /\ t # "init" /\ "init" \in Task
      /\ UNCHANGED <<stripUp, lights, stripLost, stripRepeated, stripPreset0>>
  BY StripTasks DEF StripsOK, NextStep, StripRests, Idle
<1>2. ASSUME CommandsMake(t), Goes(t, "sending"), StripSays => StripSays', stripTodo' = [stripTodo EXCEPT ![t] = Tail(@)]
      PROVE  StripsOK'
  <2>1. StripSenders' /\ stripQueue' \in Seq([task : Task, command : StripCommand])
    BY <1>1, <1>2, SenderQueued
  <2>2. pc'["init"] = pc["init"] /\ DOMAIN pc' = Task /\ DOMAIN stripTodo' = Task
    BY <1>1, <1>2 DEF Goes, StripTypes
  <2>3. StripTypes'
    BY <1>1, <1>2, <2>1, <2>2 DEF StripTypes, CommandsMake
  <2> QED BY <1>1, <1>2, <2>1, <2>2, <2>3 DEF StripsOK, Idle
<1>3. ASSUME strip' \in StripState, stripQueue' = stripQueue, StripSays => StripSays',
             NEW place, place # "sending", Goes(t, place), DOMAIN stripTodo' = Task
      PROVE  StripsOK'
  <2>1. DOMAIN pc' = Task /\ pc'["init"] = pc["init"] /\ \A u \in Task : pc'[u] = "sending" <=> pc[u] = "sending"
    BY <1>1, <1>3 DEF Goes, StripTypes
  <2>2. StripTypes'
    BY <1>1, <1>3, <2>1 DEF StripTypes
  <2>3. StripSenders'
    BY <1>1, <1>3, <2>1 DEF StripSenders
  <2> QED BY <1>1, <1>3, <2>1, <2>2, <2>3 DEF StripsOK, Idle
<1>4. CASE stripTodo[t] = <<>>
  <2>1. Goes(t, "idle") /\ UNCHANGED <<strip, stripQueue, stripTodo>>
    BY <1>4 DEF NextStep, NothingSent
  <2>2. StripSays => StripSays'
    BY <1>1, <2>1 DEF StripSays, WillShow, Shown, SaidOn, ColorsLast
  <2> QED BY <1>1, <1>3, <2>1, <2>2 DEF StripTypes
<1>5. CASE stripTodo[t] # <<>>
  <2> DEFINE ask == Head(stripTodo[t])
  <2>1. Does(t, ask) /\ stripTodo' = [stripTodo EXCEPT ![t] = Tail(@)] /\ DOMAIN stripTodo' = Task
    BY <1>1, <1>5 DEF NextStep, StripTypes
  <2> HIDE DEF ask
  <2>2. \/ InitialState(t) /\ Goes(t, "sending")
        \/ TurnsOn(t, "party") /\ Goes(t, "sending")
        \/ TurnsOff(t) /\ Goes(t, "sending")
        \/ strip.on /\ Controls(t) /\ Goes(t, "sending")
        \/ NothingSent /\ Goes(t, "next")
        \/ Colors(t, All("red"), 0, strip) /\ Goes(t, "sending")
        \/ Colors(t, [strip.chain EXCEPT ![1] = "red"], 1, strip) /\ Goes(t, "sending")
        \/ /\ strip' = [strip EXCEPT !.chain[2] = "red", !.full = TRUE]
           /\ Goes(t, "next") /\ UNCHANGED stripQueue
    BY <2>1, Zenon DEF Does
  <2>3. StripsOK'
    <3>1. CASE InitialState(t) /\ Goes(t, "sending")
      BY <1>1, <1>2, <2>1, <3>1, InitialSays
    <3>2. CASE TurnsOn(t, "party") /\ Goes(t, "sending")
      <4>1. CommandsMake(t) /\ StripSays'
        BY <1>1, <3>2, TurnsOnSays
      <4> QED BY <1>2, <2>1, <3>2, <4>1
    <3>3. CASE TurnsOff(t) /\ Goes(t, "sending")
      BY <1>1, <1>2, <2>1, <3>3, TurnsOffSays
    <3>4. CASE strip.on /\ Controls(t) /\ Goes(t, "sending")
      BY <1>1, <1>2, <2>1, <3>4, ControlsSays
    <3>5. CASE NothingSent /\ Goes(t, "next")
      <4>1. StripSays => StripSays'
        BY <1>1, <3>5 DEF NothingSent, StripSays, WillShow, Shown, SaidOn, ColorsLast
      <4> QED BY <1>1, <1>3, <2>1, <3>5, <4>1 DEF NothingSent, StripTypes
    <3>6. CASE Colors(t, All("red"), 0, strip) /\ Goes(t, "sending")
      <4>1. All("red") \in [Pixel -> Color]
        BY ColorsOfPixels DEF Color
      <4>2. strip \in StripState /\ 0 \in Pixel \cup {0}
        BY <1>1 DEF StripTypes
      <4>3. CommandsMake(t) /\ (StripSays => StripSays')
        BY <1>1, <3>6, <4>1, <4>2, ColorsSay
      <4> QED BY <1>2, <2>1, <3>6, <4>3
    <3>7. CASE Colors(t, [strip.chain EXCEPT ![1] = "red"], 1, strip) /\ Goes(t, "sending")
      <4>1. PICK chain \in [Pixel -> Color] :
              chain = [strip.chain EXCEPT ![1] = "red"] /\ \A p \in Pixel \ {1} : chain[p] = strip.chain[p]
        <5>1. strip.chain \in [Pixel -> Color] /\ "red" \in Color
          BY <1>1 DEF StripTypes, StripState, Color
        <5>2. \A f \in [Pixel -> Color], color \in Color :
                /\ [f EXCEPT ![1] = color] \in [Pixel -> Color]
                /\ \A p \in Pixel \ {1} : [f EXCEPT ![1] = color][p] = f[p]
          OBVIOUS
        <5>3. [strip.chain EXCEPT ![1] = "red"] \in [Pixel -> Color]
              /\ \A p \in Pixel \ {1} : [strip.chain EXCEPT ![1] = "red"][p] = strip.chain[p]
          BY <5>1, <5>2
        <5> QED BY <5>3, Zenon
      <4>2. strip \in StripState /\ 1 \in Pixel \cup {0}
        BY <1>1 DEF StripTypes, Pixel
      <4>3. Colors(t, chain, 1, strip)
        BY <3>7, <4>1
      <4>4. CommandsMake(t) /\ (StripSays => StripSays')
        BY <1>1, <4>1, <4>2, <4>3, ColorsSay
      <4> QED BY <1>2, <2>1, <3>7, <4>4
    <3>8. CASE /\ strip' = [strip EXCEPT !.chain[2] = "red", !.full = TRUE]
               /\ Goes(t, "next") /\ UNCHANGED stripQueue
      <4>1. strip' \in StripState /\ (StripSays => StripSays')
        BY <1>1, <3>8, HoldSays
      <4> QED BY <1>3, <2>1, <3>8, <4>1
    <3> QED BY <2>2, <3>1, <3>2, <3>3, <3>4, <3>5, <3>6, <3>7, <3>8
  <2> QED BY <2>3
<1> QED BY <1>4, <1>5

(* The first command is sent, or lost. *)
LEMMA CommandSentKeeps ==
  ASSUME StripsOK, CommandSent
  PROVE  StripsOK'
<1> DEFINE t == Head(stripQueue).task
           c == Head(stripQueue).command
           rest == Tail(stripQueue)
<1>0. StripTypes /\ StripSenders /\ stripQueue \in Seq([task : Task, command : StripCommand])
  BY DEF StripsOK, StripTypes
<1>1. /\ stripQueue # <<>> /\ UNCHANGED <<stripPreset0, stripTodo>>
      /\ \/ lights' = ShowsCommand(c) /\ stripLost' = stripLost
         \/ stripLost' = TRUE /\ lights' = lights
      /\ \/ /\ SentAgain(c) /\ stripQueue' = Append(rest, Head(stripQueue))
            /\ strip' = [strip EXCEPT !.on = TRUE]
            /\ stripRepeated' = (stripRepeated \/ rest # <<>>) /\ UNCHANGED <<pc, stripUp>>
         \/ /\ ~SentAgain(c) /\ stripQueue' = rest /\ UNCHANGED <<strip, stripRepeated>>
            /\ Goes(t, IF t = "init" THEN "idle" ELSE "next")
            /\ stripUp' = (stripUp \/ t = "init")
  BY Zenon DEF CommandSent, StripRests
<1>2. /\ Head(stripQueue) \in [task : Task, command : StripCommand] /\ Head(stripQueue) = stripQueue[1]
      /\ rest \in Seq([task : Task, command : StripCommand])
      /\ Len(stripQueue) \in Nat \ {0} /\ Len(rest) = Len(stripQueue) - 1
      /\ \A i \in 1..Len(rest) : rest[i] = stripQueue[i + 1] /\ i + 1 \in 1..Len(stripQueue)
  BY <1>0, <1>1, FirstAndRest
<1>3. t \in Task /\ c \in StripCommand /\ t = stripQueue[1].task /\ pc[t] = "sending" /\ 1 \in 1..Len(stripQueue)
  BY <1>0, <1>2 DEF StripSenders
<1>4. stripUp \/ ~Idle("init")
  BY <1>1 DEF StripsOK
<1>5. /\ stripLost' \in BOOLEAN /\ lights'.on \in BOOLEAN /\ lights'.preset \in {"none", "party"}
      /\ lights'.pixels \in [Pixel -> Color \cup {"other"}]
  <2>1. CASE lights' = ShowsCommand(c) /\ stripLost' = stripLost
    BY <1>0, <1>3, <2>1, CommandShows DEF StripTypes
  <2>2. CASE stripLost' = TRUE /\ lights' = lights
    BY <1>0, <2>2 DEF StripTypes
  <2> QED BY <1>1, <2>1, <2>2
<1> HIDE DEF c, t, rest
<1>6. CASE /\ ~SentAgain(c) /\ stripQueue' = rest /\ UNCHANGED <<strip, stripRepeated>>
           /\ Goes(t, IF t = "init" THEN "idle" ELSE "next")
           /\ stripUp' = (stripUp \/ t = "init")
  <2>1. PICK place \in {"idle", "next"} : Goes(t, place) /\ (t = "init" => place = "idle")
    BY <1>6
  <2>2. DOMAIN pc' = Task /\ pc'[t] = place /\ \A u \in Task \ {t} : pc'[u] = pc[u]
    BY <1>0, <1>3, <2>1 DEF Goes, StripTypes
  <2>3. StripTypes'
    BY <1>0, <1>1, <1>2, <1>5, <1>6, <2>2 DEF StripTypes
  <2>4. StripSenders'
    <3>1. \A i, j \in 1..Len(rest) : i # j => rest[i].task # rest[j].task
      BY <1>0, <1>2 DEF StripSenders
    <3>2. \A i \in 1..Len(rest) : rest[i].task # t
      BY <1>0, <1>2, <1>3 DEF StripSenders
    <3>3. \A i \in 1..Len(stripQueue) : i # 1 => i - 1 \in 1..Len(rest) /\ rest[i - 1] = stripQueue[i]
      BY <1>2
    <3>4. \A u \in Task \ {t} : (\E i \in 1..Len(rest) : rest[i].task = u)
                                 <=> \E i \in 1..Len(stripQueue) : stripQueue[i].task = u
      BY <1>2, <1>3, <3>3
    <3>5. ASSUME NEW u \in Task PROVE pc'[u] = "sending" <=> \E i \in 1..Len(rest) : rest[i].task = u
      <4>1. CASE u = t
        BY <2>2, <3>2, <4>1
      <4>2. CASE u # t
        BY <1>0, <2>2, <3>4, <4>2 DEF StripSenders
      <4> QED BY <4>1, <4>2
    <3> QED BY <1>6, <3>1, <3>5 DEF StripSenders
  <2>5. /\ ~Idle("init")' => ~stripUp' /\ pc'["init"] = "sending"
        /\ ~stripUp' => \A u \in Request : Idle(u)'
        /\ stripUp' \/ ~Idle("init")'
    BY <1>3, <1>4, <1>6, <2>1, <2>2, StripTasks DEF StripsOK, Idle
  <2>6. ASSUME ~stripLost', ~stripRepeated' PROVE StripSays'
    <3>1. StripSays /\ lights' = ShowsCommand(c)
      BY <1>0, <1>1, <1>4, <1>6, <2>6 DEF StripsOK, StripTypes
    <3>2. \A what, p, v : WillShow(what, p, v) /\ ShowsNow(what, p) => WillShow(what, p, v)'
      BY <1>0, <1>1, <1>6, <3>1, FirstShown DEF c, rest
    <3>3. \A v : /\ WillShow("on", 1, v) => WillShow("on", 1, v)'
                 /\ WillShow("preset", 1, v) => WillShow("preset", 1, v)'
                 /\ WillShow("bright", 1, v) => WillShow("bright", 1, v)'
                 /\ \A p \in Pixel : WillShow("pixel", p, v) => WillShow("pixel", p, v)'
      BY <3>2 DEF ShowsNow
    <3>4. ~strip.on /\ ColorsLast => ColorsLast'
      <4>1. ASSUME ~strip.on, ColorsLast PROVE ColorsLast'
        <5>1. CASE rest = <<>>
          <6>1. Len(stripQueue) = 1
            BY <1>2, <5>1
          <6>2. c.pixels # NoPixels
            BY <1>2, <4>1, <6>1 DEF ColorsLast, c
          <6> QED BY <1>6, <4>1, <6>2 DEF SentAgain
        <5>2. CASE rest # <<>>
          <6>1. Len(rest) \in 1..Len(rest) /\ Len(rest) + 1 = Len(stripQueue)
            BY <1>2, <5>2
          <6>2. rest[Len(rest)] = stripQueue[Len(stripQueue)]
            BY <1>2, <6>1
          <6> QED BY <1>6, <4>1, <5>2, <6>2 DEF ColorsLast
        <5> QED BY <5>1, <5>2
      <4> QED BY <4>1
    <3>5. (WillShow("on", 1, SaidOn))' \/ (~strip'.on /\ ColorsLast')
      <4>1. ASSUME NEW v, v = SaidOn, WillShow("on", 1, v) PROVE (WillShow("on", 1, SaidOn))'
        <5>1. WillShow("on", 1, v)' /\ v = SaidOn'
          BY <1>6, <3>3, <4>1 DEF SaidOn
        <5> QED BY <5>1 DEF WillShow, AsDecided, Shown
      <4> QED BY <1>6, <3>1, <3>4, <4>1 DEF StripSays
    <3>6. (WillShow("preset", 1, strip.preset))'
      <4>1. ASSUME NEW v, v = strip.preset, WillShow("preset", 1, v) PROVE (WillShow("preset", 1, strip.preset))'
        <5>1. WillShow("preset", 1, v)' /\ v = strip'.preset
          BY <1>6, <3>3, <4>1
        <5> QED BY <5>1 DEF WillShow, AsDecided, Shown
      <4> QED BY <3>1, <4>1 DEF StripSays
    <3>7. strip'.bright # "unknown" => (WillShow("bright", 1, strip.bright))'
      <4>1. ASSUME NEW v, v = strip.bright, WillShow("bright", 1, v) PROVE (WillShow("bright", 1, strip.bright))'
        <5>1. WillShow("bright", 1, v)' /\ v = strip'.bright
          BY <1>6, <3>3, <4>1
        <5> QED BY <5>1 DEF WillShow, AsDecided, Shown
      <4> QED BY <1>6, <3>1, <4>1 DEF StripSays
    <3>8. ~strip'.full => \A p \in Pixel : (WillShow("pixel", p, strip.chain[p]))'
      <4>1. ASSUME NEW p \in Pixel, NEW v, v = strip.chain[p], WillShow("pixel", p, v)
            PROVE  (WillShow("pixel", p, strip.chain[p]))'
        <5>1. WillShow("pixel", p, v)' /\ v = strip'.chain[p]
          BY <1>6, <3>3, <4>1
        <5> QED BY <5>1 DEF WillShow, AsDecided, Shown
      <4> QED BY <1>6, <3>1, <4>1 DEF StripSays
    <3> QED BY <3>5, <3>6, <3>7, <3>8 DEF StripSays
  <2> QED BY <2>3, <2>4, <2>5, <2>6 DEF StripsOK
<1>7. CASE /\ SentAgain(c) /\ stripQueue' = Append(rest, Head(stripQueue))
           /\ strip' = [strip EXCEPT !.on = TRUE]
           /\ stripRepeated' = (stripRepeated \/ rest # <<>>) /\ UNCHANGED <<pc, stripUp>>
  <2>1. \A b \in BOOLEAN : LET s == [strip EXCEPT !.on = b] IN
          /\ s \in StripState /\ s.on = b /\ s.preset = strip.preset /\ s.bright = strip.bright
          /\ s.full = strip.full /\ s.chain = strip.chain
    BY <1>0 DEF StripTypes, StripState
  <2>2. /\ strip' \in StripState /\ strip'.on /\ strip'.preset = strip.preset /\ strip'.bright = strip.bright
        /\ strip'.full = strip.full /\ strip'.chain = strip.chain
    BY <1>7, <2>1, Zenon
  <2>3. /\ stripQueue' \in Seq([task : Task, command : StripCommand])
        /\ Len(stripQueue') = Len(stripQueue)
        /\ \A i \in 1..Len(rest) : stripQueue'[i] = rest[i]
        /\ stripQueue'[Len(stripQueue)] = Head(stripQueue) /\ stripQueue' # <<>>
    <3> DEFINE e == Head(stripQueue)
    <3>1. e \in [task : Task, command : StripCommand] /\ stripQueue' = Append(rest, e)
      BY <1>2, <1>7
    <3> HIDE DEF e
    <3>2. /\ stripQueue' \in Seq([task : Task, command : StripCommand])
          /\ Len(stripQueue') = Len(rest) + 1 /\ Len(rest) \in Nat
          /\ \A i \in 1..Len(rest) : stripQueue'[i] = rest[i]
          /\ stripQueue'[Len(rest) + 1] = e /\ stripQueue' # <<>>
      BY <1>2, <3>1, AddedLast
    <3> QED BY <1>2, <3>2 DEF e
  <2>4. StripTypes'
    BY <1>0, <1>1, <1>5, <1>7, <2>2, <2>3 DEF StripTypes
  <2>5. StripSenders'
    <3>1. \A i \in 1..Len(stripQueue') :
            \/ i \in 1..Len(rest) /\ i + 1 \in 1..Len(stripQueue) /\ stripQueue'[i] = stripQueue[i + 1]
            \/ i = Len(stripQueue) /\ stripQueue'[i] = stripQueue[1]
      <4>1. \A i \in 1..Len(rest) : i + 1 \in 1..Len(stripQueue) /\ rest[i] = stripQueue[i + 1]
        BY <1>2
      <4>2. Head(stripQueue) = stripQueue[1] /\ Len(rest) = Len(stripQueue) - 1 /\ Len(stripQueue) \in Nat
        BY <1>2
      <4>3. \A i \in 1..Len(stripQueue') : i \in 1..Len(rest) \/ i = Len(stripQueue)
        BY <2>3, <4>2
      <4> QED BY <2>3, <4>1, <4>2, <4>3
    <3>2. \A i \in 1..Len(stripQueue) :
            \/ i = 1 /\ Len(stripQueue) \in 1..Len(stripQueue') /\ stripQueue'[Len(stripQueue)] = stripQueue[i]
            \/ i - 1 \in 1..Len(stripQueue') /\ stripQueue'[i - 1] = stripQueue[i]
      <4>1. \A i \in 1..Len(stripQueue) : i # 1 => i - 1 \in 1..Len(rest) /\ i - 1 \in 1..Len(stripQueue') /\ (i - 1) + 1 = i
        BY <1>2, <2>3
      <4> QED BY <1>2, <2>3, <4>1
    <3>3. ASSUME NEW i \in 1..Len(stripQueue'), NEW j \in 1..Len(stripQueue'), i # j
          PROVE  stripQueue'[i].task # stripQueue'[j].task
      <4>1. \A m, n \in 1..Len(stripQueue) : m # n => stripQueue[m].task # stripQueue[n].task
        BY <1>0 DEF StripSenders
      <4>2. 1 \in 1..Len(stripQueue) /\ \A n \in 1..Len(rest) : n + 1 # 1
        BY <1>2
      <4>3. PICK m \in 1..Len(stripQueue) :
              stripQueue'[i] = stripQueue[m] /\ ((i \in 1..Len(rest) /\ m = i + 1) \/ (m = 1 /\ i = Len(stripQueue)))
        BY <3>1, <4>2
      <4>4. PICK n \in 1..Len(stripQueue) :
              stripQueue'[j] = stripQueue[n] /\ ((j \in 1..Len(rest) /\ n = j + 1) \/ (n = 1 /\ j = Len(stripQueue)))
        BY <3>1, <4>2
      <4>5. m # n
        BY <3>3, <4>2, <4>3, <4>4
      <4> QED BY <4>1, <4>3, <4>4, <4>5
    <3>4. ASSUME NEW u \in Task
          PROVE  (\E i \in 1..Len(stripQueue') : stripQueue'[i].task = u)
                   <=> \E i \in 1..Len(stripQueue) : stripQueue[i].task = u
      <4>1. 1 \in 1..Len(stripQueue)
        BY <1>2
      <4> QED BY <3>1, <3>2, <4>1
    <3> QED BY <1>0, <1>7, <3>3, <3>4 DEF StripSenders
  <2>6. ASSUME ~stripLost', ~stripRepeated' PROVE StripSays'
    <3>1. /\ rest = <<>> /\ StripSays /\ lights' = ShowsCommand(c) /\ c.pixels # NoPixels /\ ~strip.on
      <4>1. rest = <<>> /\ ~stripRepeated
        BY <1>7, <2>6, Zenon
      <4>2. lights' = ShowsCommand(c) /\ ~stripLost
        <5>1. ~(stripLost' = TRUE)
          BY <2>6
        <5> QED BY <1>1, <2>6, <5>1
      <4>3. StripSays
        BY <1>4, <4>1, <4>2 DEF StripsOK
      <4> QED BY <1>7, <4>1, <4>2, <4>3 DEF SentAgain
    <3>2. /\ Len(stripQueue) = 1 /\ Len(stripQueue') = 1 /\ stripQueue'[1] = stripQueue[1] /\ stripQueue[1].command = c
      BY <1>2, <2>3, <3>1 DEF c
    <3>3. ASSUME NEW what, NEW p, NEW v, ShowsNow(what, p), WillShow(what, p, v)
          PROVE  WillShow(what, p, v)'
      <4>1. 1..1 = {1} /\ 1 + 1..1 = {}
        OBVIOUS
      <4>2. CASE Decides(what, p, c)
        <5>1. AsDecided(what, p, c, v)
          BY <3>2, <3>3, <4>1, <4>2 DEF WillShow
        <5> QED BY <3>2, <4>1, <4>2, <5>1 DEF WillShow
      <4>3. CASE ~Decides(what, p, c)
        <5>1. Shown(what, p, v)
          BY <3>2, <3>3, <4>1, <4>3 DEF WillShow
        <5>2. Shown(what, p, v)'
          BY <1>0, <1>3, <3>1, <3>3, <4>3, <5>1, CommandShows
        <5> QED BY <3>2, <4>1, <4>3, <5>2 DEF WillShow
      <4> QED BY <4>2, <4>3
    <3>5. (WillShow("on", 1, SaidOn))'
      <4>1. c.on = "on" /\ SaidOn' = "on"
        BY <1>3, <2>2, <3>1 DEF StripCommand, SaidOn
      <4>2. stripQueue'[1].command = c /\ 1 \in 1..Len(stripQueue') /\ 1 + 1..Len(stripQueue') = {}
        BY <3>2
      <4>3. Decides("on", 1, c) /\ AsDecided("on", 1, c, "on")
        BY <4>1 DEF Decides, AsDecided
      <4> QED BY <4>1, <4>2, <4>3 DEF WillShow
    <3>6. (WillShow("preset", 1, strip.preset))'
      <4>1. ASSUME NEW v, v = strip.preset, WillShow("preset", 1, v) PROVE (WillShow("preset", 1, strip.preset))'
        <5>1. WillShow("preset", 1, v)' /\ v = strip'.preset
          BY <2>2, <3>3, <4>1 DEF ShowsNow
        <5> QED BY <5>1 DEF WillShow, AsDecided, Shown
      <4> QED BY <3>1, <4>1 DEF StripSays
    <3>7. strip'.bright # "unknown" => (WillShow("bright", 1, strip.bright))'
      <4>1. ASSUME NEW v, v = strip.bright, WillShow("bright", 1, v) PROVE (WillShow("bright", 1, strip.bright))'
        <5>1. WillShow("bright", 1, v)' /\ v = strip'.bright
          BY <2>2, <3>3, <4>1 DEF ShowsNow
        <5> QED BY <5>1 DEF WillShow, AsDecided, Shown
      <4> QED BY <2>2, <3>1, <4>1 DEF StripSays
    <3>8. ~strip'.full => \A p \in Pixel : (WillShow("pixel", p, strip.chain[p]))'
      <4>1. ASSUME NEW p \in Pixel, NEW v, v = strip.chain[p], WillShow("pixel", p, v)
            PROVE  (WillShow("pixel", p, strip.chain[p]))'
        <5>1. WillShow("pixel", p, v)' /\ v = strip'.chain[p]
          BY <2>2, <3>3, <4>1 DEF ShowsNow
        <5> QED BY <5>1 DEF WillShow, AsDecided, Shown
      <4> QED BY <2>2, <3>1, <4>1 DEF StripSays
    <3> QED BY <3>5, <3>6, <3>7, <3>8 DEF StripSays
  <2> QED BY <1>4, <1>7, <2>4, <2>5, <2>6 DEF StripsOK, Idle
<1> QED BY <1>1, <1>6, <1>7

LEMMA StripsKeep ==
  ASSUME StripsOK, StripsNext
  PROVE  StripsOK'
BY StripsStartKeeps, AskStripKeeps, NextStepKeeps, CommandSentKeeps DEF StripsNext

LEMMA StripsRest ==
  ASSUME StripsOK, UNCHANGED <<pc, stripVars>>
  PROVE  StripsOK'
<1>1. /\ UNCHANGED <<pc, stripPreset0, stripUp, strip, stripTodo, stripQueue, lights, stripLost, stripRepeated>>
  BY DEF stripVars
<1>2. StripSays' <=> StripSays
  BY <1>1 DEF StripSays, WillShow, Shown, SaidOn, ColorsLast
<1>3. StripTypes' /\ StripSenders'
  BY <1>1 DEF StripsOK, StripTypes, StripSenders
<1> QED BY <1>1, <1>2, <1>3 DEF StripsOK, Idle

(***************************************************************************)
(* Power: a bound service is as its device, or a task that has the lock     *)
(* makes it so.                                                              *)
(***************************************************************************)
PowerTypes ==
  /\ DOMAIN pc = Task /\ DOMAIN job = Task /\ \A t \in Task : "req" \in DOMAIN job[t]
  /\ queue \in Seq(Task)

ServiceDue == device.service /\ synced /\ state \in OnOff

ServiceOK ==
  /\ PowerTypes
  /\ \A t \in Task : pc[t] = "service" =>
       queue # <<>> /\ Head(queue) = t /\ (ServiceDue => job[t].req = state)
  /\ ServiceDue => service = state \/ \E t \in Task : pc[t] = "service"

LEMMA PowerBegins ==
  ASSUME HostInit, PowerInit
  PROVE  ServiceOK
<1>1. /\ DOMAIN pc = Task /\ \A t \in Task : pc[t] = "idle"
      /\ job = [t \in Task |-> NoJob] /\ ~synced /\ (queue = <<>> \/ queue = <<"init">>)
  BY DEF HostInit, PowerInit
<1>2. "req" \in DOMAIN NoJob
  BY DEF NoJob
<1>3. "init" \in Task
  BY DEF Task, Background
<1>4. <<>> \in Seq(Task) /\ <<"init">> \in Seq(Task)
  BY <1>3
<1> QED BY <1>1, <1>2, <1>4 DEF ServiceOK, PowerTypes, ServiceDue

LEMMA PowerServes ==
  ASSUME ServiceOK
  PROVE  ServiceFollows
BY DEF ServiceOK, ServiceDue, ServiceFollows

(* Nobody switches the service, and the state changes only to what nobody asked for. *)
LEMMA QuietKeeps ==
  ASSUME ServiceOK, UNCHANGED <<device, service>>, synced' => synced /\ state' = state,
         DOMAIN pc' = Task, DOMAIN job' = Task, \A t \in Task : "req" \in DOMAIN job'[t],
         queue' = queue \/ \E u \in Task : queue' = Append(queue, u),
         \A t \in Task : pc'[t] = "service" <=> pc[t] = "service",
         \A t \in Task : pc[t] = "service" => job'[t] = job[t]
  PROVE  ServiceOK'
<1>1. queue' \in Seq(Task)
  BY DEF ServiceOK, PowerTypes
<1>2. ServiceDue' => ServiceDue /\ state' = state
  BY DEF ServiceDue
<1>3. ASSUME queue # <<>> PROVE queue' # <<>> /\ Head(queue') = Head(queue)
  BY <1>3 DEF ServiceOK, PowerTypes
<1>4. ASSUME NEW t \in Task, pc'[t] = "service"
      PROVE  queue' # <<>> /\ Head(queue') = t /\ (ServiceDue' => job'[t].req = state')
  <2>1. pc[t] = "service"
    BY <1>4
  <2>2. queue # <<>> /\ Head(queue) = t /\ (ServiceDue => job[t].req = state)
    BY <2>1 DEF ServiceOK
  <2> QED BY <1>2, <1>3, <2>1, <2>2
<1>5. ASSUME ServiceDue' PROVE service' = state' \/ \E t \in Task : pc'[t] = "service"
  <2>1. service = state \/ \E t \in Task : pc[t] = "service"
    BY <1>2, <1>5 DEF ServiceOK
  <2> QED BY <1>2, <1>5, <2>1
<1> QED BY <1>1, <1>4, <1>5 DEF ServiceOK, PowerTypes

(* One who has the lock gives it back. *)
LEMMA ReleaseKeeps ==
  ASSUME ServiceOK, NEW t \in Task, queue # <<>>, Head(queue) = t, Release(t), device' = device,
         ServiceDue' => service' = state'
  PROVE  ServiceOK'
<1>1. pc' = [pc EXCEPT ![t] = "idle"] /\ queue' = Tail(queue) /\ job' = [job EXCEPT ![t] = NoJob]
  BY DEF Release, Goes
<1>2. queue' \in Seq(Task)
  BY <1>1 DEF ServiceOK, PowerTypes
<1>3. DOMAIN pc' = Task /\ DOMAIN job' = Task /\ \A u \in Task : "req" \in DOMAIN job'[u]
  <2>1. "req" \in DOMAIN NoJob
    BY DEF NoJob
  <2> QED BY <1>1, <2>1 DEF ServiceOK, PowerTypes
<1>4. \A u \in Task : pc'[u] # "service"
  BY <1>1 DEF ServiceOK, PowerTypes
<1> QED BY <1>2, <1>3, <1>4 DEF ServiceOK, PowerTypes

(* One who has the lock goes on to the service. *)
LEMMA ServiceNext ==
  ASSUME ServiceOK, NEW t \in Task, queue # <<>>, Head(queue) = t, NEW s, state' = s,
         device' = device, pc' = [pc EXCEPT ![t] = "service"], queue' = queue,
         job' = [job EXCEPT ![t].req = s]
  PROVE  ServiceOK'
<1>1. DOMAIN pc = Task /\ DOMAIN job = Task /\ "req" \in DOMAIN job[t] /\ queue \in Seq(Task)
  BY DEF ServiceOK, PowerTypes
<1>2. DOMAIN pc' = Task /\ pc'[t] = "service" /\ queue' \in Seq(Task)
  BY <1>1
<1>3. DOMAIN job' = Task /\ job'[t].req = s /\ "req" \in DOMAIN job'[t]
  BY <1>1
<1>4. \A u \in Task \ {t} : job'[u] = job[u] /\ pc'[u] = pc[u]
  BY <1>1
<1>5. \A u \in Task : "req" \in DOMAIN job'[u]
  BY <1>3, <1>4 DEF ServiceOK, PowerTypes
<1>6. \A u \in Task : pc'[u] = "service" => u = t
  BY <1>4 DEF ServiceOK
<1> QED BY <1>2, <1>3, <1>5, <1>6 DEF ServiceOK, PowerTypes

LEMMA FoundIsSame == \A s : Found(s) => (synced' => synced /\ state' = state)
BY Zenon DEF Found

(* process_power_changed, by one who switched or who noticed *)
LEMMA ChangedKeeps ==
  ASSUME ServiceOK, NEW t \in Task, queue # <<>>, Head(queue) = t, NEW s, state' = s,
         device' = device, Changed(t, s)
  PROVE  ServiceOK'
<1>1. CASE device.service /\ s \in OnOff
  BY <1>1, ServiceNext DEF Changed, Goes
<1>2. CASE ~(device.service /\ s \in OnOff)
  <2>1. Release(t)
    BY <1>2 DEF Changed, RestartKlipper
  <2> QED BY <1>2, <2>1, ReleaseKeeps DEF ServiceDue
<1> QED BY <1>1, <1>2

LEMMA StaysKeeps ==
  ASSUME ServiceOK, NEW t \in Task, queue # <<>>, Head(queue) = t, pc[t] # "service",
         UNCHANGED <<device, service>>, synced' => synced /\ state' = state, Release(t)
  PROVE  ServiceOK'
<1>1. \A u \in Task : pc[u] # "service"
  BY DEF ServiceOK
<1>2. ServiceDue' => service' = state'
  BY <1>1 DEF ServiceOK, ServiceDue
<1> QED BY <1>2, ReleaseKeeps

LEMMA NoticedKeeps ==
  ASSUME ServiceOK, NEW t \in Task, queue # <<>>, Head(queue) = t, pc[t] # "service", NEW s,
         UNCHANGED <<device, service>>, state' = s, synced' => synced /\ state' = state, Noticed(t, s)
  PROVE  ServiceOK'
<1>1. CASE device.restrict
  BY <1>1, StaysKeeps DEF Noticed
<1>2. CASE ~device.restrict
  BY <1>2, ChangedKeeps DEF Noticed
<1> QED BY <1>1, <1>2

(* A task goes on to what is not the service, and queues or not. *)
LEMMA MovesKeep ==
  ASSUME ServiceOK, NEW t \in Task, pc[t] # "service", NEW place, place # "service",
         pc' = [pc EXCEPT ![t] = place],
         UNCHANGED <<device, service>>, synced' => synced /\ state' = state,
         queue' = queue \/ queue' = Append(queue, t),
         \/ job' = job
         \/ \E k : "req" \in DOMAIN k /\ job' = [job EXCEPT ![t] = k]
         \/ \E r : job' = [job EXCEPT ![t].req = r]
         \/ \E b : job' = [job EXCEPT ![t].base = b]
  PROVE  ServiceOK'
<1>1. /\ DOMAIN pc = Task /\ DOMAIN job = Task /\ \A u \in Task : "req" \in DOMAIN job[u]
  BY DEF ServiceOK, PowerTypes
<1>2. DOMAIN pc' = Task /\ pc'[t] = place /\ \A u \in Task \ {t} : pc'[u] = pc[u]
  BY <1>1
<1>3. DOMAIN job' = Task /\ \A u \in Task \ {t} : job'[u] = job[u]
  BY <1>1
<1>4. "req" \in DOMAIN job'[t]
  <2>1. CASE job' = job
    BY <1>1, <2>1
  <2>2. CASE \E k : "req" \in DOMAIN k /\ job' = [job EXCEPT ![t] = k]
    BY <1>1, <2>2
  <2>3. CASE \E r : job' = [job EXCEPT ![t].req = r]
    BY <1>1, <2>3
  <2>4. CASE \E b : job' = [job EXCEPT ![t].base = b]
    BY <1>1, <2>4
  <2> QED BY <2>1, <2>2, <2>3, <2>4
<1>5. \A u \in Task : "req" \in DOMAIN job'[u]
  BY <1>1, <1>3, <1>4
<1>6. \A u \in Task : pc'[u] = "service" <=> pc[u] = "service"
  BY <1>2
<1>7. \A u \in Task : pc[u] = "service" => job'[u] = job[u]
  BY <1>3
<1> QED BY <1>2, <1>3, <1>5, <1>6, <1>7, QuietKeeps

LEMMA DecideKeeps ==
  ASSUME ServiceOK, NEW t \in Task, queue # <<>>, Head(queue) = t, pc[t] # "service",
         UNCHANGED <<device, service>>, NEW s, NEW was, Decide(t, s, was)
  PROVE  ServiceOK'
<1> DEFINE r == IF job[t].req = "toggle" THEN IF s = "off" THEN "on" ELSE "off" ELSE job[t].req
<1>1. CASE r \in {"status", s}
  <2>1. Found(s) /\ IF was = s THEN Release(t) /\ UNCHANGED restartVars ELSE Noticed(t, s)
    BY <1>1 DEF Decide
  <2>2. (synced' => synced /\ state' = state) /\ state' = s
    BY <2>1, FoundIsSame DEF Found
  <2>3. CASE was = s
    BY <2>1, <2>2, <2>3, StaysKeeps
  <2>4. CASE was # s
    BY <2>1, <2>2, <2>4, NoticedKeeps
  <2> QED BY <2>3, <2>4
<1>2. CASE r \notin {"status", s} /\ ((device.locked /\ printing /\ ~job[t].force) \/ isShutdown)
  <2>1. Found(s) /\ Release(t)
    BY <1>2 DEF Decide
  <2> QED BY <2>1, FoundIsSame, StaysKeeps
<1>3. CASE r \notin {"status", s} /\ ~((device.locked /\ printing /\ ~job[t].force) \/ isShutdown)
  <2>1. CASE Is({"gpio", "rf"})
    <3>1. SwitchNow(t, r)
      BY <1>3, <2>1 DEF Decide
    <3>2. CASE state' = r /\ Changed(t, r)
      BY <3>2, ChangedKeeps
    <3>3. CASE state' = "error" /\ synced' = FALSE /\ Release(t)
      BY <3>3, ReleaseKeeps DEF ServiceDue
    <3> HIDE DEF r
    <3> QED BY <3>1, <3>2, <3>3 DEF SwitchNow
  <2>2. CASE ~Is({"gpio", "rf"})
    <3>1. /\ Found(s) /\ Goes(t, "switching") /\ job' = [job EXCEPT ![t].req = r]
          /\ UNCHANGED queue
      BY <1>3, <2>2 DEF Decide
    <3>2. synced' => synced /\ state' = state
      BY <3>1, FoundIsSame
    <3>3. pc' = [pc EXCEPT ![t] = "switching"]
      BY <3>1 DEF Goes
    <3> HIDE DEF r
    <3> QED BY <3>1, <3>2, <3>3, MovesKeep
  <2> QED BY <2>1, <2>2
<1> QED BY <1>1, <1>2, <1>3

LEMMA PowerRequestKeeps ==
  ASSUME ServiceOK, NEW t \in Task, PowerRequest(t)
  PROVE  ServiceOK'
<1>1. CASE Begin(t)
  <2>1. /\ pc[t] = "begin"
        /\ \/ Goes(t, "idle") /\ UNCHANGED queue /\ job' = [job EXCEPT ![t] = NoJob]
           \/ Goes(t, "waiting") /\ queue' = Append(queue, t) /\ UNCHANGED job
        /\ UNCHANGED <<device, state, service, synced>>
    BY <1>1 DEF Begin
  <2>2. "req" \in DOMAIN NoJob
    BY DEF NoJob
  <2>3. CASE Goes(t, "idle") /\ UNCHANGED queue /\ job' = [job EXCEPT ![t] = NoJob]
    BY <2>1, <2>2, <2>3, MovesKeep DEF Goes
  <2>4. CASE Goes(t, "waiting") /\ queue' = Append(queue, t) /\ UNCHANGED job
    BY <2>1, <2>4, MovesKeep DEF Goes
  <2> QED BY <2>1, <2>3, <2>4
<1>2. CASE Takes(t)
  <2>1. /\ pc[t] = "waiting" /\ queue # <<>> /\ Head(queue) = t
        /\ UNCHANGED <<device, service>>
    BY <1>2 DEF Takes, Holds
  <2>2. CASE Noticed(t, state) /\ UNCHANGED <<state, synced>>
    BY <2>1, <2>2, NoticedKeeps
  <2>3. CASE /\ Goes(t, "refreshing") /\ job' = [job EXCEPT ![t].base = state]
             /\ UNCHANGED <<state, synced, queue>>
    BY <2>1, <2>3, MovesKeep DEF Goes
  <2>4. CASE Decide(t, state, state)
    BY <2>1, <2>4, DecideKeeps
  <2> QED BY <1>2, <2>2, <2>3, <2>4 DEF Takes
<1>3. CASE Refreshed(t)
  <2>1. /\ pc[t] = "refreshing" /\ queue # <<>> /\ Head(queue) = t
        /\ UNCHANGED <<device, service>>
        /\ Decide(t, plug, job[t].base) \/ Decide(t, "error", job[t].base)
    BY <1>3 DEF Refreshed, Holds
  <2> QED BY <2>1, DecideKeeps
<1>4. CASE Switched(t)
  <2>1. /\ pc[t] = "switching" /\ queue # <<>> /\ Head(queue) = t
        /\ UNCHANGED <<device, service>>
    BY <1>4 DEF Switched, Holds
  <2>2. CASE state' = job[t].req /\ Changed(t, job[t].req)
    BY <2>1, <2>2, ChangedKeeps
  <2>3. CASE state' = "error" /\ synced' = FALSE /\ Release(t)
    BY <2>1, <2>3, ReleaseKeeps DEF ServiceDue
  <2> QED BY <1>4, <2>2, <2>3 DEF Switched
<1>5. CASE ServiceSwitched(t)
  <2>1. /\ pc[t] = "service" /\ queue # <<>> /\ Head(queue) = t
        /\ UNCHANGED <<device, state>> /\ Release(t)
        /\ \/ service' = job[t].req /\ UNCHANGED synced
           \/ synced' = FALSE
    BY <1>5 DEF ServiceSwitched, Holds, RestartKlipper
  <2>2. ServiceDue' => service' = state'
    BY <2>1 DEF ServiceDue, ServiceOK
  <2> QED BY <2>1, <2>2, ReleaseKeeps
<1> QED BY <1>1, <1>2, <1>3, <1>4, <1>5 DEF PowerRequest

LEMMA PowerStartKeeps ==
  ASSUME ServiceOK, Subscribed \/ Initialized
  PROVE  ServiceOK'
<1>1. "init" \in Task
  BY DEF Task, Background
<1>2. CASE Subscribed
  <2>1. pc["init"] = "subscribe" /\ UNCHANGED <<device, service>>
    BY <1>2 DEF Subscribed
  <2>2. CASE Found("error") /\ Goes("init", "idle") /\ UNCHANGED <<queue, job>>
    BY <1>1, <2>1, <2>2, FoundIsSame, MovesKeep DEF Goes
  <2>3. CASE /\ Goes("init", "waiting") /\ queue' = Append(queue, "init")
             /\ job' = [job EXCEPT !["init"].base = plug] /\ UNCHANGED <<state, synced>>
    BY <1>1, <2>1, <2>3, MovesKeep DEF Goes
  <2> QED BY <1>2, <2>2, <2>3 DEF Subscribed
<1>3. CASE Initialized
  <2>1. /\ queue # <<>> /\ Head(queue) = "init" /\ pc["init"] # "service"
        /\ UNCHANGED <<device, service>>
    BY <1>3 DEF Initialized
  <2>2. CASE SettingFails
    <3>1. Release("init") /\ synced' = FALSE
      BY <2>2 DEF SettingFails
    <3> QED BY <1>1, <2>1, <3>1, StaysKeeps
  <2>3. CASE InitialStateSet
    <3>1. (synced' => synced /\ state' = state) /\ state' = FirstState
      BY <2>3, FoundIsSame DEF Found, InitialStateSet
    <3>2. CASE Release("init")
      BY <1>1, <2>1, <3>1, <3>2, StaysKeeps
    <3>3. CASE Changed("init", FirstState)
      BY <1>1, <2>1, <3>1, <3>3, ChangedKeeps
    <3>4. CASE /\ Goes("init", "switching") /\ UNCHANGED queue
               /\ job' = [job EXCEPT !["init"].req = device.initial]
      BY <1>1, <2>1, <3>1, <3>4, MovesKeep DEF Goes
    <3> QED BY <2>3, <3>2, <3>3, <3>4 DEF InitialStateSet
  <2> QED BY <1>3, <2>2, <2>3 DEF Initialized
<1> QED BY <1>2, <1>3

LEMMA WantsKeeps ==
  ASSUME ServiceOK, NEW t \in Task, pc[t] = "idle", NEW r, NEW f, Wants(t, "begin", r, f),
         UNCHANGED <<device, service, queue>>, synced' => synced /\ state' = state
  PROVE  ServiceOK'
<1>1. pc' = [pc EXCEPT ![t] = "begin"] /\ job' = [job EXCEPT ![t] = [req |-> r, force |-> f, base |-> "init"]]
  BY DEF Wants, Goes
<1>2. "req" \in DOMAIN [req |-> r, force |-> f, base |-> "init"]
  OBVIOUS
<1> QED BY <1>1, <1>2, MovesKeep

LEMMA SamePlaces ==
  ASSUME ServiceOK, UNCHANGED <<pc, job, device, service, queue>>, synced' => synced /\ state' = state
  PROVE  ServiceOK'
BY QuietKeeps DEF ServiceOK, PowerTypes

LEMMA PowerWorldKeeps ==
  ASSUME ServiceOK,
         \/ \E t \in Request : \E r, f : Ask(t, r, f)
         \/ TimerExpires \/ ShutdownTimerExpires \/ Poll
         \/ KlippyShutdown \/ KlippyDrops \/ FirmwareRestart \/ PrintStarts \/ Pressed
         \/ \E k : KlippyStarts(k)
  PROVE  ServiceOK'
<1>1. Request \subseteq Task /\ {"timer", "event", "init", "worker"} \subseteq Task
  BY DEF Task, Background
<1>2. ASSUME NEW t \in Request, NEW r, NEW f, Ask(t, r, f) PROVE ServiceOK'
  BY <1>1, <1>2, WantsKeeps DEF Ask, Idle
<1>3. CASE TimerExpires
  BY <1>1, <1>3, WantsKeeps DEF TimerExpires, Idle
<1>4. CASE ShutdownTimerExpires
  <2>1. pc["event"] = "idle" /\ UNCHANGED <<device, state, queue, service, synced>>
    BY <1>4 DEF ShutdownTimerExpires, Idle
  <2>2. CASE Wants("event", "begin", "off", FALSE)
    BY <1>1, <2>1, <2>2, WantsKeeps
  <2>3. CASE UNCHANGED <<pc, job>>
    BY <2>1, <2>3, SamePlaces
  <2> QED BY <1>4, <2>2, <2>3 DEF ShutdownTimerExpires
<1>5. CASE Poll
  BY <1>1, <1>5, WantsKeeps DEF Poll, Idle
<1>6. CASE KlippyShutdown
  <2>1. pc["event"] = "idle" /\ UNCHANGED <<device, queue, service>>
    BY <1>6 DEF KlippyShutdown, Idle
  <2>2. synced' => synced /\ state' = state
    BY <1>6, FoundIsSame DEF KlippyShutdown
  <2>3. CASE UNCHANGED <<pc, job>>
    BY <2>1, <2>2, <2>3, SamePlaces
  <2>4. CASE Wants("event", "begin", "off", FALSE)
    BY <1>1, <2>1, <2>2, <2>4, WantsKeeps
  <2>5. CASE pc["worker"] = "idle" /\ Wants("worker", "begin", "notify", FALSE)
    BY <1>1, <2>1, <2>2, <2>5, WantsKeeps
  <2> QED BY <1>6, <2>3, <2>4, <2>5 DEF KlippyShutdown, Idle
<1>7. ASSUME KlippyGone PROVE ServiceOK'
  <2>1. UNCHANGED <<device, queue, service>>
    BY <1>7 DEF KlippyGone
  <2>2. synced' => synced /\ state' = state
    BY <1>7, FoundIsSame DEF KlippyGone
  <2>3. CASE UNCHANGED <<pc, job>>
    BY <2>1, <2>2, <2>3, SamePlaces
  <2>4. CASE pc["worker"] = "idle" /\ Wants("worker", "begin", "notify", FALSE)
    BY <1>1, <2>1, <2>2, <2>4, WantsKeeps
  <2> QED BY <1>7, <2>3, <2>4 DEF KlippyGone, Idle
<1>8. CASE FirmwareRestart
  <2>1. CASE UNCHANGED <<pc, job, device, service, queue, synced, state>>
    BY <2>1, SamePlaces
  <2> QED BY <1>7, <1>8, <2>1 DEF FirmwareRestart
<1>9. CASE PrintStarts
  <2>1. UNCHANGED <<pc, job, device, service, queue, synced, state>>
    BY <1>9 DEF PrintStarts, powerVars
  <2> QED BY <2>1, SamePlaces
<1>10. CASE Pressed
  <2>1. UNCHANGED <<device, queue, service>>
    BY <1>10 DEF Pressed
  <2>2. synced' => synced /\ state' = state
    BY <1>10, FoundIsSame DEF Pressed
  <2>3. CASE UNCHANGED <<pc, job>>
    BY <2>1, <2>2, <2>3, SamePlaces
  <2>4. CASE pc["worker"] = "idle" /\ Wants("worker", "begin", "notify", FALSE)
    BY <1>1, <2>1, <2>2, <2>4, WantsKeeps
  <2> QED BY <1>10, <2>3, <2>4 DEF Pressed, Idle
<1>11. ASSUME NEW k, KlippyStarts(k) PROVE ServiceOK'
  <2>1. UNCHANGED <<device, service, queue, job, synced, state>>
    BY <1>11 DEF KlippyStarts
  <2>2. CASE UNCHANGED pc
    BY <2>1, <2>2, SamePlaces
  <2>3. CASE pc["init"] = "idle" /\ Goes("init", "subscribe")
    BY <1>1, <2>1, <2>3, MovesKeep DEF Goes
  <2> QED BY <1>11, <2>2, <2>3 DEF KlippyStarts, Idle
<1> QED BY <1>2, <1>3, <1>4, <1>5, <1>6, <1>7, <1>8, <1>9, <1>10, <1>11 DEF KlippyDrops

LEMMA PowerKeeps ==
  ASSUME ServiceOK, PowerNext
  PROVE  ServiceOK'
BY PowerRequestKeeps, PowerStartKeeps, PowerWorldKeeps DEF PowerNext

LEMMA PowerRest ==
  ASSUME ServiceOK, UNCHANGED <<pc, powerVars>>
  PROVE  ServiceOK'
BY SamePlaces DEF powerVars

(***************************************************************************)
(* Switches: what a report or an answer said of a switch is so until another *)
(* one is on its way.                                                        *)
(***************************************************************************)
SwitchTypes ==
  /\ DOMAIN pc = Task /\ swQueue \in Seq(Task)
  /\ swWanted \in [Task -> Positions \cup {"status"}]
  /\ orders \in Seq(Positions \cup {"query"}) /\ reports \in Seq(Positions)
  /\ wired \in Positions

Expected == IF counting THEN "off" ELSE wired

(* Who waits for an answer has the lock, and what a lost connection is told waits for it. *)
SwLockOK ==
  /\ \A t \in Task : pc[t] \in {"refreshing", "setting", "querying"} =>
       swQueue # <<>> /\ Head(swQueue) = t
  /\ \A t \in Task : pc[t] = "setting" => swWanted[t] # "status"
  /\ pc["event"] \in {"idle", "locking"}
  /\ pc["event"] = "locking" => \E i \in 1..Len(swQueue) : swQueue[i] = "event"

AnsweringOK ==
  /\ pc["event"] = "idle" /\ pc["init"] = "idle" /\ ~brokerUp /\ orders = <<>> /\ reports = <<>>
  /\ swState \in Positions /\ ~fooled => swState = Expected

(* A switch behind a broker: the last report is so, an answer belongs to who has the   *)
(* lock, and without one what is known is so.                                            *)
WiresOK ==
  /\ ~counting
  /\ orders # <<>> => brokerUp
  /\ reports # <<>> => brokerUp /\ reports[Len(reports)] = wired
FutureOK ==
  future # "none" => swQueue # <<>> /\ pc[Head(swQueue)] \in {"refreshing", "setting", "querying"}
SwitchIsSo ==
  pc["event"] = "idle" =>
    /\ ~brokerUp => swState \notin Positions /\ future \notin Positions
    /\ brokerUp /\ ~crossed /\ reports = <<>> =>
         (swState \in Positions => swState = wired) /\ (future \in Positions => future = wired)
ReportingOK == WiresOK /\ FutureOK /\ SwitchIsSo

SwitchesOK ==
  /\ SwitchTypes /\ SwLockOK
  /\ IF switchKind = "mqtt" THEN ReportingOK ELSE AnsweringOK

LEMMA SwitchesBegin ==
  ASSUME HostInit, SwitchesInit, component = "switches"
  PROVE  SwitchesOK
<1>1. /\ DOMAIN pc = Task /\ (\A t \in Task : pc[t] = "idle") /\ "event" \in Task /\ "init" \in Task
      /\ swQueue = <<>> /\ swWanted = [t \in Task |-> "status"] /\ orders = <<>> /\ reports = <<>>
      /\ wired = "off" /\ swState = (IF switchKind = "mqtt" THEN "init" ELSE wired)
      /\ counting = FALSE /\ future = "none" /\ brokerUp = FALSE
  BY DEF HostInit, SwitchesInit, Task, Background
<1>2. SwitchTypes
  BY <1>1 DEF SwitchTypes, Positions
<1>3. SwLockOK
  BY <1>1 DEF SwLockOK
<1>4. switchKind = "mqtt" => ReportingOK
  BY <1>1 DEF ReportingOK, WiresOK, FutureOK, SwitchIsSo, Positions
<1>5. switchKind # "mqtt" => AnsweringOK
  BY <1>1 DEF AnsweringOK, Expected
<1> QED BY <1>2, <1>3, <1>4, <1>5 DEF SwitchesOK

LEMMA SwitchesServe ==
  ASSUME SwitchesOK
  PROVE  SwitchKnown
<1>1. ASSUME swQueue = <<>>, reports = <<>>, swState \in Positions, ~fooled,
             switchKind = "mqtt" => brokerUp /\ ~crossed
      PROVE  swState = Expected
  <2>1. pc["event"] = "idle"
    <3>1. 1..Len(swQueue) = {}
      BY <1>1
    <3> QED BY <3>1 DEF SwitchesOK, SwLockOK
  <2> QED BY <1>1, <2>1 DEF SwitchesOK, ReportingOK, WiresOK, SwitchIsSo, AnsweringOK, Expected
<1> QED BY <1>1 DEF SwitchKnown, Expected

(* Queues of the lock: one at the end, or the first gone *)
LEMMA LockTaken ==
  ASSUME SwitchTypes, SwLockOK, NEW t \in Task, pc[t] = "idle",
         pc' = [pc EXCEPT ![t] = "locking"], swQueue' = Append(swQueue, t),
         \A u \in Task \ {t} : swWanted'[u] = swWanted[u]
  PROVE  /\ DOMAIN pc' = Task /\ swQueue' \in Seq(Task) /\ SwLockOK'
         /\ swQueue # <<>> => Head(swQueue') = Head(swQueue)
         /\ swQueue' # <<>>
         /\ swQueue # <<>> /\ pc[Head(swQueue)] # "idle" => pc'[Head(swQueue')] = pc[Head(swQueue)]
<1>0. swQueue \in Seq(Task)
  BY DEF SwitchTypes
<1>9. swQueue' \in Seq(Task)
  BY <1>0
<1>1. /\ DOMAIN pc' = Task /\ pc'[t] = "locking" /\ \A u \in Task \ {t} : pc'[u] = pc[u]
      /\ swQueue' \in Seq(Task)
  BY <1>9 DEF SwitchTypes
<1>2. /\ swQueue' # <<>> /\ Len(swQueue') = Len(swQueue) + 1 /\ Len(swQueue) \in Nat
      /\ swQueue'[Len(swQueue) + 1] = t /\ \A i \in 1..Len(swQueue) : swQueue'[i] = swQueue[i]
      /\ swQueue # <<>> => Head(swQueue') = Head(swQueue)
  <2>1. Append(swQueue, t) # <<>> /\ Len(Append(swQueue, t)) = Len(swQueue) + 1 /\ Len(swQueue) \in Nat
        /\ Append(swQueue, t)[Len(swQueue) + 1] = t
        /\ \A i \in 1..Len(swQueue) : Append(swQueue, t)[i] = swQueue[i]
    BY <1>0, AddedLast
  <2>2. swQueue # <<>> => Head(Append(swQueue, t)) = Head(swQueue)
    BY <1>0, HeadTailAppend
  <2> QED BY <2>1, <2>2
<1>3. ASSUME NEW u \in Task, pc'[u] \in {"refreshing", "setting", "querying"}
      PROVE  swQueue' # <<>> /\ Head(swQueue') = u
  <2>1. u # t
    BY <1>1, <1>3
  <2> QED BY <1>1, <1>2, <1>3, <2>1 DEF SwLockOK
<1>4. "event" \in Task
  BY DEF Task, Background
<1>5. pc'["event"] \in {"idle", "locking"}
  BY <1>1, <1>4 DEF SwLockOK
<1>6. ASSUME pc'["event"] = "locking" PROVE \E i \in 1..Len(swQueue') : swQueue'[i] = "event"
  <2>1. CASE t = "event"
    <3>1. Len(swQueue) + 1 \in 1..Len(swQueue')
      BY <1>2
    <3> QED BY <1>2, <2>1, <3>1
  <2>2. CASE t # "event"
    <3>1. PICK i \in 1..Len(swQueue) : swQueue[i] = "event"
      BY <1>1, <1>4, <1>6, <2>2 DEF SwLockOK
    <3>2. i \in 1..Len(swQueue')
      BY <1>2
    <3> QED BY <1>2, <3>1, <3>2
  <2> QED BY <2>1, <2>2
<1>8. \A u \in Task : pc'[u] = "setting" => swWanted'[u] # "status"
  BY <1>1 DEF SwLockOK
<1>7. swQueue # <<>> => Head(swQueue) \in Task
  BY DEF SwitchTypes
<1> QED BY <1>1, <1>2, <1>3, <1>5, <1>6, <1>7, <1>8 DEF SwLockOK

LEMMA LockGiven ==
  ASSUME SwitchTypes, SwLockOK, NEW t \in Task, swQueue # <<>>, Head(swQueue) = t,
         pc' = [pc EXCEPT ![t] = "idle"], swQueue' = Tail(swQueue), swWanted' = swWanted
  PROVE  /\ DOMAIN pc' = Task /\ swQueue' \in Seq(Task) /\ SwLockOK'
<1>0. swQueue \in Seq(Task)
  BY DEF SwitchTypes
<1>9. swQueue' \in Seq(Task)
  BY <1>0
<1>1. /\ DOMAIN pc' = Task /\ pc'[t] = "idle" /\ \A u \in Task \ {t} : pc'[u] = pc[u]
      /\ swQueue' \in Seq(Task)
  BY <1>9 DEF SwitchTypes
<1>2. /\ Len(swQueue') = Len(swQueue) - 1 /\ Len(swQueue) \in Nat /\ swQueue[1] = t
      /\ \A i \in 1..Len(swQueue') : swQueue'[i] = swQueue[i + 1]
  BY <1>0
<1>3. \A u \in Task : pc'[u] \notin {"refreshing", "setting", "querying"}
  BY <1>1 DEF SwLockOK
<1>8. \A u \in Task : pc'[u] = "setting" => swWanted'[u] # "status"
  BY <1>1 DEF SwLockOK
<1>4. "event" \in Task
  BY DEF Task, Background
<1>5. pc'["event"] \in {"idle", "locking"}
  BY <1>1, <1>4 DEF SwLockOK
<1>6. ASSUME pc'["event"] = "locking" PROVE \E i \in 1..Len(swQueue') : swQueue'[i] = "event"
  <2>1. t # "event"
    BY <1>1, <1>6
  <2>2. PICK i \in 1..Len(swQueue) : swQueue[i] = "event"
    BY <1>1, <1>4, <1>6, <2>1 DEF SwLockOK
  <2>3. i # 1
    BY <1>2, <2>1, <2>2
  <2>4. i - 1 \in 1..Len(swQueue') /\ (i - 1) + 1 = i
    BY <1>2, <2>3
  <2> QED BY <1>2, <2>2, <2>4
<1> QED BY <1>1, <1>3, <1>5, <1>6, <1>8 DEF SwLockOK

LEMMA LockKept ==
  ASSUME SwitchTypes, SwLockOK, NEW t \in Task, t # "event", swQueue # <<>>, Head(swQueue) = t,
         NEW place, pc' = [pc EXCEPT ![t] = place], swQueue' = swQueue,
         swWanted' = swWanted, place = "setting" => swWanted[t] # "status"
  PROVE  DOMAIN pc' = Task /\ SwLockOK'
<1>1. /\ DOMAIN pc' = Task /\ \A u \in Task \ {t} : pc'[u] = pc[u]
  BY DEF SwitchTypes
<1>2. "event" \in Task /\ pc'["event"] = pc["event"]
  BY <1>1 DEF Task, Background
<1> QED BY <1>1, <1>2 DEF SwLockOK

(* Switches that answer *)
LEMMA AnsweringKeeps ==
  ASSUME SwitchesOK, switchKind # "mqtt", SwitchesNext
  PROVE  SwitchesOK'
<1>0. /\ SwitchTypes /\ SwLockOK /\ AnsweringOK
      /\ {"event", "init", "worker"} \subseteq Task
  BY DEF SwitchesOK, Task, Background
<1> DEFINE Rest == UNCHANGED <<switchKind, brokerUp, orders, reports>>
<1>1. ASSUME Rest, SwitchTypes', SwLockOK', pc'["event"] = "idle", pc'["init"] = "idle",
             swState' \in Positions /\ ~fooled' => swState' = Expected'
      PROVE  SwitchesOK'
  BY <1>0, <1>1 DEF SwitchesOK, AnsweringOK
<1>2. ASSUME NEW t \in SwitchTasks PROVE t \in Task /\ t # "event" /\ t # "init"
  BY <1>2, HostConstants DEF SwitchTasks, Task, Background
<1>3. ASSUME NEW t \in SwitchTasks, AskSwitch(t) PROVE SwitchesOK'
  <2>1. Rest /\ pc[t] = "idle" /\ UNCHANGED <<swState, wired, counting, fooled>>
    BY <1>3 DEF AskSwitch, Idle, SameDevice, NoBroker
  <2>2. CASE UNCHANGED <<pc, swQueue, swWanted>>
    <3>1. SwitchTypes' /\ SwLockOK'
      BY <1>0, <2>1, <2>2 DEF SwitchTypes, SwLockOK
    <3> QED BY <1>0, <1>1, <2>1, <2>2, <3>1 DEF AnsweringOK, Expected
  <2>3. CASE Locks(t) /\ \E r \in Positions \cup {"status"} : swWanted' = [swWanted EXCEPT ![t] = r]
    <3>1. pc' = [pc EXCEPT ![t] = "locking"] /\ swQueue' = Append(swQueue, t)
      BY <2>3 DEF Locks, Goes
    <3>5. \A u \in Task \ {t} : swWanted'[u] = swWanted[u]
      BY <1>0, <1>2, <2>3 DEF SwitchTypes
    <3>2. DOMAIN pc' = Task /\ swQueue' \in Seq(Task) /\ SwLockOK'
      BY <1>0, <1>2, <2>1, <3>1, <3>5, LockTaken
    <3>3. SwitchTypes'
      BY <1>0, <1>2, <2>1, <2>3, <3>2 DEF SwitchTypes
    <3>4. pc'["event"] = "idle" /\ pc'["init"] = "idle"
      BY <1>0, <1>2, <3>1 DEF AnsweringOK
    <3> QED BY <1>0, <1>1, <2>1, <3>2, <3>3, <3>4 DEF AnsweringOK, Expected
  <2>4. UNCHANGED <<pc, swQueue, swWanted>>
        \/ (Locks(t) /\ \E r \in Positions \cup {"status"} : swWanted' = [swWanted EXCEPT ![t] = r])
    BY <1>3 DEF AskSwitch
  <2> QED BY <2>2, <2>3, <2>4
<1>4. ASSUME NEW t \in Task, t # "event", t # "init", HasLock(t),
             UNCHANGED <<orders, reports, swWanted>>, wired' \in Positions,
             Unlocks(t) \/ (Keeps(t, "setting") /\ swWanted[t] # "status")
      PROVE  SwitchTypes' /\ SwLockOK' /\ pc'["event"] = "idle" /\ pc'["init"] = "idle"
  <2>1. swQueue # <<>> /\ Head(swQueue) = t
    BY <1>4 DEF HasLock
  <2>2. \/ pc' = [pc EXCEPT ![t] = "idle"] /\ swQueue' = Tail(swQueue)
        \/ /\ pc' = [pc EXCEPT ![t] = "setting"] /\ swQueue' = swQueue
           /\ swWanted[t] # "status"
    BY <1>4 DEF Unlocks, Keeps, Goes
  <2>3. pc'["event"] = "idle" /\ pc'["init"] = "idle"
    BY <1>0, <1>4, <2>2 DEF AnsweringOK, SwitchTypes
  <2>4. DOMAIN pc' = Task /\ swQueue' \in Seq(Task) /\ SwLockOK'
    BY <1>0, <1>4, <2>1, <2>2, LockGiven, LockKept DEF SwitchTypes
  <2> QED BY <1>0, <1>4, <2>3, <2>4 DEF SwitchTypes
<1>5. CASE ExternalTold
  <2>1. Rest /\ HasLock("worker") /\ Unlocks("worker") /\ UNCHANGED <<swState, wired, counting, swWanted, fooled>>
    BY <1>5 DEF ExternalTold, SameDevice, NoBroker
  <2>3. wired' \in Positions
    BY <1>0, <2>1 DEF SwitchTypes
  <2>2. SwitchTypes' /\ SwLockOK' /\ pc'["event"] = "idle" /\ pc'["init"] = "idle"
    BY <1>0, <1>4, <2>1, <2>3
  <2> QED BY <1>0, <1>1, <2>1, <2>2 DEF AnsweringOK, Expected
<1>6. ASSUME NEW t \in SwitchTasks, StatusAnswered(t) PROVE SwitchesOK'
  <2>1. /\ Rest /\ HasLock(t) /\ UNCHANGED <<wired, counting, swWanted>>
        /\ (swState' = StatusSays \/ swState' = "error")
    BY <1>6 DEF StatusAnswered, SameDevice, NoBroker
  <2>5. Unlocks(t) \/ (Keeps(t, "setting") /\ swWanted[t] # "status")
    BY <1>6 DEF StatusAnswered, GoesOn, Decided
  <2>6. wired' \in Positions
    BY <1>0, <2>1 DEF SwitchTypes
  <2>2. SwitchTypes' /\ SwLockOK' /\ pc'["event"] = "idle" /\ pc'["init"] = "idle"
    BY <1>0, <1>2, <1>4, <2>1, <2>5, <2>6
  <2>3. counting /\ swState' = "on" => fooled'
    BY <1>6 DEF StatusAnswered
  <2>4. swState' \in Positions /\ ~fooled' => swState' = Expected'
    BY <1>0, <2>1, <2>3 DEF StatusSays, Positions, Expected, SwitchTypes
  <2> QED BY <1>1, <2>1, <2>2, <2>4
<1>7. ASSUME NEW t \in SwitchTasks, SwitchAnswered(t) PROVE SwitchesOK'
  <2>1. Rest /\ HasLock(t) /\ Unlocks(t) /\ UNCHANGED swWanted /\ pc[t] = "setting"
    BY <1>7 DEF SwitchAnswered, SameDevice, NoBroker
  <2>2. PICK to \in Positions : to = swWanted[t]
    BY <1>0, <1>2, <2>1 DEF SwitchTypes, SwLockOK
  <2>3. \/ Obeys(to) /\ swState' = AnswerSays(to)
        \/ swState' = "error" /\ (Obeys(to) \/ UNCHANGED wired)
    BY <1>7, <2>2 DEF SwitchAnswered, HalfObeys
  <2>4. ASSUME Obeys(to)
        PROVE  wired' \in Positions /\ (AnswerSays(to) = Expected' \/ (AnswerSays(to) = "on" /\ counting'))
    <3>1. wired' \in Positions
      BY <1>0, <2>2, <2>4 DEF Obeys, SwitchTypes, Positions
    <3>2. CASE Delays(to)
      <4>1. to = "off" /\ counting'
        BY <2>4, <3>2 DEF Obeys, Delays
      <4> QED BY <3>1, <3>2, <4>1 DEF AnswerSays, Expected
    <3>3. CASE ~Delays(to)
      <4>1. wired' = to /\ (to # "on" => ~counting') /\ AnswerSays(to) = to
        BY <2>4, <3>3 DEF Obeys, AnswerSays
      <4> QED BY <2>2, <3>1, <4>1 DEF Expected, Positions
    <3> QED BY <3>2, <3>3
  <2>5. /\ wired' \in Positions
        /\ swState' = Expected' \/ swState' = "error" \/ (swState' = "on" /\ counting')
    BY <1>0, <2>3, <2>4 DEF SwitchTypes
  <2>8. counting' /\ swState' = "on" => fooled'
    BY <1>7 DEF SwitchAnswered
  <2>6. swState' \in Positions /\ ~fooled' => swState' = Expected'
    BY <2>5, <2>8 DEF Positions
  <2>7. SwitchTypes' /\ SwLockOK' /\ pc'["event"] = "idle" /\ pc'["init"] = "idle"
    BY <1>0, <1>2, <1>4, <2>1, <2>5
  <2> QED BY <1>1, <2>1, <2>6, <2>7
<1>8. CASE CountedDown
  <2>1. Rest /\ counting /\ ~counting' /\ wired' = "off" /\ UNCHANGED <<pc, swState, swQueue, swWanted, fooled>>
    BY <1>8 DEF CountedDown, SameDevice, NoBroker
  <2>2. SwitchTypes' /\ SwLockOK'
    BY <1>0, <2>1 DEF SwitchTypes, SwLockOK, Positions
  <2> QED BY <1>0, <1>1, <2>1, <2>2 DEF AnsweringOK, Expected
<1>9. ~(OrderDone \/ BrokerFound \/ StateReported \/ BrokerLossNoted \/ FirstQuery \/ FirstReport
        \/ ByHand \/ BrokerLost)
  BY <1>0 DEF AnsweringOK, OrderDone, BrokerFound, StateReported, BrokerLossNoted, FirstQuery, FirstReport,
              ByHand, BrokerLost
<1>10. \A t \in SwitchTasks : ~(MqttTurn(t) \/ MqttAnswered(t))
  BY DEF MqttTurn, MqttAnswered
<1> QED BY <1>3, <1>5, <1>6, <1>7, <1>8, <1>9, <1>10 DEF SwitchesNext, SwitchWorld, SwitchSteps

(* A switch that reports *)
LEMMA ReportingKeeps ==
  ASSUME SwitchesOK, switchKind = "mqtt", SwitchesNext
  PROVE  SwitchesOK'
<1>0. /\ SwitchTypes /\ SwLockOK /\ WiresOK /\ FutureOK /\ SwitchIsSo
      /\ {"event", "init", "worker"} \subseteq Task
  BY DEF SwitchesOK, ReportingOK, Task, Background
<1>1. ASSUME switchKind' = switchKind, SwitchTypes', SwLockOK', WiresOK', FutureOK', SwitchIsSo'
      PROVE  SwitchesOK'
  BY <1>0, <1>1 DEF SwitchesOK, ReportingOK
<1>2. ASSUME NEW t \in SwitchTasks PROVE t \in Task /\ t # "event" /\ t # "init"
  BY <1>2, HostConstants DEF SwitchTasks, Task, Background
<1>3. orders \in Seq(Positions \cup {"query"}) /\ reports \in Seq(Positions)
  BY <1>0 DEF SwitchTypes
<1>4. ASSUME NEW t \in Task, HasLock(t), pc[t] = "locking" PROVE future = "none"
  BY <1>0, <1>4 DEF HasLock, FutureOK
<1> DEFINE Waits == {"refreshing", "setting", "querying"}
(* Who has the lock sends, or is done. *)
<1>5. ASSUME NEW t \in Task, t # "event", HasLock(t), NEW place,
             UNCHANGED <<switchKind, wired, counting, swWanted, brokerUp, reports, crossed>>,
             \/ Unlocks(t) /\ future' = "none" /\ orders' = orders
             \/ /\ Keeps(t, place) /\ place \in Waits /\ (place = "setting" => swWanted[t] # "status")
                /\ future' = "waiting" /\ brokerUp
                /\ \E o \in Seq(Positions \cup {"query"}) : orders' = orders \o o,
             swState' \in {swState, future, "error", "init"}
      PROVE  SwitchesOK'
  <2>1. swQueue # <<>> /\ Head(swQueue) = t
    BY <1>5 DEF HasLock
  <2>2. CASE Unlocks(t) /\ future' = "none" /\ orders' = orders
    <3>1. pc' = [pc EXCEPT ![t] = "idle"] /\ swQueue' = Tail(swQueue) /\ swWanted' = swWanted
      BY <1>5, <2>2 DEF Unlocks, Goes
    <3>2. DOMAIN pc' = Task /\ swQueue' \in Seq(Task) /\ SwLockOK'
      BY <1>0, <2>1, <3>1, LockGiven
    <3>3. pc'["event"] = pc["event"]
      BY <1>0, <1>5, <3>1 DEF SwitchTypes
    <3>4. SwitchTypes'
      BY <1>0, <1>5, <2>2, <3>2 DEF SwitchTypes
    <3>5. WiresOK' /\ FutureOK'
      BY <1>0, <1>5, <2>2 DEF WiresOK, FutureOK
    <3>6. SwitchIsSo'
      BY <1>0, <1>5, <2>2, <3>3 DEF SwitchIsSo, Positions
    <3> QED BY <1>1, <1>5, <3>2, <3>4, <3>5, <3>6
  <2>3. CASE /\ Keeps(t, place) /\ place \in Waits /\ (place = "setting" => swWanted[t] # "status")
             /\ future' = "waiting" /\ brokerUp
             /\ \E o \in Seq(Positions \cup {"query"}) : orders' = orders \o o
    <3>1. pc' = [pc EXCEPT ![t] = place] /\ swQueue' = swQueue /\ swWanted' = swWanted
      BY <1>5, <2>3 DEF Keeps, Goes
    <3>2. DOMAIN pc' = Task /\ SwLockOK'
      BY <1>0, <1>5, <2>1, <2>3, <3>1, LockKept
    <3>3. pc'["event"] = pc["event"] /\ pc'[t] = place
      BY <1>0, <1>5, <3>1 DEF SwitchTypes
    <3>7. orders' \in Seq(Positions \cup {"query"})
      <4>1. PICK o \in Seq(Positions \cup {"query"}) : orders' = orders \o o
        BY <2>3
      <4> QED BY <1>3, <4>1
    <3>4. SwitchTypes'
      BY <1>0, <1>5, <3>1, <3>2, <3>7 DEF SwitchTypes
    <3>5. WiresOK' /\ FutureOK'
      BY <1>0, <1>5, <2>1, <2>3, <3>1, <3>3 DEF WiresOK, FutureOK
    <3>6. SwitchIsSo'
      BY <1>0, <1>5, <2>3, <3>3 DEF SwitchIsSo, Positions
    <3> QED BY <1>1, <1>5, <3>2, <3>4, <3>5, <3>6
  <2> QED BY <1>5, <2>2, <2>3
(* Who asks for the lock *)
<1>6. ASSUME NEW t \in Task, pc[t] = "idle", Locks(t),
             UNCHANGED future, \A u \in Task \ {t} : swWanted'[u] = swWanted[u]
      PROVE  /\ DOMAIN pc' = Task /\ swQueue' \in Seq(Task) /\ SwLockOK' /\ FutureOK'
             /\ t # "event" => pc'["event"] = pc["event"]
             /\ t = "event" => pc'["event"] = "locking"
  <2>1. pc' = [pc EXCEPT ![t] = "locking"] /\ swQueue' = Append(swQueue, t)
    BY <1>6 DEF Locks, Goes
  <2>2. /\ DOMAIN pc' = Task /\ swQueue' \in Seq(Task) /\ SwLockOK'
        /\ swQueue' # <<>>
        /\ (swQueue # <<>> /\ pc[Head(swQueue)] # "idle" => pc'[Head(swQueue')] = pc[Head(swQueue)])
    BY <1>0, <1>6, <2>1, LockTaken
  <2>3. FutureOK'
    <3>1. ASSUME future' # "none" PROVE pc'[Head(swQueue')] \in Waits
      <4>1. swQueue # <<>> /\ pc[Head(swQueue)] \in Waits
        BY <1>0, <1>6, <3>1 DEF FutureOK
      <4> QED BY <2>2, <4>1
    <3> QED BY <2>2, <3>1 DEF FutureOK
  <2> QED BY <1>0, <2>1, <2>2, <2>3 DEF SwitchTypes
<1>7. ASSUME NEW t \in SwitchTasks, AskSwitch(t) PROVE SwitchesOK'
  <2>1. /\ pc[t] = "idle"
        /\ UNCHANGED <<switchKind, swState, wired, counting, future, brokerUp, orders, reports, crossed>>
    BY <1>7 DEF AskSwitch, Idle, SameDevice, NoBroker
  <2>2. WiresOK'
    BY <1>0, <2>1 DEF WiresOK
  <2>3. CASE UNCHANGED <<pc, swQueue, swWanted>>
    BY <1>0, <1>1, <2>1, <2>2, <2>3 DEF SwitchTypes, SwLockOK, FutureOK, SwitchIsSo
  <2>4. CASE Locks(t) /\ \E r \in Positions \cup {"status"} : swWanted' = [swWanted EXCEPT ![t] = r]
    <3>1. swWanted' \in [Task -> Positions \cup {"status"}]
      BY <1>0, <1>2, <2>4 DEF SwitchTypes
    <3>2. \A u \in Task \ {t} : swWanted'[u] = swWanted[u]
      BY <1>0, <1>2, <2>4 DEF SwitchTypes
    <3>3. /\ DOMAIN pc' = Task /\ swQueue' \in Seq(Task) /\ SwLockOK' /\ FutureOK'
          /\ pc'["event"] = pc["event"]
      BY <1>2, <1>6, <2>1, <2>4, <3>2
    <3>4. SwitchTypes'
      BY <1>0, <2>1, <3>1, <3>3 DEF SwitchTypes
    <3>5. SwitchIsSo'
      BY <1>0, <2>1, <3>3 DEF SwitchIsSo
    <3> QED BY <1>1, <2>1, <2>2, <3>3, <3>4, <3>5
  <2>5. UNCHANGED <<pc, swQueue, swWanted>>
        \/ (Locks(t) /\ \E r \in Positions \cup {"status"} : swWanted' = [swWanted EXCEPT ![t] = r])
    BY <1>7 DEF AskSwitch
  <2> QED BY <2>3, <2>4, <2>5
<1>8. CASE ExternalTold
  <2>1. /\ HasLock("worker") /\ pc["worker"] = "locking" /\ Unlocks("worker")
        /\ UNCHANGED <<switchKind, wired, counting, swWanted, brokerUp, reports, crossed, swState, future, orders>>
    BY <1>8 DEF ExternalTold, SameDevice, NoBroker
  <2>2. future' = "none"
    BY <1>0, <1>4, <2>1
  <2> QED BY <1>0, <1>5, <2>1, <2>2
<1>9. ASSUME NEW asks PROVE Query(asks) \in Seq(Positions \cup {"query"})
  <2>1. <<"query">> \in Seq(Positions \cup {"query"})
    OBVIOUS
  <2>2. << >> \in Seq(Positions \cup {"query"})
    OBVIOUS
  <2> QED BY <2>1, <2>2 DEF Query
<1>10. ASSUME NEW t \in Task, NEW shown, SetsPower(t, shown),
              swWanted[t] \in Positions \cup {"status"}
       PROVE  \/ Unlocks(t) /\ future' = "none" /\ orders' = orders
              \/ /\ Keeps(t, "setting") /\ swWanted[t] # "status" /\ future' = "waiting" /\ brokerUp
                 /\ \E o \in Seq(Positions \cup {"query"}) : orders' = orders \o o
  <2>1. CASE ~Decided(t, shown) \/ ~brokerUp
    BY <1>10, <2>1 DEF SetsPower
  <2>2. CASE Decided(t, shown) /\ brokerUp
    <3>1. swWanted[t] \in Positions
      BY <1>10, <2>2 DEF Decided
    <3>2. <<swWanted[t]>> \o Query(mustQuery) \in Seq(Positions \cup {"query"})
      BY <1>9, <3>1
    <3>3. Keeps(t, "setting") /\ future' = "waiting" /\ orders' = orders \o (<<swWanted[t]>> \o Query(mustQuery))
      BY <1>10, <2>2 DEF SetsPower, SendsOrders
    <3> QED BY <2>2, <3>2, <3>3 DEF Decided
  <2> QED BY <2>1, <2>2
<1>11. \A t \in Task : swWanted[t] \in Positions \cup {"status"}
  BY <1>0 DEF SwitchTypes
<1>12. ASSUME NEW t \in SwitchTasks, MqttTurn(t) PROVE SwitchesOK'
  <2>1. /\ HasLock(t) /\ pc[t] = "locking"
        /\ UNCHANGED <<switchKind, wired, counting, swWanted, brokerUp, reports, crossed, swState>>
    BY <1>12 DEF MqttTurn, SameDevice, SwitchStays
  <2>2. t \in Task /\ t # "event" /\ future = "none"
    BY <1>2, <1>4, <2>1
  <2>3. CASE SetsPower(t, swState)
    BY <1>5, <1>10, <1>11, <2>1, <2>2, <2>3
  <2>4. CASE brokerUp /\ Keeps(t, "refreshing") /\ SendsOrders(Query(TRUE))
    BY <1>5, <1>9, <2>1, <2>2, <2>4 DEF SendsOrders
  <2>5. CASE Unlocks(t) /\ UNCHANGED <<future, orders>>
    BY <1>5, <2>1, <2>2, <2>5
  <2> QED BY <1>12, <2>3, <2>4, <2>5 DEF MqttTurn
<1>13. ASSUME NEW t \in SwitchTasks, MqttAnswered(t) PROVE SwitchesOK'
  <2>1. /\ pc[t] \in {"refreshing", "setting"}
        /\ UNCHANGED <<switchKind, wired, counting, swWanted, brokerUp, reports, crossed>>
    BY <1>13 DEF MqttAnswered, SameDevice, SwitchStays
  <2>2. t \in Task /\ t # "event" /\ HasLock(t)
    BY <1>0, <1>2, <2>1 DEF SwLockOK, HasLock
  <2>3. ASSUME NEW shown, SetsPower(t, shown), swState' \in {swState, future, "error", "init"}
        PROVE  SwitchesOK'
    BY <1>5, <1>10, <1>11, <2>1, <2>2, <2>3
  <2>4. CASE UNCHANGED swState /\ SetsPower(t, swState)
    BY <2>3, <2>4
  <2>5. CASE swState' = "error" /\ SetsPower(t, swState')
    <3>1. PICK shown : shown = swState'
      OBVIOUS
    <3> QED BY <2>3, <2>5, <3>1
  <2>6. CASE swState' \in {future, "error"} /\ Unlocks(t) /\ future' = "none" /\ UNCHANGED orders
    BY <1>5, <2>1, <2>2, <2>6
  <2> QED BY <1>13, <2>4, <2>5, <2>6 DEF MqttAnswered
<1>14. CASE FirstQuery
  <2>1. /\ HasLock("init") /\ pc["init"] = "locking"
        /\ UNCHANGED <<switchKind, wired, counting, swWanted, brokerUp, reports, crossed>>
    BY <1>14 DEF FirstQuery, SameDevice, SwitchStays
  <2>2. future = "none"
    BY <1>0, <1>4, <2>1
  <2>3. CASE Unlocks("init") /\ UNCHANGED <<swState, future, orders>>
    BY <1>0, <1>5, <2>1, <2>2, <2>3
  <2>4. CASE brokerUp /\ Keeps("init", "querying") /\ swState' = "init" /\ SendsOrders(Query(hasQuery))
    BY <1>0, <1>5, <1>9, <2>1, <2>2, <2>4 DEF SendsOrders
  <2>5. CASE Unlocks("init") /\ swState' = "error" /\ future' = "none" /\ UNCHANGED orders
    BY <1>0, <1>5, <2>1, <2>5
  <2> QED BY <1>14, <2>3, <2>4, <2>5 DEF FirstQuery
<1>15. CASE FirstReport
  <2>1. /\ pc["init"] = "querying" /\ Unlocks("init") /\ future' = "none" /\ UNCHANGED orders
        /\ swState' \in {swState, "error"}
        /\ UNCHANGED <<switchKind, wired, counting, swWanted, brokerUp, reports, crossed>>
    BY <1>15 DEF FirstReport, SameDevice, SwitchStays
  <2>2. HasLock("init")
    BY <1>0, <2>1 DEF SwLockOK, HasLock
  <2> QED BY <1>0, <1>5, <2>1, <2>2
<1>16. CASE OrderDone
  <2>1. /\ orders # <<>> /\ orders' = Tail(orders) /\ brokerUp
        /\ UNCHANGED <<pc, switchKind, counting, swState, swQueue, swWanted, future, brokerUp, crossed>>
    BY <1>0, <1>16 DEF OrderDone, SameDevice, WiresOK
  <2>2. wired' \in Positions /\ reports' = Append(reports, wired')
    BY <1>0, <1>3, <1>16 DEF OrderDone, Reports, SwitchTypes
  <2>3. orders' \in Seq(Positions \cup {"query"})
    BY <1>3, <2>1, FirstAndRest
  <2>4. /\ reports' \in Seq(Positions) /\ reports' # <<>> /\ reports'[Len(reports')] = wired'
    BY <1>3, <2>2
  <2>5. SwitchTypes' /\ SwLockOK'
    BY <1>0, <2>1, <2>2, <2>3, <2>4 DEF SwitchTypes, SwLockOK
  <2>6. WiresOK' /\ FutureOK' /\ SwitchIsSo'
    BY <1>0, <2>1, <2>4 DEF WiresOK, FutureOK, SwitchIsSo
  <2> QED BY <1>1, <2>1, <2>5, <2>6
<1>17. CASE ByHand
  <2>1. /\ wired' \in Positions /\ ~counting'
        /\ (brokerUp /\ reports' = Append(reports, wired')) \/ (~brokerUp /\ reports' = reports)
        /\ UNCHANGED <<pc, switchKind, swState, swQueue, swWanted, future, brokerUp, orders, crossed>>
    BY <1>17 DEF ByHand, SameDevice, Reports
  <2>2. reports' \in Seq(Positions) /\ (brokerUp => reports' # <<>> /\ reports'[Len(reports')] = wired')
    <3>1. /\ Append(reports, wired') \in Seq(Positions) /\ Append(reports, wired') # <<>>
          /\ Len(Append(reports, wired')) = Len(reports) + 1
          /\ Append(reports, wired')[Len(reports) + 1] = wired'
      BY <1>3, <2>1, AddedLast
    <3> QED BY <1>3, <2>1, <3>1
  <2>3. SwitchTypes' /\ SwLockOK'
    BY <1>0, <2>1, <2>2 DEF SwitchTypes, SwLockOK
  <2>4. WiresOK' /\ FutureOK' /\ SwitchIsSo'
    BY <1>0, <2>1, <2>2 DEF WiresOK, FutureOK, SwitchIsSo
  <2> QED BY <1>1, <2>1, <2>3, <2>4
<1>18. CASE StateReported
  <2>1. /\ reports # <<>> /\ reports' = Tail(reports) /\ swState' = Head(reports)
        /\ future' = IF future = "waiting" THEN Head(reports) ELSE future
        /\ UNCHANGED <<switchKind, wired, counting, swWanted, brokerUp, orders>>
    BY <1>18 DEF StateReported, SameDevice, SwitchStays
  <2>2. crossed' <=> (crossed \/ future \in Positions)
    BY <1>18 DEF StateReported
  <2>3. /\ reports' \in Seq(Positions) /\ Head(reports) = reports[1] /\ Len(reports) \in Nat
        /\ Len(reports') = Len(reports) - 1 /\ \A i \in 1..Len(reports') : reports'[i] = reports[i + 1]
        /\ (reports' = <<>> => Len(reports) = 1)
    <3>1. /\ Tail(reports) \in Seq(Positions) /\ Head(reports) = reports[1] /\ Len(reports) \in Nat
          /\ Len(Tail(reports)) = Len(reports) - 1
          /\ \A i \in 1..Len(Tail(reports)) : Tail(reports)[i] = reports[i + 1]
      BY <1>3, <2>1, FirstAndRest
    <3>2. ASSUME Tail(reports) = << >> PROVE Len(reports) = 1
      <4>1. PICK r : r = Tail(reports)
        OBVIOUS
      <4>2. Len(r) = 0
        BY <3>2, <4>1
      <4>3. Len(r) = Len(reports) - 1 /\ Len(reports) \in Nat
        BY <3>1, <4>1
      <4> QED BY <4>2, <4>3
    <3> QED BY <2>1, <3>1, <3>2
  <2>4. brokerUp /\ reports[Len(reports)] = wired /\ ~counting
    BY <1>0, <2>1 DEF WiresOK
  <2>5. WiresOK'
    <3>1. reports' # <<>> => reports'[Len(reports')] = wired
      BY <2>3, <2>4
    <3> QED BY <2>1, <2>4, <3>1 DEF WiresOK
  <2>6. ASSUME pc'["event"] = pc["event"] PROVE SwitchIsSo'
    <3>1. ASSUME reports' = <<>> PROVE swState' = wired
      BY <2>1, <2>3, <2>4, <3>1
    <3>2. ASSUME reports' = <<>>, ~crossed', future' \in Positions PROVE future' = wired
      <4>1. future \notin Positions
        BY <2>2, <3>2
      <4> QED BY <2>1, <3>1, <3>2, <4>1
    <3> QED BY <2>1, <2>4, <3>1, <3>2 DEF SwitchIsSo
  <2>7. CASE swQueue = <<>> /\ pc["worker"] = "idle" /\ Locks("worker")
    <3>1. future' = "none" /\ future = "none"
      BY <1>0, <2>1, <2>7 DEF FutureOK
    <3>2. /\ DOMAIN pc' = Task /\ swQueue' \in Seq(Task) /\ SwLockOK' /\ FutureOK'
          /\ pc'["event"] = pc["event"]
      BY <1>0, <1>6, <2>1, <2>7, <3>1
    <3>3. SwitchTypes'
      BY <1>0, <2>1, <2>3, <3>2 DEF SwitchTypes
    <3> QED BY <1>1, <2>1, <2>5, <2>6, <3>2, <3>3
  <2>8. CASE UNCHANGED <<pc, swQueue>>
    <3>1. SwitchTypes' /\ SwLockOK'
      BY <1>0, <2>1, <2>3, <2>8 DEF SwitchTypes, SwLockOK
    <3>2. FutureOK'
      BY <1>0, <2>1, <2>8 DEF FutureOK
    <3> QED BY <1>1, <2>1, <2>5, <2>6, <2>8, <3>1, <3>2
  <2> QED BY <1>18, <2>7, <2>8 DEF StateReported, Idle
<1>19. CASE BrokerLost
  <2>1. /\ pc["event"] = "idle" /\ ~brokerUp' /\ orders' = <<>> /\ reports' = <<>>
        /\ Locks("event") /\ UNCHANGED <<switchKind, wired, counting, swWanted>>
        /\ future' \in {future, "failed"} /\ (future = "none" => future' = "none")
    BY <1>19 DEF BrokerLost, Idle, SameDevice, SwitchStays
  <2>2. pc' = [pc EXCEPT !["event"] = "locking"] /\ swQueue' = Append(swQueue, "event")
    BY <2>1 DEF Locks, Goes
  <2>3. /\ DOMAIN pc' = Task /\ swQueue' \in Seq(Task) /\ SwLockOK'
        /\ swQueue' # <<>>
        /\ (swQueue # <<>> /\ pc[Head(swQueue)] # "idle" => pc'[Head(swQueue')] = pc[Head(swQueue)])
    BY <1>0, <2>1, <2>2, LockTaken
  <2>4. FutureOK'
    <3>1. ASSUME future' # "none" PROVE pc'[Head(swQueue')] \in Waits
      <4>1. swQueue # <<>> /\ pc[Head(swQueue)] \in Waits
        BY <1>0, <2>1, <3>1 DEF FutureOK
      <4> QED BY <2>3, <4>1
    <3> QED BY <2>3, <3>1 DEF FutureOK
  <2>5. pc'["event"] = "locking"
    BY <1>0, <2>2 DEF SwitchTypes
  <2>6. WiresOK' /\ SwitchIsSo'
    BY <1>0, <2>1, <2>5 DEF WiresOK, SwitchIsSo
  <2>7. SwitchTypes'
    BY <1>0, <2>1, <2>3 DEF SwitchTypes
  <2> QED BY <1>1, <2>1, <2>3, <2>4, <2>6, <2>7
<1>20. CASE BrokerFound
  <2>1. /\ ~brokerUp /\ pc["init"] = "idle" /\ brokerUp' /\ reports' \in {<<>>, <<wired>>} /\ Locks("init")
        /\ UNCHANGED <<switchKind, wired, counting, swState, swWanted, future, orders, crossed>>
    BY <1>20 DEF BrokerFound, Idle, SameDevice, SwitchStays
  <2>2. /\ DOMAIN pc' = Task /\ swQueue' \in Seq(Task) /\ SwLockOK' /\ FutureOK'
        /\ pc'["event"] = pc["event"]
    BY <1>0, <1>6, <2>1
  <2>3. reports' \in Seq(Positions) /\ (reports' # <<>> => reports'[Len(reports')] = wired)
    <3>1. wired \in Positions
      BY <1>0 DEF SwitchTypes
    <3>2. CASE reports' = <<wired>>
      <4>1. <<wired>> \in Seq(Positions) /\ Len(<<wired>>) = 1 /\ <<wired>>[1] = wired
        BY <3>1
      <4> QED BY <3>2, <4>1
    <3>3. CASE reports' = << >>
      BY <3>3
    <3> QED BY <2>1, <3>2, <3>3
  <2>4. SwitchTypes'
    BY <1>0, <2>1, <2>2, <2>3 DEF SwitchTypes
  <2>5. WiresOK' /\ SwitchIsSo'
    BY <1>0, <2>1, <2>2, <2>3 DEF WiresOK, SwitchIsSo
  <2> QED BY <1>1, <2>1, <2>2, <2>4, <2>5
<1>21. CASE BrokerLossNoted
  <2>1. /\ HasLock("event") /\ pc["event"] = "locking" /\ Unlocks("event") /\ swState' = "error"
        /\ UNCHANGED <<switchKind, wired, counting, swWanted, future, brokerUp, orders, reports, crossed>>
    BY <1>21 DEF BrokerLossNoted, AfterLoss, SameDevice, SwitchStays, NoBroker
  <2>2. /\ pc' = [pc EXCEPT !["event"] = "idle"] /\ swQueue' = Tail(swQueue)
        /\ swQueue # <<>> /\ Head(swQueue) = "event"
    BY <2>1 DEF Unlocks, Goes, HasLock
  <2>3. DOMAIN pc' = Task /\ swQueue' \in Seq(Task) /\ SwLockOK'
    BY <1>0, <2>1, <2>2, LockGiven
  <2>4. future = "none"
    BY <1>0, <1>4, <2>1
  <2>5. SwitchTypes'
    BY <1>0, <2>1, <2>3 DEF SwitchTypes
  <2>6. WiresOK' /\ FutureOK' /\ SwitchIsSo'
    BY <1>0, <2>1, <2>4 DEF WiresOK, FutureOK, SwitchIsSo, Positions
  <2> QED BY <1>1, <2>1, <2>3, <2>5, <2>6
<1>22. ~CountedDown /\ \A t \in SwitchTasks : ~StatusAnswered(t) /\ ~SwitchAnswered(t)
  BY <1>0 DEF CountedDown, StatusAnswered, SwitchAnswered, WiresOK
<1> QED
  BY <1>7, <1>8, <1>12, <1>13, <1>14, <1>15, <1>16, <1>17, <1>18, <1>19, <1>20, <1>21, <1>22
     DEF SwitchesNext, SwitchWorld, SwitchSteps

LEMMA SwitchesKeep ==
  ASSUME SwitchesOK, SwitchesNext
  PROVE  SwitchesOK'
BY AnsweringKeeps, ReportingKeeps

LEMMA SwitchesRest ==
  ASSUME SwitchesOK, UNCHANGED <<pc, swVars>>
  PROVE  SwitchesOK'
<1>1. UNCHANGED <<pc, switchKind, swState, wired, counting, swQueue, swWanted, future, brokerUp, orders,
                  reports, crossed, fooled>>
  BY DEF swVars
<1> QED BY <1>1 DEF SwitchesOK, SwitchTypes, SwLockOK, AnsweringOK, Expected, ReportingOK, WiresOK, FutureOK,
                    SwitchIsSo

(***************************************************************************)
(* Installation: one task at a time goes through the checks, and what it    *)
(* has done so far is done when it stores the version.                       *)
(***************************************************************************)
Checkers == Request \cup {"init"}
Checks(t) == pc[t] \notin {"idle", "waiting"}

OneChecker ==
  /\ phase = "off" => \A t \in Checkers : pc[t] = "idle"
  /\ pc["init"] # "idle" => phase = "starting"
  /\ phase = "starting" => \A t \in Request : pc[t] = "idle"
  /\ \A t \in Request : Checks(t) => sudoLock = t

InstallTypes ==
  /\ DOMAIN pc = Task
  /\ optionsOnDisk \subseteq Option /\ inMemory \subseteq Option
  /\ validator \in [service : BOOLEAN, config : BOOLEAN, pathValid : BOOLEAN, asked : BOOLEAN]

UnitOK ==
  /\ ~validator.service \/ unitSeen = "new" => unitFile = "new"
  /\ ~validator.pathValid => validator.service /\ unitSeen # "new"

CheckOK(t) ==
  /\ pc[t] \in {"config", "backing", "saving", "storing"} => unitFile = "new"
  /\ pc[t] = "config" => validator.pathValid
  /\ pc[t] = "backing" => restores = inMemory
  /\ pc[t] = "saving" => inMemory = {} /\ Option \subseteq linked
  /\ pc[t] = "storing" => optionsOnDisk = {} \/ failedOnce

(* A configuration that need not be checked was, and what is in memory is in the file, *)
(* but for the time it is saved.                                                        *)
Saving == \E t \in Checkers : pc[t] = "saving"
ConfigOK ==
  /\ ~validator.config => phase = "off" \/ failedOnce \/ optionsOnDisk = {} \/ Saving
  /\ phase # "off" /\ ~Saving => inMemory = optionsOnDisk

InstallOK ==
  /\ InstallTypes /\ OneChecker /\ UnitOK /\ ConfigOK /\ InstallationTrue
  /\ \A t \in Checkers : CheckOK(t)

LEMMA InstallBegins ==
  ASSUME HostInit, InstallationInit
  PROVE  InstallOK
<1>1. /\ DOMAIN pc = Task /\ (\A t \in Task : pc[t] = "idle") /\ Checkers \subseteq Task /\ "init" \in Task
      /\ Request \subseteq Task
  BY DEF HostInit, Task, Background, Checkers
<1>2. InstallTypes /\ UnitOK
  BY <1>1 DEF InstallTypes, UnitOK, InstallationInit, Fresh
<1>3. OneChecker /\ \A t \in Checkers : CheckOK(t)
  BY <1>1 DEF OneChecker, CheckOK, Checks, InstallationInit
<1>4. ConfigOK /\ InstallationTrue
  BY DEF ConfigOK, InstallationTrue, InstallationInit, Fresh
<1> QED BY <1>2, <1>3, <1>4 DEF InstallOK

LEMMA InstallServes ==
  ASSUME InstallOK
  PROVE  InstallationTrue
BY DEF InstallOK

(* The one that checks goes on, or is done. *)
LEMMA CheckerMoves ==
  ASSUME InstallOK, NEW t \in Checkers, Checks(t), NEW place, Goes(t, place),
         \/ place \notin {"idle", "waiting"} /\ UNCHANGED <<phase, sudoLock>>
         \/ /\ place = "idle"
            /\ phase' \in {"up", "restarting"} \/ (t # "init" /\ phase' = phase)
  PROVE  /\ DOMAIN pc' = Task /\ pc'[t] = place /\ OneChecker'
         /\ phase # "off" /\ phase' # "off"
         /\ \A u \in Checkers \ {t} : pc[u] \in {"idle", "waiting"} /\ pc'[u] = pc[u]
<1>0. Checkers \subseteq Task /\ "init" \in Task /\ Request \subseteq Task /\ "init" \notin Request
  BY HostConstants DEF Task, Background, Checkers
<1>1. /\ DOMAIN pc' = Task /\ pc'[t] = place /\ \A u \in Checkers \ {t} : pc'[u] = pc[u]
  BY <1>0 DEF InstallOK, InstallTypes, Goes
<1>2. phase # "off" /\ phase' # "off"
  BY DEF InstallOK, OneChecker, Checks
<1>3. ASSUME NEW u \in Checkers \ {t} PROVE pc[u] \in {"idle", "waiting"}
  <2>1. CASE t = "init"
    BY <1>3, <2>1 DEF InstallOK, OneChecker, Checks, Checkers
  <2>2. CASE t # "init" /\ u = "init"
    BY <2>2 DEF InstallOK, OneChecker, Checks, Checkers
  <2>3. CASE t # "init" /\ u # "init"
    BY <1>3, <2>3 DEF InstallOK, OneChecker, Checks, Checkers
  <2> QED BY <2>1, <2>2, <2>3
<1>4. OneChecker'
  <2>1. CASE t = "init"
    <3>1. phase = "starting" /\ \A u \in Request : pc'[u] = "idle"
      BY <1>0, <1>1, <2>1 DEF InstallOK, OneChecker, Checks, Checkers
    <3> QED BY <1>0, <1>1, <1>2, <2>1, <3>1 DEF OneChecker, Checks
  <2>2. CASE t \in Request
    <3>1. phase # "starting" /\ pc["init"] = "idle" /\ pc'["init"] = "idle" /\ sudoLock = t
      BY <1>0, <1>1, <2>2 DEF InstallOK, OneChecker, Checks, Checkers
    <3>2. phase' # "starting"
      BY <1>0, <2>2, <3>1
    <3>3. \A u \in Request : pc'[u] \notin {"idle", "waiting"} => u = t /\ place \notin {"idle", "waiting"}
      BY <1>1, <1>3 DEF Checkers
    <3> QED BY <1>2, <3>1, <3>2, <3>3 DEF OneChecker, Checks
  <2> QED BY <2>1, <2>2 DEF Checkers
<1> QED BY <1>1, <1>2, <1>3, <1>4

LEMMA ValidatesKeeps ==
  ASSUME InstallOK, NEW t \in Checkers, Validates(t)
  PROVE  InstallOK'
<1>0. InstallTypes /\ UnitOK /\ ConfigOK /\ InstallationTrue /\ CheckOK(t)
  BY DEF InstallOK
<1> DEFINE Moves(place) ==
      /\ Goes(t, place)
      /\ \/ place \notin {"idle", "waiting"} /\ UNCHANGED <<phase, sudoLock>>
         \/ /\ place = "idle"
            /\ phase' \in {"up", "restarting"} \/ (t # "init" /\ phase' = phase)
<1>1. ASSUME NEW place, Moves(place), Checks(t),
             optionsOnDisk' \subseteq Option, inMemory' \subseteq Option,
             validator' \in [service : BOOLEAN, config : BOOLEAN, pathValid : BOOLEAN, asked : BOOLEAN],
             UnitOK', InstallationTrue',
             ~validator'.config => failedOnce' \/ optionsOnDisk' = {} \/ place = "saving",
             place # "saving" => inMemory' = optionsOnDisk',
             place \in {"config", "backing", "saving", "storing"} => unitFile' = "new",
             place = "config" => validator'.pathValid,
             place = "backing" => restores' = inMemory',
             place = "saving" => inMemory' = {} /\ Option \subseteq linked',
             place = "storing" => optionsOnDisk' = {} \/ failedOnce'
      PROVE  InstallOK'
  <2>1. /\ DOMAIN pc' = Task /\ pc'[t] = place /\ OneChecker'
        /\ phase # "off" /\ phase' # "off"
        /\ \A u \in Checkers \ {t} : pc[u] \in {"idle", "waiting"} /\ pc'[u] = pc[u]
    BY <1>1, CheckerMoves
  <2>2. Saving' <=> place = "saving"
    BY <2>1 DEF Saving
  <2>3. ConfigOK'
    BY <1>1, <2>1, <2>2 DEF ConfigOK
  <2>4. ASSUME NEW u \in Checkers PROVE CheckOK(u)'
    <3>1. CASE u = t
      BY <1>1, <2>1, <3>1 DEF CheckOK
    <3>2. CASE u # t
      <4>1. pc'[u] \in {"idle", "waiting"}
        BY <2>1, <2>4, <3>2
      <4> QED BY <4>1 DEF CheckOK
    <3> QED BY <3>1, <3>2
  <2>5. InstallTypes'
    BY <1>1, <2>1 DEF InstallTypes
  <2> QED BY <1>1, <2>1, <2>3, <2>4, <2>5 DEF InstallOK
<1>2. Checks(t) => phase # "off" /\ \A u \in Checkers : pc[u] = "saving" => u = t
  <2>1. ASSUME Checks(t) PROVE \A u \in Checkers \ {t} : pc[u] \in {"idle", "waiting"}
    BY <2>1, HostConstants DEF InstallOK, OneChecker, Checks, Checkers, Background
  <2> QED BY <2>1 DEF InstallOK, OneChecker, Checks
<1>3. ASSUME ValidationFails(t) PROVE Moves("idle")
  BY <1>3, HostConstants DEF ValidationFails, Checkers, Background
<1> HIDE DEF Moves
<1>4. CASE ServiceChecked(t)
  <2>1. /\ pc[t] = "service" /\ UNCHANGED <<unitFile, unitSeen, version, confVars>>
    BY <1>4 DEF ServiceChecked
  <2>2. phase # "off" /\ ~Saving /\ inMemory = optionsOnDisk
    BY <1>0, <1>2, <2>1 DEF Checks, Saving, ConfigOK
  <2>3. InstallationTrue' /\ UNCHANGED <<optionsOnDisk, inMemory, failedOnce>>
    BY <1>0, <2>1 DEF InstallationTrue, confVars
  <2>4. CASE (~validator.service \/ unitSeen = "new") /\ Goes(t, "config") /\ UNCHANGED <<phase, validator, sudoLock>>
    <3>1. Moves("config") /\ UnitOK'
      BY <1>0, <2>1, <2>4 DEF Moves, UnitOK
    <3>2. unitFile = "new" /\ validator.pathValid
      BY <1>0, <2>4 DEF UnitOK
    <3> QED BY <1>0, <1>1, <2>1, <2>2, <2>3, <2>4, <3>1, <3>2 DEF Checks, InstallTypes, ConfigOK
  <2>5. CASE ValidationFails(t) /\ UNCHANGED validator
    <3>1. Moves("idle") /\ UnitOK'
      BY <1>0, <1>3, <2>1, <2>5 DEF UnitOK
    <3> QED BY <1>0, <1>1, <2>1, <2>2, <2>3, <2>5, <3>1 DEF Checks, InstallTypes, ConfigOK
  <2>6. CASE /\ Goes(t, "sudo") /\ validator.service /\ unitSeen # "new"
             /\ validator' = [validator EXCEPT !.pathValid = @ /\ ~custom] /\ UNCHANGED <<phase, sudoLock>>
    <3>1. /\ validator' \in [service : BOOLEAN, config : BOOLEAN, pathValid : BOOLEAN, asked : BOOLEAN]
          /\ validator'.service = validator.service /\ validator'.config = validator.config
      BY <1>0, <2>6 DEF InstallTypes
    <3>2. Moves("sudo") /\ UnitOK'
      BY <1>0, <2>1, <2>6, <3>1 DEF Moves, UnitOK
    <3> QED BY <1>0, <1>1, <2>1, <2>2, <2>3, <3>1, <3>2 DEF Checks, InstallTypes, ConfigOK
  <2> QED BY <1>4, <2>4, <2>5, <2>6 DEF ServiceChecked
<1>5. CASE SudoChecked(t)
  <2>1. /\ pc[t] = "sudo" /\ UNCHANGED <<unitFile, unitSeen, version, confVars>>
    BY <1>5 DEF SudoChecked
  <2>2. phase # "off" /\ ~Saving /\ inMemory = optionsOnDisk
    BY <1>0, <1>2, <2>1 DEF Checks, Saving, ConfigOK
  <2>3. InstallationTrue' /\ UNCHANGED <<optionsOnDisk, inMemory, failedOnce>>
    BY <1>0, <2>1 DEF InstallationTrue, confVars
  <2>4. \E b \in BOOLEAN : validator' = [validator EXCEPT !.asked = b]
    BY <1>5 DEF SudoChecked
  <2>5. /\ validator' \in [service : BOOLEAN, config : BOOLEAN, pathValid : BOOLEAN, asked : BOOLEAN]
        /\ validator'.service = validator.service /\ validator'.config = validator.config
        /\ validator'.pathValid = validator.pathValid
    BY <1>0, <2>4 DEF InstallTypes
  <2>6. UnitOK'
    BY <1>0, <2>1, <2>5 DEF UnitOK
  <2>7. Moves("copying") \/ Moves("idle")
    BY <1>5 DEF Moves, SudoChecked
  <2> QED BY <1>0, <1>1, <2>1, <2>2, <2>3, <2>5, <2>6, <2>7 DEF Checks, InstallTypes, ConfigOK
<1>6. CASE UnitCopied(t)
  <2>1. /\ pc[t] = "copying" /\ UNCHANGED <<unitSeen, version, confVars>>
    BY <1>6 DEF UnitCopied
  <2>2. phase # "off" /\ ~Saving /\ inMemory = optionsOnDisk
    BY <1>0, <1>2, <2>1 DEF Checks, Saving, ConfigOK
  <2>7. unitFile' \in {unitFile, "new"}
    BY <1>6 DEF UnitCopied
  <2>3. InstallationTrue' /\ UNCHANGED <<optionsOnDisk, inMemory, failedOnce>>
    BY <1>0, <2>1, <2>7 DEF InstallationTrue, confVars
  <2>4. CASE /\ Goes(t, "config") /\ unitFile' = "new" /\ UNCHANGED <<phase, sudoLock>>
             /\ validator' = [validator EXCEPT !.service = FALSE, !.pathValid = TRUE]
    <3>1. /\ validator' \in [service : BOOLEAN, config : BOOLEAN, pathValid : BOOLEAN, asked : BOOLEAN]
          /\ ~validator'.service /\ validator'.config = validator.config /\ validator'.pathValid
      BY <1>0, <2>4 DEF InstallTypes
    <3>2. Moves("config") /\ UnitOK'
      BY <2>4, <3>1 DEF Moves, UnitOK
    <3> QED BY <1>0, <1>1, <2>1, <2>2, <2>3, <2>4, <3>1, <3>2 DEF Checks, InstallTypes, ConfigOK
  <2>5. CASE ValidationFails(t) /\ UNCHANGED validator
    <3>1. Moves("idle") /\ UnitOK'
      BY <1>0, <1>3, <2>1, <2>5, <2>7 DEF UnitOK
    <3> QED BY <1>0, <1>1, <2>1, <2>2, <2>3, <2>5, <3>1 DEF Checks, InstallTypes, ConfigOK
  <2> QED BY <1>6, <2>4, <2>5 DEF UnitCopied
<1>7. CASE ConfigChecked(t)
  <2>1. /\ pc[t] = "config"
        /\ UNCHANGED <<phase, sudoLock, unitFile, unitSeen, version, validator, optionsOnDisk, inMemory, linked, failedOnce>>
    BY <1>7 DEF ConfigChecked, unitVars, askVars
  <2>2. phase # "off" /\ ~Saving /\ inMemory = optionsOnDisk /\ unitFile = "new" /\ validator.pathValid
    BY <1>0, <1>2, <2>1 DEF Checks, Saving, ConfigOK, CheckOK
  <2>3. InstallationTrue' /\ UnitOK'
    BY <1>0, <2>1 DEF InstallationTrue, UnitOK
  <2>4. CASE ~validator.config /\ Goes(t, "storing")
    <3>1. Moves("storing")
      BY <2>1, <2>4 DEF Moves
    <3> QED BY <1>0, <1>1, <2>1, <2>2, <2>3, <2>4, <3>1 DEF Checks, InstallTypes, ConfigOK
  <2>5. CASE Goes(t, "backing") /\ restores' = inMemory
    <3>1. Moves("backing")
      BY <2>1, <2>5 DEF Moves
    <3> QED BY <1>0, <1>1, <2>1, <2>2, <2>3, <2>5, <3>1 DEF Checks, InstallTypes, ConfigOK
  <2> QED BY <1>7, <2>2, <2>4, <2>5 DEF ConfigChecked
<1>8. CASE FoldersLinked(t)
  <2>1. /\ pc[t] = "backing"
        /\ UNCHANGED <<unitFile, unitSeen, version, optionsOnDisk>>
        /\ validator' = [validator EXCEPT !.config = FALSE]
    BY <1>8 DEF FoldersLinked, unitVars
  <2>2. /\ phase # "off" /\ ~Saving /\ inMemory = optionsOnDisk /\ unitFile = "new" /\ restores = inMemory
    BY <1>0, <1>2, <2>1 DEF Checks, Saving, ConfigOK, CheckOK
  <2>3. /\ validator' \in [service : BOOLEAN, config : BOOLEAN, pathValid : BOOLEAN, asked : BOOLEAN]
        /\ validator'.service = validator.service /\ validator'.pathValid = validator.pathValid
    BY <1>0, <2>1 DEF InstallTypes
  <2>4. UnitOK'
    BY <1>0, <2>1, <2>3 DEF UnitOK
  <2>5. CASE /\ Conflicts = {} /\ Goes(t, "saving") /\ UNCHANGED <<phase, sudoLock, failedOnce>>
             /\ linked' = linked \cup (inMemory \ blocked) /\ Removed(Option)
    <3>1. Moves("saving")
      BY <2>5 DEF Moves
    <3>2. inMemory' = {}
      BY <1>0, <2>5 DEF Removed, InstallTypes
    <3>3. Option \subseteq linked' /\ linked \subseteq linked'
      BY <1>0, <2>2, <2>5 DEF Conflicts, InstallationTrue
    <3>4. InstallationTrue'
      BY <1>0, <2>1, <2>5, <3>3 DEF InstallationTrue
    <3> QED BY <1>0, <1>1, <2>1, <2>2, <2>3, <2>4, <3>1, <3>2, <3>3, <3>4 DEF Checks, InstallTypes
  <2>6. CASE /\ ValidationFails(t) /\ inMemory' = restores /\ failedOnce' = TRUE
             /\ \E done \in SUBSET (inMemory \ blocked) : linked' = linked \cup done
    <3>1. Moves("idle")
      BY <1>3, <2>6
    <3>2. InstallationTrue'
      BY <1>0, <2>1, <2>6 DEF InstallationTrue
    <3> QED BY <1>0, <1>1, <2>1, <2>2, <2>3, <2>4, <2>6, <3>1, <3>2 DEF Checks, InstallTypes
  <2> QED BY <1>8, <2>5, <2>6 DEF FoldersLinked
<1>9. CASE ConfigSaved(t)
  <2>1. /\ pc[t] = "saving" /\ Goes(t, "storing") /\ optionsOnDisk' = inMemory
        /\ UNCHANGED <<phase, sudoLock, unitFile, unitSeen, version, validator, inMemory, linked, failedOnce>>
    BY <1>9 DEF ConfigSaved, unitVars, askVars
  <2>2. phase # "off" /\ unitFile = "new" /\ inMemory = {} /\ Option \subseteq linked
    BY <1>0, <1>2, <2>1 DEF Checks, CheckOK
  <2>3. InstallationTrue' /\ UnitOK' /\ Moves("storing")
    BY <1>0, <2>1, <2>2 DEF InstallationTrue, UnitOK, Moves
  <2> QED BY <1>0, <1>1, <2>1, <2>2, <2>3 DEF Checks, InstallTypes
<1>10. CASE VersionStored(t)
  <2>1. /\ pc[t] = "storing" /\ Goes(t, "idle") /\ phase' \in {"up", "restarting"}
        /\ UNCHANGED <<unitFile, unitSeen, validator, optionsOnDisk, inMemory, linked, failedOnce>>
    BY <1>10 DEF VersionStored, confVars
  <2>2. /\ phase # "off" /\ ~Saving /\ inMemory = optionsOnDisk /\ unitFile = "new"
        /\ optionsOnDisk = {} \/ failedOnce
    BY <1>0, <1>2, <2>1 DEF Checks, Saving, ConfigOK, CheckOK
  <2>3. InstallationTrue' /\ UnitOK' /\ Moves("idle")
    BY <1>0, <2>1, <2>2 DEF InstallationTrue, UnitOK, Moves
  <2> QED BY <1>0, <1>1, <2>1, <2>2, <2>3 DEF Checks, InstallTypes, ConfigOK
<1> QED BY <1>4, <1>5, <1>6, <1>7, <1>8, <1>9, <1>10 DEF Validates

LEMMA InstallKeeps ==
  ASSUME InstallOK, InstallationNext
  PROVE  InstallOK'
<1>0. /\ InstallTypes /\ OneChecker /\ UnitOK /\ ConfigOK /\ InstallationTrue
      /\ Checkers \subseteq Task /\ Request \subseteq Checkers /\ "init" \in Checkers /\ "init" \notin Request
  BY HostConstants DEF InstallOK, Checkers, Task, Background
(* A request whose turn to check has not come, or is over. *)
<1>1. ASSUME NEW t \in Request, NEW place \in {"idle", "waiting", "access", "service"}, Goes(t, place),
             UNCHANGED <<phase, unitVars, validator, confVars>>,
             phase # "starting" /\ phase # "off" /\ pc[t] \in {"idle", "waiting", "access"},
             place \in {"access", "service"} => sudoLock' = t,
             \A u \in Request \ {t} : sudoLock = u => sudoLock' = u \/ pc[u] \in {"idle", "waiting"}
      PROVE  InstallOK'
  <2>1. /\ DOMAIN pc' = Task /\ pc'[t] = place /\ \A u \in Checkers \ {t} : pc'[u] = pc[u]
    BY <1>0, <1>1 DEF InstallTypes, Goes
  <2>2. OneChecker'
    BY <1>0, <1>1, <2>1 DEF OneChecker, Checks
  <2>3. UNCHANGED <<phase, unitFile, unitSeen, version, validator, optionsOnDisk, inMemory, restores, linked, failedOnce>>
    BY <1>1 DEF unitVars, confVars
  <2>4. Saving' = Saving
    <3>1. \A u \in Checkers : pc'[u] = "saving" <=> pc[u] = "saving"
      BY <1>1, <2>1
    <3> QED BY <3>1 DEF Saving
  <2>5. InstallTypes' /\ UnitOK' /\ ConfigOK' /\ InstallationTrue'
    BY <1>0, <2>1, <2>3, <2>4 DEF InstallTypes, UnitOK, ConfigOK, InstallationTrue
  <2>6. ASSUME NEW u \in Checkers PROVE CheckOK(u)'
    BY <1>1, <2>1, <2>3, <2>6 DEF InstallOK, CheckOK
  <2> QED BY <2>2, <2>5, <2>6 DEF InstallOK
<1>2. CASE InstallStarts
  <2>1. /\ phase = "off" /\ (\A u \in Checkers : pc[u] = "idle") /\ phase' \in {"starting", "up"}
        /\ (phase' = "starting" /\ Goes("init", "service")) \/ (phase' = "up" /\ UNCHANGED pc)
        /\ validator' = Fresh /\ unitSeen' = unitFile /\ inMemory' = optionsOnDisk
        /\ UNCHANGED <<version, unitFile, optionsOnDisk, linked, failedOnce>>
    BY <1>0, <1>2 DEF InstallStarts, OneChecker
  <2>2. /\ DOMAIN pc' = Task /\ \A u \in Request : pc'[u] = "idle"
        /\ (pc'["init"] = "idle" \/ (pc'["init"] = "service" /\ phase' = "starting"))
    BY <1>0, <2>1 DEF InstallTypes, Goes
  <2>3. \A u \in Checkers : pc'[u] \in {"idle", "service"}
    BY <2>2 DEF Checkers
  <2>4. OneChecker' /\ ~Saving'
    BY <2>1, <2>2, <2>3 DEF OneChecker, Saving, Checks
  <2>5. InstallTypes' /\ UnitOK' /\ ConfigOK' /\ InstallationTrue'
    BY <1>0, <2>1, <2>2, <2>4 DEF InstallTypes, UnitOK, ConfigOK, InstallationTrue, Fresh
  <2>6. ASSUME NEW u \in Checkers PROVE CheckOK(u)'
    BY <2>3, <2>6 DEF CheckOK
  <2> QED BY <2>4, <2>5, <2>6 DEF InstallOK
<1>3. ASSUME NEW t \in Request, SetSudoPassword(t) PROVE InstallOK'
  BY <1>0, <1>1, <1>3 DEF SetSudoPassword, Idle, installVars, askVars
<1>4. ASSUME NEW t \in Request, PasswordSet(t) PROVE InstallOK'
  <2>1. /\ pc[t] = "waiting" /\ Goes(t, "access") /\ sudoLock = None /\ sudoLock' = t
        /\ UNCHANGED <<phase, unitVars, validator, confVars>>
    BY <1>4 DEF PasswordSet
  <2>2. phase # "off" /\ phase # "starting"
    BY <1>0, <2>1 DEF OneChecker
  <2>3. \A u \in Request : sudoLock # u
    BY <2>1, HostConstants
  <2> QED BY <1>1, <2>1, <2>2, <2>3
<1>5. ASSUME NEW t \in Request, AccessChecked(t) PROVE InstallOK'
  <2>1. /\ pc[t] = "access"
        /\ (Goes(t, "service") /\ UNCHANGED sudoLock) \/ (Goes(t, "idle") /\ sudoLock' = None)
        /\ UNCHANGED <<phase, unitVars, validator, confVars>>
    BY <1>5 DEF AccessChecked
  <2>2. phase # "off" /\ phase # "starting" /\ sudoLock = t
    BY <1>0, <2>1 DEF OneChecker, Checks
  <2> QED BY <1>1, <2>1, <2>2
<1>6. CASE Unblocked
  <2>1. UNCHANGED <<pc, phase, unitFile, unitSeen, version, validator, optionsOnDisk, inMemory, restores, linked,
                    failedOnce, sudoLock>>
    BY <1>6 DEF Unblocked, unitVars, askVars
  <2> QED BY <2>1 DEF InstallOK, InstallTypes, OneChecker, Checks, UnitOK, ConfigOK, Saving, CheckOK, InstallationTrue
<1>7. CASE InstallEnds
  <2>1. /\ phase' = "off" /\ pc' = [t \in Task |-> "idle"] /\ inMemory' = {}
        /\ UNCHANGED <<unitFile, unitSeen, version, validator, optionsOnDisk, linked, failedOnce>>
    BY <1>7 DEF InstallEnds, unitVars
  <2>2. DOMAIN pc' = Task /\ \A u \in Checkers : pc'[u] = "idle"
    BY <1>0, <2>1
  <2>3. OneChecker' /\ \A u \in Checkers : CheckOK(u)'
    BY <1>0, <2>1, <2>2 DEF OneChecker, Checks, CheckOK
  <2>4. InstallTypes' /\ UnitOK' /\ ConfigOK' /\ InstallationTrue'
    BY <1>0, <2>1, <2>2 DEF InstallTypes, UnitOK, ConfigOK, InstallationTrue
  <2> QED BY <2>3, <2>4 DEF InstallOK
<1> QED BY <1>2, <1>3, <1>4, <1>5, <1>6, <1>7, ValidatesKeeps DEF InstallationNext, Checkers

LEMMA InstallRest ==
  ASSUME InstallOK, UNCHANGED <<pc, installVars>>
  PROVE  InstallOK'
<1>1. UNCHANGED <<pc, phase, unitFile, unitSeen, version, validator, optionsOnDisk, inMemory, restores, linked,
                  failedOnce, sudoLock>>
  BY DEF installVars, unitVars, askVars, confVars
<1> QED BY <1>1 DEF InstallOK, InstallTypes, OneChecker, Checks, UnitOK, ConfigOK, Saving, CheckOK, InstallationTrue

(***************************************************************************)
(* Announcements: who adds a feed is alone with it, and an etag that was    *)
(* stored is taken up only with its entries, or counts as unread.           *)
(***************************************************************************)
Fetches == {"initializing", "sent", "answered"}
Fetching(t) == pc[t] \in Fetches
Adding(t) == t \in Request /\ Fetching(t) /\ announceLock # t

FeedTypes ==
  /\ DOMAIN pc = Task /\ DOMAIN annTask = Task /\ DOMAIN annEntry = Task
  /\ upstream \in FeedVersion /\ mapped \subseteq Entry /\ DOMAIN rows = Entry
  /\ etag \in {None} \cup 0..upstream /\ etagStored \in {None} \cup 0..upstream
  /\ \A t \in Task : annTask[t] \in {None} \cup 0..upstream
  /\ \A t \in Task : annEntry[t].how \in {"shown", "asleep", "dismissed"}

FetchesOK ==
  /\ feedStored => feedOn
  /\ announceLock # None =>
       announceLock \in AnnTasks /\ pc[announceLock] \in {"others", "sent", "answered", "dismissing"}
  /\ \A t \in AnnTasks : Adding(t) => feedOn /\ ~feedStored
  /\ \A t, u \in AnnTasks : Adding(t) /\ Adding(u) => t = u
  /\ \A t \in AnnTasks : pc[t] = "initializing" => Adding(t)
  /\ pc["timer"] \in Fetches \cup {"others"} => announceLock = "timer"
  /\ \A t \in detached : t \in AnnTasks /\ Fetching(t) /\ announceLock = t
  /\ \A t \in AnnTasks : Fetching(t) /\ ~feedOn => t \in detached
  /\ \A t \in AnnTasks : pc[t] = "answered" => annTask[t] # None

(* The etag that a new feed has from the database *)
StoredEtagOK ==
  \A t \in AnnTasks : pc[t] = "initializing" /\ annTask[t] = upstream =>
    /\ etag \in {None, upstream} /\ (~unread => upstream \in mapped)
    /\ \A u \in AnnTasks : pc[u] = "answered" /\ u \notin detached => annTask[u] \in {NotModified, upstream}

AnnouncementsOK == FeedTypes /\ FetchesOK /\ StoredEtagOK /\ AnnouncementsTrue

LEMMA AnnNames ==
  /\ AnnTasks \subseteq Task /\ Request \subseteq AnnTasks /\ "timer" \in AnnTasks /\ "worker" \in Task
  /\ "timer" \notin Request /\ "worker" \notin AnnTasks /\ None \notin Task /\ None \notin 0..2
  /\ None \notin {"shown", "asleep", "dismissed"}
  /\ FeedVersion = {1, 2} /\ Entry = {0, 1, 2} /\ Own = 0 /\ NotModified = 0
BY HostConstants, AnnouncementConstants
   DEF AnnTasks, Task, Background, FeedVersion, Entry, Own, NotModified

LEMMA AnnouncementsBegin ==
  ASSUME HostInit, AnnouncementsInit
  PROVE  AnnouncementsOK
<1>1. /\ DOMAIN pc = Task /\ (\A t \in Task : pc[t] = "idle") /\ AnnTasks \subseteq Task
      /\ announceLock = None /\ detached = {} /\ ~feedStored /\ ~feedOn /\ etag = None /\ etagStored = None
      /\ upstream = 1 /\ mapped = {Own}
      /\ annTask = [t \in Task |-> None] /\ annEntry = [t \in Task |-> NoEntry]
      /\ rows = [e \in Entry |-> IF e = Own THEN "shown" ELSE None]
  BY AnnNames DEF HostInit, AnnouncementsInit
<1>2. FeedTypes
  BY <1>1, AnnNames DEF FeedTypes, NoEntry
<1>3. FetchesOK /\ StoredEtagOK
  BY <1>1, AnnNames DEF FetchesOK, StoredEtagOK, Adding, Fetching, Fetches
<1>4. AnnouncementsTrue
  BY <1>1, AnnNames DEF AnnouncementsTrue
<1> QED BY <1>2, <1>3, <1>4 DEF AnnouncementsOK

LEMMA AnnouncementsServe ==
  ASSUME AnnouncementsOK
  PROVE  AnnouncementsTrue
BY DEF AnnouncementsOK

(* A task that reads, or stops *)
LEMMA AnnMoves ==
  ASSUME FeedTypes, NEW t \in Task, NEW place, NEW what,
         \/ Reads(t, place, what) /\ what \in {None} \cup 0..upstream
         \/ ReadsEntry(t, place, what) /\ what.how \in {"shown", "asleep", "dismissed"}
         \/ Stops(t) /\ place = "idle"
  PROVE  /\ DOMAIN pc' = Task /\ pc'[t] = place /\ \A u \in Task \ {t} : pc'[u] = pc[u]
         /\ DOMAIN annTask' = Task /\ DOMAIN annEntry' = Task
         /\ \A u \in Task : annTask'[u] \in {None} \cup 0..upstream
         /\ \A u \in Task : annEntry'[u].how \in {"shown", "asleep", "dismissed"}
         /\ \A u \in Task \ {t} : annTask'[u] = annTask[u] /\ annEntry'[u] = annEntry[u]
         /\ Reads(t, place, what) => annTask'[t] = what
<1>1. CASE Reads(t, place, what) /\ what \in {None} \cup 0..upstream
  BY <1>1 DEF Reads, Goes, FeedTypes
<1>2. CASE ReadsEntry(t, place, what) /\ what.how \in {"shown", "asleep", "dismissed"}
  <2>1. Reads(t, place, what) => annTask'[t] = what
    BY DEF Reads, FeedTypes
  <2> QED BY <1>2, <2>1 DEF ReadsEntry, Goes, FeedTypes
<1>3. CASE Stops(t) /\ place = "idle"
  <2>1. Reads(t, place, what) => annTask'[t] = what
    BY DEF Reads, FeedTypes
  <2> QED BY <1>3, <2>1 DEF Stops, Goes, FeedTypes, NoEntry
<1> QED BY <1>1, <1>2, <1>3

(* A task that is no fetch, before or after *)
LEMMA NoFetch ==
  ASSUME AnnouncementsOK, NEW t \in Task, NEW place, place \notin Fetches, ~Fetching(t),
         DOMAIN pc' = Task, pc'[t] = place, \A u \in Task \ {t} : pc'[u] = pc[u],
         DOMAIN annTask' = Task, DOMAIN annEntry' = Task,
         \A u \in Task : annTask'[u] \in {None} \cup 0..upstream,
         \A u \in Task : annEntry'[u].how \in {"shown", "asleep", "dismissed"},
         \A u \in Task \ {t} : annTask'[u] = annTask[u],
         UNCHANGED <<upstream, feedOn, feedStored, etag, etagStored, detached>>,
         announceLock' = announceLock \/ {announceLock, announceLock'} \subseteq {None, t},
         announceLock' = t => t \in AnnTasks /\ place \in {"others", "dismissing"},
         t = "timer" /\ place = "others" => announceLock' = t,
         mapped' \subseteq Entry, DOMAIN rows' = Entry, \A e \in mapped' : rows'[e] # None,
         feedOn /\ ~unread' /\ upstream \in mapped => ~unread /\ upstream \in mapped',
         ~unread' => ~unread \/ ~feedOn
  PROVE  AnnouncementsOK'
<1>0. FeedTypes /\ FetchesOK /\ StoredEtagOK /\ AnnouncementsTrue
  BY DEF AnnouncementsOK
<1>1. FeedTypes'
  BY <1>0 DEF FeedTypes
<1>2. \A u \in AnnTasks : (Fetching(u)' <=> Fetching(u)) /\ (Fetching(u) => u # t /\ pc'[u] = pc[u] /\ annTask'[u] = annTask[u])
  BY AnnNames DEF Fetching
<1>3. \A u \in AnnTasks : Adding(u)' <=> Adding(u)
  BY <1>2, AnnNames DEF Adding
<1>4. announceLock' # None =>
        announceLock' \in AnnTasks /\ pc'[announceLock'] \in {"others", "sent", "answered", "dismissing"}
  <2>1. CASE announceLock' = t
    BY <2>1, AnnNames
  <2>2. CASE announceLock' # t
    BY <1>0, <2>2, AnnNames DEF FetchesOK
  <2> QED BY <2>1, <2>2
<1>5. FetchesOK'
  <2>1. pc'["timer"] \in Fetches \cup {"others"} => announceLock' = "timer"
    BY <1>0, AnnNames DEF FetchesOK, Fetching
  <2>2. ASSUME NEW u \in detached PROVE u \in AnnTasks /\ Fetching(u)' /\ announceLock' = u
    BY <1>0, <1>2, <2>2, AnnNames DEF FetchesOK
  <2>3. \A u \in AnnTasks : pc'[u] = "initializing" => Adding(u)'
    BY <1>0, <1>2, <1>3 DEF FetchesOK, Fetching, Fetches
  <2>4. \A u \in AnnTasks : pc'[u] = "answered" => annTask'[u] # None
    BY <1>0, <1>2 DEF FetchesOK, Fetching, Fetches
  <2>5. feedStored' => feedOn'
    BY <1>0 DEF FetchesOK
  <2>6. \A u \in AnnTasks : Adding(u)' => feedOn' /\ ~feedStored'
    BY <1>0, <1>3 DEF FetchesOK
  <2>7. \A u, v \in AnnTasks : Adding(u)' /\ Adding(v)' => u = v
    BY <1>0, <1>3 DEF FetchesOK
  <2>8. \A u \in AnnTasks : Fetching(u)' /\ ~feedOn' => u \in detached'
    BY <1>0, <1>2 DEF FetchesOK
  <2> QED BY <1>4, <2>1, <2>2, <2>3, <2>4, <2>5, <2>6, <2>7, <2>8 DEF FetchesOK
<1>6. StoredEtagOK'
  <2>1. ASSUME NEW u \in AnnTasks, pc'[u] = "initializing", annTask'[u] = upstream
        PROVE  /\ etag \in {None, upstream} /\ (~unread' => upstream \in mapped')
               /\ \A v \in AnnTasks : pc'[v] = "answered" /\ v \notin detached => annTask'[v] \in {NotModified, upstream}
    <3>1. pc[u] = "initializing" /\ annTask[u] = upstream /\ Adding(u)
      BY <1>0, <1>2, <2>1 DEF Fetching, Fetches, FetchesOK
    <3>2. feedOn
      BY <1>0, <3>1 DEF FetchesOK
    <3>3. /\ etag \in {None, upstream} /\ (~unread => upstream \in mapped)
          /\ \A v \in AnnTasks : pc[v] = "answered" /\ v \notin detached => annTask[v] \in {NotModified, upstream}
      BY <1>0, <2>1, <3>1 DEF StoredEtagOK
    <3>4. \A v \in AnnTasks : pc'[v] = "answered" => pc[v] = "answered" /\ annTask'[v] = annTask[v]
      BY <1>2 DEF Fetching, Fetches
    <3> QED BY <3>2, <3>3, <3>4
  <2> QED BY <2>1 DEF StoredEtagOK
<1>7. AnnouncementsTrue'
  BY <1>0 DEF AnnouncementsTrue
<1> QED BY <1>1, <1>5, <1>6, <1>7 DEF AnnouncementsOK

(* Steps of a task that is no fetch *)
LEMMA NoFetchKeeps ==
  ASSUME AnnouncementsOK,
         \/ PollDue \/ WakeSteps
         \/ \E t \in AnnTasks : EntryDismissed(t) \/ FeedPruned(t)
         \/ \E t \in Request : AskAnnouncements(t)
  PROVE  AnnouncementsOK'
<1>0. FeedTypes /\ FetchesOK /\ StoredEtagOK /\ AnnouncementsTrue
  BY DEF AnnouncementsOK
<1>1. CASE PollDue
  <2>1. pc["timer"] = "idle" /\ Goes("timer", "queued") /\ UNCHANGED announceVars
    BY <1>1 DEF PollDue, Idle
  <2>2. DOMAIN pc' = Task /\ pc'["timer"] = "queued" /\ \A u \in Task \ {"timer"} : pc'[u] = pc[u]
    BY <1>0, <2>1, AnnNames DEF FeedTypes, Goes
  <2>3. UNCHANGED <<upstream, feedOn, feedStored, etag, etagStored, unread, detached, announceLock, mapped, rows,
                    annTask, annEntry>>
    BY <2>1 DEF announceVars, annFeedVars, annRowVars, annTaskVars
  <2>4. announceLock # "timer"
    BY <1>0, <2>1, AnnNames DEF FetchesOK
  <2> QED BY <1>0, <2>1, <2>2, <2>3, <2>4, NoFetch, AnnNames DEF FeedTypes, Fetching, Fetches, AnnouncementsTrue
<1>2. ASSUME NEW t \in Request, AskAnnouncements(t) PROVE AnnouncementsOK'
  <2>5. pc[t] = "idle" /\ UNCHANGED <<upstream, annFeedVars, annRowVars, announceLock, detached>>
    BY <1>2, Zenon DEF AskAnnouncements, Idle
  <2>1. /\ pc[t] = "idle"
        /\ UNCHANGED <<upstream, feedOn, feedStored, etag, etagStored, unread, detached, announceLock, mapped, rows>>
    BY <2>5 DEF annFeedVars, annRowVars
  <2>2. PICK what : \/ Reads(t, "queued", what) /\ what \in {None} \cup 0..upstream
                    \/ ReadsEntry(t, "queued", what) /\ what.how \in {"shown", "asleep", "dismissed"}
    <3>1. CASE Reads(t, "queued", None)
      BY <3>1
    <3>2. CASE \E e \in mapped, how \in {"asleep", "dismissed"} :
                 ReadsEntry(t, "queued", [NoEntry EXCEPT !.id = e, !.how = how])
      <4>1. PICK e \in mapped, how \in {"asleep", "dismissed"} :
              ReadsEntry(t, "queued", [NoEntry EXCEPT !.id = e, !.how = how])
        BY <3>2, Zenon
      <4>2. PICK r : r = [NoEntry EXCEPT !.id = e, !.how = how]
        OBVIOUS
      <4>3. r.how \in {"shown", "asleep", "dismissed"}
        BY <4>2 DEF NoEntry
      <4> QED BY <4>1, <4>2, <4>3
    <3>3. \/ Reads(t, "queued", None)
          \/ \E e \in mapped, how \in {"asleep", "dismissed"} :
               ReadsEntry(t, "queued", [NoEntry EXCEPT !.id = e, !.how = how])
      BY <1>2, Zenon DEF AskAnnouncements
    <3> QED BY <3>1, <3>2, <3>3, Zenon
  <2>3. /\ DOMAIN pc' = Task /\ pc'[t] = "queued" /\ \A u \in Task \ {t} : pc'[u] = pc[u]
        /\ DOMAIN annTask' = Task /\ DOMAIN annEntry' = Task
        /\ \A u \in Task : annTask'[u] \in {None} \cup 0..upstream
        /\ \A u \in Task : annEntry'[u].how \in {"shown", "asleep", "dismissed"}
        /\ \A u \in Task \ {t} : annTask'[u] = annTask[u] /\ annEntry'[u] = annEntry[u]
    BY <1>0, <2>2, AnnMoves, AnnNames
  <2>4. announceLock # t
    BY <1>0, <2>1, AnnNames DEF FetchesOK
  <2> QED BY <1>0, <2>1, <2>3, <2>4, NoFetch, AnnNames DEF FeedTypes, Fetching, Fetches, AnnouncementsTrue
<1>3. ASSUME NEW t \in AnnTasks, EntryDismissed(t) PROVE AnnouncementsOK'
  <2>1. /\ pc[t] = "dismissing" /\ Stops(t) /\ AnnUnlocked(t)
        /\ UNCHANGED <<upstream, feedOn, feedStored, etag, etagStored, unread, detached>>
    BY <1>3 DEF EntryDismissed, annFeedVars
  <2>2. /\ DOMAIN pc' = Task /\ pc'[t] = "idle" /\ \A u \in Task \ {t} : pc'[u] = pc[u]
        /\ DOMAIN annTask' = Task /\ DOMAIN annEntry' = Task
        /\ \A u \in Task : annTask'[u] \in {None} \cup 0..upstream
        /\ \A u \in Task : annEntry'[u].how \in {"shown", "asleep", "dismissed"}
        /\ \A u \in Task \ {t} : annTask'[u] = annTask[u] /\ annEntry'[u] = annEntry[u]
    BY <1>0, <2>1, AnnMoves, AnnNames
  <2>3. mapped' = mapped /\ DOMAIN rows' = Entry /\ \A e \in mapped' : rows'[e] # None
    <3>1. CASE UNCHANGED annRowVars
      BY <1>0, <3>1 DEF annRowVars, FeedTypes, AnnouncementsTrue
    <3>2. CASE WritesBack(annEntry[t].id, annEntry[t].how) /\ UNCHANGED mapped
      <4>1. annEntry[t].how # None
        BY <1>0, AnnNames DEF FeedTypes
      <4> QED BY <1>0, <3>2, <4>1 DEF WritesBack, FeedTypes, AnnouncementsTrue
    <3> QED BY <1>3, <3>1, <3>2 DEF EntryDismissed
  <2>4. announceLock' = announceLock \/ {announceLock, announceLock'} \subseteq {None, t}
    BY <2>1 DEF AnnUnlocked
  <2>5. announceLock' # t
    BY <2>1, AnnNames DEF AnnUnlocked
  <2> QED BY <1>0, <2>1, <2>2, <2>3, <2>4, <2>5, NoFetch, AnnNames DEF FeedTypes, Fetching, Fetches
<1>4. ASSUME NEW t \in AnnTasks, FeedPruned(t) PROVE AnnouncementsOK'
  <2>1. /\ pc[t] = "pruning" /\ Stops(t)
        /\ UNCHANGED <<upstream, feedOn, feedStored, etag, etagStored, detached, announceLock>>
    BY <1>4 DEF FeedPruned
  <2>2. /\ DOMAIN pc' = Task /\ pc'[t] = "idle" /\ \A u \in Task \ {t} : pc'[u] = pc[u]
        /\ DOMAIN annTask' = Task /\ DOMAIN annEntry' = Task
        /\ \A u \in Task : annTask'[u] \in {None} \cup 0..upstream
        /\ \A u \in Task : annEntry'[u].how \in {"shown", "asleep", "dismissed"}
        /\ \A u \in Task \ {t} : annTask'[u] = annTask[u] /\ annEntry'[u] = annEntry[u]
    BY <1>0, <2>1, AnnMoves, AnnNames
  <2>3. PICK gone : /\ gone = annEntry[t].gone \cap mapped
                    /\ mapped' = mapped \ gone
                    /\ rows' = [e \in Entry |-> IF e \in gone THEN None ELSE rows[e]]
                    /\ unread' = (unread \/ (feedOn /\ gone # {}))
    BY <1>4 DEF FeedPruned
  <2>4. mapped' \subseteq Entry /\ DOMAIN rows' = Entry /\ \A e \in mapped' : rows'[e] # None
    BY <1>0, <2>3 DEF FeedTypes, AnnouncementsTrue
  <2>5. /\ feedOn /\ ~unread' /\ upstream \in mapped => ~unread /\ upstream \in mapped'
        /\ ~unread' => ~unread
    BY <2>3
  <2>6. announceLock # t
    BY <1>0, <2>1, AnnNames DEF FetchesOK
  <2> QED BY <1>0, <2>1, <2>2, <2>4, <2>5, <2>6, NoFetch, AnnNames DEF Fetching, Fetches
<1>5. CASE WakeDue
  <2>1. /\ pc["worker"] = "idle"
        /\ UNCHANGED <<upstream, feedOn, feedStored, etag, etagStored, unread, detached, announceLock, mapped, rows>>
    BY <1>5 DEF WakeDue, Idle, annFeedVars
  <2>2. UNCHANGED <<pc, annTask, annEntry>>
        \/ \E e \in annHandles : ReadsEntry("worker", "waking", [NoEntry EXCEPT !.id = e, !.row = rows[e]])
    BY <1>5, Zenon DEF WakeDue
  <2>3. announceLock # "worker"
    BY <1>0, AnnNames DEF FetchesOK
  <2>4. CASE UNCHANGED <<pc, annTask, annEntry>>
    <3>1. pc'["worker"] = "idle" /\ DOMAIN pc' = Task
      BY <1>0, <2>1, <2>4 DEF FeedTypes
    <3> QED BY <1>0, <2>1, <2>3, <2>4, <3>1, NoFetch, AnnNames DEF FeedTypes, Fetching, Fetches, AnnouncementsTrue
  <2>5. ASSUME NEW e \in annHandles, ReadsEntry("worker", "waking", [NoEntry EXCEPT !.id = e, !.row = rows[e]])
        PROVE  AnnouncementsOK'
    <3>0. PICK r : r = [NoEntry EXCEPT !.id = e, !.row = rows[e]]
      OBVIOUS
    <3>1. ReadsEntry("worker", "waking", r) /\ r.how \in {"shown", "asleep", "dismissed"}
      BY <2>5, <3>0 DEF NoEntry
    <3>2. /\ DOMAIN pc' = Task /\ pc'["worker"] = "waking" /\ \A u \in Task \ {"worker"} : pc'[u] = pc[u]
          /\ DOMAIN annTask' = Task /\ DOMAIN annEntry' = Task
          /\ \A u \in Task : annTask'[u] \in {None} \cup 0..upstream
          /\ \A u \in Task : annEntry'[u].how \in {"shown", "asleep", "dismissed"}
          /\ \A u \in Task \ {"worker"} : annTask'[u] = annTask[u] /\ annEntry'[u] = annEntry[u]
      BY <1>0, <3>1, AnnMoves, AnnNames
    <3> QED BY <1>0, <2>1, <2>3, <3>2, NoFetch, AnnNames DEF FeedTypes, Fetching, Fetches, AnnouncementsTrue
  <2> QED BY <2>2, <2>4, <2>5, Zenon
<1>6. CASE EntryWoken
  <2>1. /\ pc["worker"] = "waking" /\ Stops("worker")
        /\ UNCHANGED <<upstream, feedOn, feedStored, etag, etagStored, unread, detached, announceLock, mapped>>
    BY <1>6 DEF EntryWoken, annFeedVars
  <2>2. /\ DOMAIN pc' = Task /\ pc'["worker"] = "idle" /\ \A u \in Task \ {"worker"} : pc'[u] = pc[u]
        /\ DOMAIN annTask' = Task /\ DOMAIN annEntry' = Task
        /\ \A u \in Task : annTask'[u] \in {None} \cup 0..upstream
        /\ \A u \in Task : annEntry'[u].how \in {"shown", "asleep", "dismissed"}
        /\ \A u \in Task \ {"worker"} : annTask'[u] = annTask[u] /\ annEntry'[u] = annEntry[u]
    BY <1>0, <2>1, AnnMoves, AnnNames
  <2>3. DOMAIN rows' = Entry /\ \A e \in mapped' : rows'[e] # None
    <3>1. CASE UNCHANGED rows
      BY <1>0, <2>1, <3>1 DEF FeedTypes, AnnouncementsTrue
    <3>2. CASE WritesBack(annEntry["worker"].id, "shown")
      BY <1>0, <2>1, <3>2, AnnNames DEF WritesBack, FeedTypes, AnnouncementsTrue
    <3> QED BY <1>6, <3>1, <3>2 DEF EntryWoken
  <2>4. announceLock # "worker"
    BY <1>0, AnnNames DEF FetchesOK
  <2> QED BY <1>0, <2>1, <2>2, <2>3, <2>4, NoFetch, AnnNames DEF FeedTypes, Fetching, Fetches
<1> QED BY <1>1, <1>2, <1>3, <1>4, <1>5, <1>6 DEF WakeSteps

(* A task that has the lock, and goes on with it or gives it back *)
LEMMA TakenKeeps ==
  ASSUME AnnouncementsOK, (\E t \in AnnTasks : AnnTaken(t)) \/ OthersUpdated
  PROVE  AnnouncementsOK'
<1>0. FeedTypes /\ FetchesOK /\ StoredEtagOK /\ AnnouncementsTrue
  BY DEF AnnouncementsOK
(* It sends. *)
<1>1. ASSUME NEW t \in AnnTasks, feedOn, Reads(t, "sent", etag), pc[t] \in {"queued", "others"},
             announceLock \in {None, t}, announceLock' = t,
             UNCHANGED <<upstream, feedOn, feedStored, etag, etagStored, unread, detached, mapped, rows>>
      PROVE  AnnouncementsOK'
  <2>1. etag \in {None} \cup 0..upstream
    BY <1>0, AnnNames DEF FeedTypes
  <2>2. /\ DOMAIN pc' = Task /\ pc'[t] = "sent" /\ \A u \in Task \ {t} : pc'[u] = pc[u]
        /\ DOMAIN annTask' = Task /\ DOMAIN annEntry' = Task
        /\ \A u \in Task : annTask'[u] \in {None} \cup 0..upstream
        /\ \A u \in Task : annEntry'[u].how \in {"shown", "asleep", "dismissed"}
        /\ \A u \in Task \ {t} : annTask'[u] = annTask[u] /\ annEntry'[u] = annEntry[u]
    BY <1>0, <1>1, <2>1, AnnMoves, AnnNames
  <2>3. FeedTypes'
    BY <1>0, <1>1, <2>2 DEF FeedTypes
  <2>4. detached = {}
    <3>1. \A u \in detached : u = t /\ pc[u] \in Fetches
      BY <1>0, <1>1, AnnNames DEF FetchesOK, Fetching
    <3> QED BY <1>1, <3>1 DEF Fetches
  <2>5. \A u \in AnnTasks : (Adding(u)' <=> Adding(u)) /\ (Adding(u) => u # t)
    BY <1>0, <1>1, <2>2, AnnNames DEF Adding, Fetching, Fetches
  <2>6. FetchesOK'
    <3>1. \A u \in AnnTasks : pc'[u] = "initializing" => Adding(u)'
      BY <1>0, <2>2, <2>5, AnnNames DEF FetchesOK
    <3>2. \A u \in AnnTasks : pc'[u] = "answered" => annTask'[u] # None
      BY <1>0, <2>2, AnnNames DEF FetchesOK
    <3>3. pc'["timer"] \in Fetches \cup {"others"} => announceLock' = "timer"
      BY <1>0, <1>1, <2>2, AnnNames DEF FetchesOK
    <3>4. \A u, v \in AnnTasks : Adding(u)' /\ Adding(v)' => u = v
      BY <1>0, <2>5 DEF FetchesOK
    <3>5. \A u \in AnnTasks : Adding(u)' => feedOn' /\ ~feedStored'
      BY <1>0, <1>1, <2>5 DEF FetchesOK
    <3> QED BY <1>0, <1>1, <2>2, <2>4, <3>1, <3>2, <3>3, <3>4, <3>5 DEF FetchesOK
  <2>7. StoredEtagOK'
    BY <1>0, <1>1, <2>2, AnnNames DEF StoredEtagOK
  <2>8. AnnouncementsTrue'
    BY <1>0, <1>1 DEF AnnouncementsTrue
  <2> QED BY <2>3, <2>6, <2>7, <2>8 DEF AnnouncementsOK
(* It does not. *)
<1>2. ASSUME NEW t \in AnnTasks, NEW place \in {"others", "dismissing", "idle"}, NEW what,
             \/ Reads(t, place, what) /\ what \in {None} \cup 0..upstream
             \/ ReadsEntry(t, place, what) /\ what.how \in {"shown", "asleep", "dismissed"}
             \/ Stops(t) /\ place = "idle",
             pc[t] \in {"queued", "others"},
             announceLock \in {None, t}, IF place = "idle" THEN announceLock' = None ELSE announceLock' = t,
             UNCHANGED <<upstream, feedOn, feedStored, etag, etagStored, unread, detached, mapped, rows>>
      PROVE  AnnouncementsOK'
  <2>1. /\ DOMAIN pc' = Task /\ pc'[t] = place /\ \A u \in Task \ {t} : pc'[u] = pc[u]
        /\ DOMAIN annTask' = Task /\ DOMAIN annEntry' = Task
        /\ \A u \in Task : annTask'[u] \in {None} \cup 0..upstream
        /\ \A u \in Task : annEntry'[u].how \in {"shown", "asleep", "dismissed"}
        /\ \A u \in Task \ {t} : annTask'[u] = annTask[u] /\ annEntry'[u] = annEntry[u]
    BY <1>0, <1>2, AnnMoves, AnnNames
  <2>2. place \notin Fetches /\ ~Fetching(t) /\ t \in Task
    BY <1>2, AnnNames DEF Fetches, Fetching
  <2>3. mapped' \subseteq Entry /\ DOMAIN rows' = Entry /\ \A e \in mapped' : rows'[e] # None
    BY <1>0, <1>2 DEF FeedTypes, AnnouncementsTrue
  <2>4. announceLock' = t => t \in AnnTasks /\ place \in {"others", "dismissing"}
    BY <1>2, AnnNames
  <2> QED BY <1>2, <2>1, <2>2, <2>3, <2>4, NoFetch
<1>3. ASSUME NEW t \in AnnTasks, AnnTaken(t) PROVE AnnouncementsOK'
  <2>1. /\ pc[t] = "queued" /\ announceLock = None
        /\ UNCHANGED <<upstream, feedOn, feedStored, etag, etagStored, unread, detached, mapped, rows>>
    BY <1>3 DEF AnnTaken, annFeedVars, annRowVars
  <2>2. CASE t = "timer"
    <3>1. Reads(t, "others", None) /\ announceLock' = t
      BY <1>3, <2>2 DEF AnnTaken
    <3> QED BY <1>2, <2>1, <3>1
  <2>3. CASE t # "timer"
    <3>1. PICK e : e = annEntry[t].id
      OBVIOUS
    <3>2. \/ feedOn /\ Reads(t, "sent", etag) /\ announceLock' = t
          \/ ReadsEntry(t, "dismissing", [annEntry[t] EXCEPT !.row = rows[e]]) /\ announceLock' = t
          \/ Stops(t) /\ announceLock' = announceLock
      BY <1>3, <2>3, <3>1, Zenon DEF AnnTaken
    <3>3. [annEntry[t] EXCEPT !.row = rows[e]].how \in {"shown", "asleep", "dismissed"}
      BY <1>0, AnnNames DEF FeedTypes
    <3>4. CASE feedOn /\ Reads(t, "sent", etag) /\ announceLock' = t
      BY <1>1, <2>1, <3>4
    <3>5. CASE ReadsEntry(t, "dismissing", [annEntry[t] EXCEPT !.row = rows[e]]) /\ announceLock' = t
      BY <1>2, <2>1, <3>3, <3>5
    <3>6. CASE Stops(t) /\ announceLock' = announceLock
      BY <1>2, <2>1, <3>6
    <3> QED BY <3>2, <3>4, <3>5, <3>6
  <2> QED BY <2>2, <2>3
<1>4. CASE OthersUpdated
  <2>1. /\ pc["timer"] = "others"
        /\ UNCHANGED <<upstream, feedOn, feedStored, etag, etagStored, unread, detached, mapped, rows>>
    BY <1>4 DEF OthersUpdated, annFeedVars, annRowVars
  <2>2. announceLock = "timer" /\ "timer" \in AnnTasks
    BY <1>0, <2>1, AnnNames DEF FetchesOK
  <2>3. \/ feedOn /\ Reads("timer", "sent", etag) /\ announceLock' = announceLock
        \/ Stops("timer") /\ announceLock' = None
    BY <1>4, <2>2 DEF OthersUpdated, LoopBreaks, AnnUnlocked
  <2> QED BY <1>1, <1>2, <2>1, <2>2, <2>3
<1> QED BY <1>3, <1>4

(* A fetch goes on: a place of Fetches to another *)
LEMMA FetchKeeps ==
  ASSUME AnnouncementsOK, NEW t \in AnnTasks, FeedAnswers(t) \/ FeedInitialized(t)
  PROVE  AnnouncementsOK'
<1>0. FeedTypes /\ FetchesOK /\ StoredEtagOK /\ AnnouncementsTrue
  BY DEF AnnouncementsOK
(* Who fetches stays the same. *)
<1>1. ASSUME NEW place \in {"sent", "answered"}, Fetching(t), pc' = [pc EXCEPT ![t] = place],
             DOMAIN annTask' = Task, \A u \in Task \ {t} : annTask'[u] = annTask[u],
             place = "answered" => annTask'[t] # None,
             UNCHANGED <<feedOn, feedStored, announceLock, detached>>
      PROVE  FetchesOK'
  <2>1. \A u \in Task : pc'[u] = IF u = t THEN place ELSE pc[u]
    BY <1>0, <1>1 DEF FeedTypes
  <2>2. \A u \in AnnTasks : (Fetching(u)' <=> Fetching(u)) /\ (Adding(u)' <=> Adding(u))
    BY <1>1, <2>1, AnnNames DEF Fetching, Fetches, Adding
  <2>3. announceLock' # None =>
          announceLock' \in AnnTasks /\ pc'[announceLock'] \in {"others", "sent", "answered", "dismissing"}
    BY <1>0, <1>1, <2>1, AnnNames DEF FetchesOK
  <2>4. \A u \in AnnTasks : pc'[u] = "initializing" => Adding(u)'
    BY <1>0, <1>1, <2>1, <2>2, AnnNames DEF FetchesOK
  <2>5. pc'["timer"] \in Fetches \cup {"others"} => announceLock' = "timer"
    BY <1>0, <1>1, <2>1, AnnNames DEF FetchesOK, Fetching
  <2>6. \A u \in AnnTasks : pc'[u] = "answered" => annTask'[u] # None
    BY <1>0, <1>1, <2>1, AnnNames DEF FetchesOK
  <2>7. \A u, v \in AnnTasks : Adding(u)' /\ Adding(v)' => u = v
    BY <1>0, <2>2 DEF FetchesOK
  <2>8. \A u \in AnnTasks : Adding(u)' => feedOn' /\ ~feedStored'
    BY <1>0, <1>1, <2>2 DEF FetchesOK
  <2>9. \A u \in detached' : u \in AnnTasks /\ Fetching(u)' /\ announceLock' = u
    BY <1>0, <1>1, <2>2 DEF FetchesOK
  <2>10. \A u \in AnnTasks : Fetching(u)' /\ ~feedOn' => u \in detached'
    BY <1>0, <1>1, <2>2 DEF FetchesOK
  <2>11. feedStored' => feedOn'
    BY <1>0, <1>1 DEF FetchesOK
  <2> QED BY <2>3, <2>4, <2>5, <2>6, <2>7, <2>8, <2>9, <2>10, <2>11 DEF FetchesOK
<1>2. CASE FeedAnswers(t)
  <2>1. PICK w \in {NotModified, upstream} : Reads(t, "answered", w)
    BY <1>2 DEF FeedAnswers
  <2>2. /\ pc[t] = "sent"
        /\ UNCHANGED <<upstream, feedOn, feedStored, etag, etagStored, unread, announceLock, detached, mapped, rows>>
    BY <1>2 DEF FeedAnswers, annFeedVars, annRowVars
  <2>3. w \in 0..upstream
    BY <1>0, <2>1, AnnNames DEF FeedTypes
  <2>4. /\ pc' = [pc EXCEPT ![t] = "answered"] /\ DOMAIN pc' = Task /\ pc'[t] = "answered"
        /\ \A u \in Task \ {t} : pc'[u] = pc[u]
        /\ DOMAIN annTask' = Task /\ annEntry' = annEntry
        /\ \A u \in Task \ {t} : annTask'[u] = annTask[u]
        /\ annTask'[t] = w
    BY <1>0, <2>1, AnnNames DEF Reads, Goes, FeedTypes
  <2>5. FeedTypes'
    BY <1>0, <2>2, <2>3, <2>4 DEF FeedTypes
  <2>6. w # None
    BY <1>0, <2>3, AnnNames DEF FeedTypes
  <2>7. FetchesOK'
    BY <1>1, <2>2, <2>4, <2>6 DEF Fetching, Fetches
  <2>8. ASSUME NEW u \in AnnTasks, pc'[u] = "initializing", annTask'[u] = upstream
        PROVE  /\ etag \in {None, upstream} /\ (~unread => upstream \in mapped)
               /\ \A v \in AnnTasks : pc'[v] = "answered" /\ v \notin detached => annTask'[v] \in {NotModified, upstream}
    <3>1. u # t /\ pc[u] = "initializing" /\ annTask[u] = upstream
      BY <2>4, <2>8, AnnNames
    <3>2. /\ etag \in {None, upstream} /\ (~unread => upstream \in mapped)
          /\ \A v \in AnnTasks : pc[v] = "answered" /\ v \notin detached => annTask[v] \in {NotModified, upstream}
      BY <1>0, <3>1 DEF StoredEtagOK
    <3>3. ASSUME NEW v \in AnnTasks, pc'[v] = "answered", v \notin detached
          PROVE  annTask'[v] \in {NotModified, upstream}
      BY <2>4, <3>2, <3>3, AnnNames
    <3> QED BY <3>2, <3>3
  <2>9. StoredEtagOK' /\ AnnouncementsTrue'
    BY <1>0, <2>2, <2>8 DEF StoredEtagOK, AnnouncementsTrue
  <2> QED BY <2>5, <2>7, <2>9 DEF AnnouncementsOK
<1>3. CASE FeedInitialized(t)
  <2>1. /\ pc[t] = "initializing" /\ pc' = [pc EXCEPT ![t] = "sent"]
        /\ etag' = (IF t \in detached THEN etag ELSE annTask[t])
        /\ UNCHANGED <<upstream, feedOn, feedStored, etagStored, unread, announceLock, detached, mapped, rows,
                       annTask, annEntry>>
    BY <1>3 DEF FeedInitialized, Goes, annRowVars, annTaskVars
  <2>2. Adding(t) /\ t \notin detached
    BY <1>0, <2>1 DEF FetchesOK, Adding
  <2>3. etag' = annTask[t] /\ t \in Task
    BY <2>1, <2>2, AnnNames
  <2>4. FeedTypes'
    BY <1>0, <2>1, <2>3 DEF FeedTypes
  <2>5. FetchesOK'
    BY <1>0, <1>1, <2>1 DEF Fetching, Fetches, FeedTypes
  <2>6. \A u \in AnnTasks : pc'[u] # "initializing"
    <3>1. \A u \in AnnTasks : pc'[u] = IF u = t THEN "sent" ELSE pc[u]
      BY <1>0, <2>1, AnnNames DEF FeedTypes
    <3> QED BY <1>0, <2>2, <3>1 DEF FetchesOK
  <2>7. StoredEtagOK'
    BY <2>6 DEF StoredEtagOK
  <2>8. AnnouncementsTrue'
    BY <1>0, <2>1, <2>3 DEF StoredEtagOK, AnnouncementsTrue
  <2> QED BY <2>4, <2>5, <2>7, <2>8 DEF AnnouncementsOK
<1> QED BY <1>2, <1>3

(* The answer is taken up, or cannot be read. *)
LEMMA AnswerKeeps ==
  ASSUME AnnouncementsOK, NEW t \in AnnTasks, AnswerTaken(t)
  PROVE  AnnouncementsOK'
<1>0. FeedTypes /\ FetchesOK /\ StoredEtagOK /\ AnnouncementsTrue /\ t \in Task
  BY AnnNames DEF AnnouncementsOK
<1>1. /\ pc[t] = "answered" /\ Stops(t) /\ AnnUnlocked(t) /\ detached' = detached \ {t}
      /\ UNCHANGED <<upstream, feedOn>>
  BY AnnNames DEF AnswerTaken, FeedUpdated
<1>2. feedStored' = feedStored \/ feedStored' = (feedStored \/ (t \in Request /\ announceLock # t))
  BY DEF AnswerTaken, FeedUpdated
<1>3. /\ DOMAIN pc' = Task /\ pc'[t] = "idle" /\ \A u \in Task \ {t} : pc'[u] = pc[u]
      /\ DOMAIN annTask' = Task /\ DOMAIN annEntry' = Task
      /\ \A u \in Task : annTask'[u] \in {None} \cup 0..upstream
      /\ \A u \in Task : annEntry'[u].how \in {"shown", "asleep", "dismissed"}
      /\ \A u \in Task \ {t} : annTask'[u] = annTask[u] /\ annEntry'[u] = annEntry[u]
  BY <1>0, <1>1, AnnMoves
<1>4. \A u \in AnnTasks : /\ Fetching(u)' <=> Fetching(u) /\ u # t
                          /\ Adding(u)' <=> Adding(u) /\ u # t
  <2>1. \A u \in AnnTasks : Fetching(u)' <=> Fetching(u) /\ u # t
    BY <1>3, AnnNames DEF Fetching, Fetches
  <2>2. ASSUME NEW u \in AnnTasks PROVE Adding(u)' <=> Adding(u) /\ u # t
    <3>1. CASE u = t
      BY <2>1, <3>1 DEF Adding
    <3>2. CASE u # t
      BY <1>1, <2>1, <3>2, AnnNames DEF Adding, AnnUnlocked
    <3> QED BY <3>1, <3>2
  <2> QED BY <2>1, <2>2
<1>5. FetchesOK'
  <2>1. announceLock' # None =>
          announceLock' \in AnnTasks /\ pc'[announceLock'] \in {"others", "sent", "answered", "dismissing"}
    BY <1>0, <1>1, <1>3, AnnNames DEF FetchesOK, AnnUnlocked
  <2>2. pc'["timer"] \in Fetches \cup {"others"} => announceLock' = "timer"
    BY <1>0, <1>1, <1>3, AnnNames DEF FetchesOK, AnnUnlocked, Fetches
  <2>3. ASSUME NEW u \in detached' PROVE u \in AnnTasks /\ Fetching(u)' /\ announceLock' = u
    <3>1. u \in detached /\ u # t
      BY <1>1
    <3>2. u \in AnnTasks /\ Fetching(u) /\ announceLock = u
      BY <1>0, <3>1 DEF FetchesOK
    <3>3. announceLock' = u
      BY <1>1, <3>1, <3>2 DEF AnnUnlocked
    <3> QED BY <1>4, <3>1, <3>2, <3>3
  <2>4. feedStored' => feedOn'
    BY <1>0, <1>1, <1>2 DEF FetchesOK, Adding, Fetching, Fetches
  <2>5. ASSUME NEW u \in AnnTasks, Adding(u)' PROVE feedOn' /\ ~feedStored'
    <3>1. Adding(u) /\ u # t
      BY <1>4, <2>5
    <3>2. ~(t \in Request /\ announceLock # t)
      BY <1>0, <1>1, <3>1 DEF FetchesOK, Adding, Fetching, Fetches
    <3>3. feedOn /\ ~feedStored
      BY <1>0, <3>1 DEF FetchesOK
    <3>4. ~feedStored'
      <4>1. CASE feedStored' = feedStored
        BY <3>3, <4>1
      <4>2. CASE feedStored' = (feedStored \/ (t \in Request /\ announceLock # t))
        BY <3>2, <3>3, <4>2
      <4> QED BY <1>2, <4>1, <4>2
    <3> QED BY <1>1, <3>3, <3>4
  <2>6. \A u, v \in AnnTasks : Adding(u)' /\ Adding(v)' => u = v
    BY <1>0, <1>4 DEF FetchesOK
  <2>7. \A u \in AnnTasks : pc'[u] = "initializing" => Adding(u)'
    BY <1>0, <1>3, <1>4, AnnNames DEF FetchesOK
  <2>8. \A u \in AnnTasks : Fetching(u)' /\ ~feedOn' => u \in detached'
    BY <1>0, <1>1, <1>4 DEF FetchesOK
  <2>9. \A u \in AnnTasks : pc'[u] = "answered" => annTask'[u] # None
    BY <1>0, <1>3, AnnNames DEF FetchesOK
  <2> QED BY <2>1, <2>2, <2>3, <2>4, <2>5, <2>6, <2>7, <2>8, <2>9 DEF FetchesOK
(* What it answered, and who may be adding the feed meanwhile *)
<1>6. ASSUME NEW u \in AnnTasks, pc'[u] = "initializing", annTask'[u] = upstream
      PROVE  /\ etag \in {None, upstream} /\ (~unread => upstream \in mapped) /\ feedOn
             /\ t \in detached \/ annTask[t] \in {NotModified, upstream}
             /\ \A v \in AnnTasks : pc'[v] = "answered" /\ v \notin detached' => annTask'[v] \in {NotModified, upstream}
  <2>1. u # t /\ pc[u] = "initializing" /\ annTask[u] = upstream /\ Adding(u)
    BY <1>0, <1>3, <1>6, AnnNames DEF FetchesOK
  <2>2. /\ etag \in {None, upstream} /\ (~unread => upstream \in mapped) /\ feedOn
        /\ \A v \in AnnTasks : pc[v] = "answered" /\ v \notin detached => annTask[v] \in {NotModified, upstream}
    BY <1>0, <2>1 DEF StoredEtagOK, FetchesOK
  <2>3. ASSUME NEW v \in AnnTasks, pc'[v] = "answered", v \notin detached'
        PROVE  annTask'[v] \in {NotModified, upstream}
    <3>1. v # t
      BY <1>3, <2>3
    <3> QED BY <1>1, <1>3, <2>2, <2>3, <3>1, AnnNames
  <2> QED BY <1>1, <2>2, <2>3
<1>7. annTask[t] \in 0..upstream
  BY <1>0, <1>1 DEF FeedTypes, FetchesOK
<1>8. CASE annTask[t] = NotModified
  <2>1. UNCHANGED <<etag, etagStored, rows, mapped, unread>>
    BY <1>8 DEF AnswerTaken
  <2>2. FeedTypes'
    BY <1>0, <1>1, <1>3, <2>1 DEF FeedTypes
  <2>3. StoredEtagOK'
    BY <1>1, <1>6, <2>1 DEF StoredEtagOK
  <2>4. AnnouncementsTrue'
    BY <1>0, <1>1, <2>1 DEF AnnouncementsTrue
  <2> QED BY <1>5, <2>2, <2>3, <2>4 DEF AnnouncementsOK
<1>9. CASE annTask[t] # NotModified
  <2>1. /\ etag' = (IF t \in detached THEN etag ELSE annTask[t]) /\ etagStored' = annTask[t]
        /\ \/ TakesEntries(annTask[t]) /\ unread' = (t \in detached /\ (unread \/ (feedOn /\ annTask[t] # etag)))
           \/ (unread' = TRUE) /\ UNCHANGED <<rows, mapped>>
    BY <1>9 DEF AnswerTaken
  <2>2. annTask[t] \in 1..upstream /\ annTask[t] \in FeedVersion
    BY <1>0, <1>7, <1>9, AnnNames DEF FeedTypes
  <2>3. etag' \in {None} \cup 0..upstream /\ etagStored' \in {None} \cup 0..upstream
    BY <1>0, <2>1, <2>2 DEF FeedTypes
  <2>4. CASE TakesEntries(annTask[t]) /\ unread' = (t \in detached /\ (unread \/ (feedOn /\ annTask[t] # etag)))
    <3>1. /\ mapped' \subseteq Entry /\ DOMAIN rows' = Entry /\ (\A e \in mapped' : rows'[e] # None)
          /\ annTask[t] \in mapped'
      BY <1>0, <2>2, <2>4, AnnNames DEF TakesEntries, ValidIds, FeedTypes, AnnouncementsTrue
    <3>2. FeedTypes'
      BY <1>0, <1>1, <1>3, <2>3, <3>1 DEF FeedTypes
    <3>3. ASSUME ~unread' PROVE t \notin detached \/ ~feedOn \/ annTask[t] = etag
      BY <2>4, <3>3
    <3>4. ASSUME NEW u \in AnnTasks, pc'[u] = "initializing", annTask'[u] = upstream
          PROVE  etag' \in {None, upstream} /\ (~unread' => upstream \in mapped')
      <4>1. /\ etag \in {None, upstream} /\ feedOn
            /\ t \in detached \/ annTask[t] = upstream
        BY <1>6, <1>9, <3>4
      <4>2. annTask[t] # None
        BY <1>0, <1>1 DEF FetchesOK
      <4> QED BY <2>1, <3>1, <3>3, <4>1, <4>2
    <3>5. StoredEtagOK'
      BY <1>1, <1>6, <3>4 DEF StoredEtagOK
    <3>6. AnnouncementsTrue'
      BY <1>1, <2>1, <3>1, <3>3 DEF AnnouncementsTrue
    <3> QED BY <1>5, <3>2, <3>5, <3>6 DEF AnnouncementsOK
  <2>5. CASE (unread' = TRUE) /\ UNCHANGED <<rows, mapped>>
    <3>1. FeedTypes'
      BY <1>0, <1>1, <1>3, <2>3, <2>5 DEF FeedTypes
    <3>2. ASSUME NEW u \in AnnTasks, pc'[u] = "initializing", annTask'[u] = upstream
          PROVE  etag' \in {None, upstream}
      BY <1>6, <1>9, <2>1, <3>2
    <3>3. StoredEtagOK'
      BY <1>1, <1>6, <2>5, <3>2 DEF StoredEtagOK
    <3>4. AnnouncementsTrue'
      BY <1>0, <2>5 DEF AnnouncementsTrue
    <3> QED BY <1>5, <3>1, <3>3, <3>4 DEF AnnouncementsOK
  <2> QED BY <2>1, <2>4, <2>5
<1> QED BY <1>8, <1>9

(* A feed is added, or removed. *)
LEMMA FeedsKeep ==
  ASSUME AnnouncementsOK, NEW t \in Request, AddFeed(t) \/ RemoveFeed(t)
  PROVE  AnnouncementsOK'
<1>0. FeedTypes /\ FetchesOK /\ StoredEtagOK /\ AnnouncementsTrue /\ t \in AnnTasks /\ t \in Task /\ t # "timer"
  BY AnnNames DEF AnnouncementsOK
<1>1. CASE AddFeed(t)
  <2>1. /\ pc[t] = "idle" /\ ~feedOn /\ feedOn' /\ etag' = None /\ unread' = (etagStored # None)
        /\ Reads(t, "initializing", etagStored)
        /\ UNCHANGED <<upstream, feedStored, etagStored, announceLock, detached, mapped, rows>>
    BY <1>1 DEF AddFeed, Idle, annRowVars
  <2>2. etagStored \in {None} \cup 0..upstream
    BY <1>0 DEF FeedTypes
  <2>3. /\ DOMAIN pc' = Task /\ pc'[t] = "initializing" /\ \A u \in Task \ {t} : pc'[u] = pc[u]
        /\ DOMAIN annTask' = Task /\ DOMAIN annEntry' = Task
        /\ \A u \in Task : annTask'[u] \in {None} \cup 0..upstream
        /\ \A u \in Task : annEntry'[u].how \in {"shown", "asleep", "dismissed"}
        /\ \A u \in Task \ {t} : annTask'[u] = annTask[u] /\ annEntry'[u] = annEntry[u]
        /\ annTask'[t] = etagStored
    BY <1>0, <2>1, <2>2, AnnMoves
  <2>4. FeedTypes'
    BY <1>0, <2>1, <2>3 DEF FeedTypes
  <2>5. \A u \in AnnTasks : Fetching(u) => u \in detached /\ announceLock = u /\ u # t
    BY <1>0, <2>1 DEF FetchesOK, Fetching, Fetches
  <2>6. announceLock # t
    BY <1>0, <2>1, AnnNames DEF FetchesOK
  <2>7. \A u \in AnnTasks : (Fetching(u)' <=> Fetching(u) \/ u = t) /\ (Adding(u)' <=> u = t)
    BY <1>0, <2>1, <2>3, <2>5, <2>6, AnnNames DEF Fetching, Fetches, Adding
  <2>8. FetchesOK'
    <3>1. announceLock' # None =>
            announceLock' \in AnnTasks /\ pc'[announceLock'] \in {"others", "sent", "answered", "dismissing"}
      BY <1>0, <2>1, <2>3, <2>6, AnnNames DEF FetchesOK
    <3>2. pc'["timer"] \in Fetches \cup {"others"} => announceLock' = "timer"
      BY <1>0, <2>1, <2>3, AnnNames DEF FetchesOK
    <3>3. \A u \in AnnTasks : pc'[u] = "initializing" => Adding(u)'
      BY <1>0, <2>3, <2>5, <2>7, AnnNames DEF FetchesOK, Adding
    <3>4. \A u \in AnnTasks : pc'[u] = "answered" => annTask'[u] # None
      BY <1>0, <2>3, AnnNames DEF FetchesOK
    <3>5. \A u \in detached' : u \in AnnTasks /\ Fetching(u)' /\ announceLock' = u
      BY <1>0, <2>1, <2>7 DEF FetchesOK
    <3>6. ~feedStored'
      BY <1>0, <2>1 DEF FetchesOK
    <3> QED BY <2>1, <2>7, <3>1, <3>2, <3>3, <3>4, <3>5, <3>6 DEF FetchesOK
  <2>9. StoredEtagOK'
    <3>1. ASSUME NEW u \in AnnTasks, pc'[u] = "initializing", annTask'[u] = upstream
          PROVE  unread' /\ \A v \in AnnTasks : pc'[v] = "answered" => v \in detached
      <4>1. u = t
        BY <2>7, <2>8, <3>1 DEF FetchesOK
      <4>2. upstream # None
        BY <1>0, AnnNames DEF FeedTypes
      <4>3. unread'
        BY <2>1, <2>3, <3>1, <4>1, <4>2
      <4>4. \A v \in AnnTasks : pc'[v] = "answered" => v \in detached
        BY <2>3, <2>5, AnnNames DEF Fetching, Fetches
      <4> QED BY <4>3, <4>4
    <3> QED BY <2>1, <3>1 DEF StoredEtagOK
  <2>10. AnnouncementsTrue'
    <3>1. upstream # None
      BY <1>0, AnnNames DEF FeedTypes
    <3> QED BY <1>0, <2>1, <3>1 DEF AnnouncementsTrue
  <2> QED BY <2>4, <2>8, <2>9, <2>10 DEF AnnouncementsOK
<1>2. CASE RemoveFeed(t)
  <2>1. /\ pc[t] = "idle" /\ feedStored /\ ~feedStored' /\ ~feedOn'
        /\ detached' = detached \cup {u \in AnnTasks : pc[u] \in Fetches}
        /\ ReadsEntry(t, "pruning", [NoEntry EXCEPT !.gone = {e \in FeedVersion : rows[e] # None}])
        /\ UNCHANGED <<upstream, etag, etagStored, unread, announceLock, mapped, rows>>
    BY <1>2 DEF RemoveFeed, Idle, annRowVars, Fetches
  <2>2. PICK r : ReadsEntry(t, "pruning", r) /\ r.how \in {"shown", "asleep", "dismissed"}
    <3>1. [NoEntry EXCEPT !.gone = {e \in FeedVersion : rows[e] # None}].how = "shown"
      BY DEF NoEntry
    <3> QED BY <2>1, <3>1
  <2>3. /\ DOMAIN pc' = Task /\ pc'[t] = "pruning" /\ \A u \in Task \ {t} : pc'[u] = pc[u]
        /\ DOMAIN annTask' = Task /\ DOMAIN annEntry' = Task
        /\ \A u \in Task : annTask'[u] \in {None} \cup 0..upstream
        /\ \A u \in Task : annEntry'[u].how \in {"shown", "asleep", "dismissed"}
        /\ \A u \in Task \ {t} : annTask'[u] = annTask[u] /\ annEntry'[u] = annEntry[u]
    BY <1>0, <2>2, AnnMoves
  <2>4. FeedTypes'
    BY <1>0, <2>1, <2>3 DEF FeedTypes
  <2>5. \A u \in AnnTasks : Fetching(u)' <=> Fetching(u)
    BY <2>1, <2>3, AnnNames DEF Fetching, Fetches
  <2>6. \A u \in AnnTasks : ~Adding(u) /\ ~Adding(u)'
    BY <1>0, <2>1, <2>5 DEF FetchesOK, Adding
  <2>7. \A u \in AnnTasks : Fetching(u) => announceLock = u
    BY <1>0, <2>6, AnnNames DEF FetchesOK, Adding, Fetching, AnnTasks
  <2>8. announceLock # t
    BY <1>0, <2>1, AnnNames DEF FetchesOK
  <2>9. FetchesOK'
    <3>1. announceLock' # None =>
            announceLock' \in AnnTasks /\ pc'[announceLock'] \in {"others", "sent", "answered", "dismissing"}
      BY <1>0, <2>1, <2>3, <2>8, AnnNames DEF FetchesOK
    <3>2. pc'["timer"] \in Fetches \cup {"others"} => announceLock' = "timer"
      BY <1>0, <2>1, <2>3, AnnNames DEF FetchesOK
    <3>3. \A u \in AnnTasks : pc'[u] # "initializing"
      BY <1>0, <2>3, <2>6, AnnNames DEF FetchesOK
    <3>4. \A u \in AnnTasks : pc'[u] = "answered" => annTask'[u] # None
      BY <1>0, <2>3, AnnNames DEF FetchesOK
    <3>5. \A u \in detached' : u \in AnnTasks /\ Fetching(u)' /\ announceLock' = u
      BY <1>0, <2>1, <2>5, <2>7 DEF FetchesOK, Fetching
    <3>6. \A u \in AnnTasks : Fetching(u)' => u \in detached'
      BY <2>1, <2>5 DEF Fetching
    <3> QED BY <2>1, <2>6, <3>1, <3>2, <3>3, <3>4, <3>5, <3>6 DEF FetchesOK
  <2>10. StoredEtagOK'
    BY <2>6, <2>9 DEF StoredEtagOK, FetchesOK
  <2>11. AnnouncementsTrue'
    BY <1>0, <2>1 DEF AnnouncementsTrue
  <2> QED BY <2>4, <2>9, <2>10, <2>11 DEF AnnouncementsOK
<1> QED BY <1>1, <1>2

(* What no task of them does *)
LEMMA FeedChangesKeep ==
  ASSUME AnnouncementsOK, OwnChanges \/ FeedWritten
  PROVE  AnnouncementsOK'
<1>0. FeedTypes /\ FetchesOK /\ StoredEtagOK /\ AnnouncementsTrue
  BY DEF AnnouncementsOK
<1>1. UNCHANGED <<pc, feedOn, feedStored, etag, etagStored, unread, announceLock, detached, annTask, annEntry>>
  BY DEF OwnChanges, FeedWritten, annFeedVars, annTaskVars
<1>2. FetchesOK'
  BY <1>0, <1>1 DEF FetchesOK, Adding, Fetching
<1>3. CASE OwnChanges
  <2>1. /\ upstream' = upstream
        /\ \/ mapped' = mapped \ {Own} /\ rows' = [rows EXCEPT ![Own] = None]
           \/ mapped' = mapped \cup {Own} /\ rows' = [rows EXCEPT ![Own] = "shown"]
    BY <1>3 DEF OwnChanges
  <2>2. /\ mapped' \subseteq Entry /\ DOMAIN rows' = Entry /\ (\A e \in mapped' : rows'[e] # None)
        /\ upstream \in mapped' <=> upstream \in mapped
    <3>1. mapped \subseteq {0, 1, 2} /\ DOMAIN rows = {0, 1, 2} /\ upstream \in {1, 2} /\ \A e \in mapped : rows[e] # None
      BY <1>0, AnnNames DEF FeedTypes, AnnouncementsTrue
    <3>2. CASE mapped' = mapped \ {Own} /\ rows' = [rows EXCEPT ![Own] = None]
      <4>1. DOMAIN rows' = {0, 1, 2} /\ \A e \in mapped' : e # 0 /\ rows'[e] = rows[e]
        BY <3>1, <3>2, AnnNames
      <4> QED BY <3>1, <3>2, <4>1, AnnNames
    <3>3. CASE mapped' = mapped \cup {Own} /\ rows' = [rows EXCEPT ![Own] = "shown"]
      <4>1. DOMAIN rows' = {0, 1, 2} /\ rows'[0] = "shown" /\ \A e \in {0, 1, 2} \ {0} : rows'[e] = rows[e]
        BY <3>1, <3>3, AnnNames
      <4> QED BY <3>1, <3>3, <4>1, AnnNames
    <3> QED BY <2>1, <3>2, <3>3
  <2>3. FeedTypes'
    BY <1>0, <1>1, <2>1, <2>2 DEF FeedTypes
  <2>4. StoredEtagOK' /\ AnnouncementsTrue'
    BY <1>0, <1>1, <2>1, <2>2 DEF StoredEtagOK, AnnouncementsTrue
  <2> QED BY <1>2, <2>3, <2>4 DEF AnnouncementsOK
<1>4. CASE FeedWritten
  <2>1. upstream = 1 /\ upstream' = 2 /\ UNCHANGED <<mapped, rows>>
    BY <1>4 DEF FeedWritten, annRowVars
  <2>2. FeedTypes'
    BY <1>0, <1>1, <2>1, AnnNames DEF FeedTypes
  <2>3. etag # 2 /\ \A u \in AnnTasks : annTask[u] # 2
    BY <1>0, <2>1, AnnNames DEF FeedTypes
  <2>4. StoredEtagOK' /\ AnnouncementsTrue'
    BY <1>0, <1>1, <2>1, <2>3 DEF StoredEtagOK, AnnouncementsTrue
  <2> QED BY <1>2, <2>2, <2>4 DEF AnnouncementsOK
<1> QED BY <1>3, <1>4

LEMMA AnnRestartKeeps ==
  ASSUME AnnouncementsOK, AnnouncementsRestart
  PROVE  AnnouncementsOK'
<1>0. FeedTypes /\ FetchesOK /\ StoredEtagOK /\ AnnouncementsTrue
  BY DEF AnnouncementsOK
<1>1. /\ pc' = [t \in Task |-> "idle"] /\ feedOn' = feedStored /\ feedStored' = feedStored /\ upstream' = upstream
      /\ etag' = etagStored' /\ mapped' = {e \in Entry : rows'[e] # None}
      /\ announceLock' = None /\ annTask' = [t \in Task |-> None] /\ annEntry' = [t \in Task |-> NoEntry]
      /\ detached' = {}
  BY Zenon DEF AnnouncementsRestart
<1>2. PICK near \in {{}, Entry} :
        rows' = [e \in Entry |-> IF rows[e] = None /\ e \in strays THEN "dismissed"
                                 ELSE IF rows[e] = "asleep" /\ e \in near THEN "shown" ELSE rows[e]]
  BY Zenon DEF AnnouncementsRestart
<1>3. \/ UNCHANGED etagStored /\ unread' = (unread \/ etag # etagStored)
      \/ \E t \in AnnTasks : annTask[t] \in FeedVersion /\ etagStored' = annTask[t] /\ (unread' = TRUE)
  BY Zenon DEF AnnouncementsRestart
<1>4. etagStored' \in {None} \cup 0..upstream
  BY <1>0, <1>3, AnnNames DEF FeedTypes
<1>5. FeedTypes'
  BY <1>0, <1>1, <1>2, <1>4, AnnNames DEF FeedTypes, NoEntry
<1>6. FetchesOK' /\ StoredEtagOK'
  BY <1>0, <1>1, AnnNames DEF FetchesOK, StoredEtagOK, Adding, Fetching, Fetches
<1>7. \A e \in Entry : rows[e] # None => rows'[e] # None
  BY <1>2, AnnNames
<1>8. ASSUME feedOn', etag' = upstream, ~unread' PROVE upstream \in mapped'
  <2>1. feedOn /\ etag = upstream /\ ~unread
    BY <1>0, <1>1, <1>3, <1>8 DEF FetchesOK
  <2>2. upstream \in mapped /\ upstream \in Entry /\ rows[upstream] # None
    BY <1>0, <2>1 DEF AnnouncementsTrue, FeedTypes, Entry
  <2> QED BY <1>1, <1>7, <2>2
<1>9. AnnouncementsTrue'
  BY <1>1, <1>8 DEF AnnouncementsTrue
<1> QED BY <1>5, <1>6, <1>9 DEF AnnouncementsOK

LEMMA AnnouncementsKeep ==
  ASSUME AnnouncementsOK, AnnouncementsNext
  PROVE  AnnouncementsOK'
<1>1. CASE PollDue \/ WakeSteps
  BY <1>1, NoFetchKeeps
<1>2. CASE OthersUpdated
  BY <1>2, TakenKeeps
<1>3. CASE OwnChanges \/ FeedWritten
  BY <1>3, FeedChangesKeep
<1>4. CASE AnnouncementsRestart
  BY <1>4, AnnRestartKeeps
<1>5. ASSUME NEW t \in AnnTasks, AnnounceSteps(t) PROVE AnnouncementsOK'
  BY <1>5, NoFetchKeeps, TakenKeeps, FetchKeeps, AnswerKeeps DEF AnnounceSteps
<1>6. ASSUME NEW t \in Request, AskAnnouncements(t) \/ AddFeed(t) \/ RemoveFeed(t) PROVE AnnouncementsOK'
  BY <1>6, NoFetchKeeps, FeedsKeep
<1> QED BY <1>1, <1>2, <1>3, <1>4, <1>5, <1>6 DEF AnnouncementsNext

LEMMA AnnouncementsRest ==
  ASSUME AnnouncementsOK, UNCHANGED <<pc, announceVars>>
  PROVE  AnnouncementsOK'
<1>1. UNCHANGED <<pc, upstream, feedOn, feedStored, etag, etagStored, unread, announceLock, detached, annTask,
                  annEntry, mapped, rows>>
  BY DEF announceVars, annFeedVars, annRowVars, annTaskVars
<1> QED BY <1>1 DEF AnnouncementsOK, FeedTypes, FetchesOK, StoredEtagOK, AnnouncementsTrue, Adding, Fetching

(***************************************************************************)
(* Auxiliary fields: the totals, in memory and in the database, are of the  *)
(* rows, and what a job adds to both is the same.                           *)
(***************************************************************************)
Totalled == {"delta", "accumulate", "maximum", "minimum"}
OfTheRows(t) ==
  \/ t = [total |-> rowsSum, maximum |-> rowsMax]
  \/ t = None /\ rowsSum = 0 /\ rowsMax = 0

FieldTypes ==
  /\ DOMAIN pc = Task /\ pc["event"] \in {"idle", "saving", "storing"}
  /\ pc["event"] # "idle" => ofJob
  /\ strategy \in Strategies
  /\ sensorValue \in {None} \cup Measures
  /\ strategy \in Totalled =>
       /\ tracked \in Int /\ rowsSum \in Int /\ rowsMax \in Int
       /\ lastValue \in {None} \cup Int /\ rowValue \in {None} \cup Int

FieldTotalsOK ==
  strategy \in Totalled /\ ~late =>
    /\ OfTheRows(fieldTotals)
    /\ pc["event"] # "storing" => OfTheRows(savedTotals)
    /\ pc["event"] = "storing" => fieldTotals # None
    /\ pc["event"] = "saving" => rowValue = tracked

FieldsOK == FieldTypes /\ FieldTotalsOK

LEMMA FieldsBegin ==
  ASSUME HostInit, FieldsInit
  PROVE  FieldsOK
<1>1. pc = [t \in Task |-> "idle"] /\ "event" \in Task
  BY DEF HostInit, Task, Background
<1>2. strategy \in Strategies
  BY DEF FieldsInit, Among, Strategies
<1>3. /\ sensorValue = None /\ tracked = (IF strategy = "basic" THEN None ELSE 0) /\ lastValue = None
      /\ rowValue = None /\ rowsSum = 0 /\ rowsMax = 0 /\ (fieldTotals = IF HasTotals THEN Start ELSE None) /\ savedTotals = None
  BY DEF FieldsInit
<1>4. FieldTypes
  BY <1>1, <1>2, <1>3 DEF FieldTypes, Totalled
<1>5. OfTheRows(fieldTotals) /\ OfTheRows(savedTotals)
  BY <1>3 DEF OfTheRows, Start
<1> QED BY <1>1, <1>4, <1>5 DEF FieldsOK, FieldTotalsOK

LEMMA FieldsServe ==
  ASSUME FieldsOK
  PROVE  TotalsAddUp
BY DEF FieldsOK, FieldTypes, FieldTotalsOK, TotalsAddUp, Strategies, Totalled, OfTheRows

LEMMA ResetIsInteger ==
  ASSUME FieldTypes
  PROVE  ResetValue \in Int
BY DEF FieldTypes, ResetValue, Measures

(* What leaves the rows and the totals as they are *)
LEMMA TotalsStay ==
  ASSUME FieldsOK, UNCHANGED <<pc, strategy, rowsSum, rowsMax, fieldTotals, savedTotals, rowValue>>,
         late => late', ofJob => ofJob', sensorValue' \in {None} \cup Measures,
         strategy \in Totalled => tracked' \in Int /\ lastValue' \in {None} \cup Int,
         pc["event"] # "saving" \/ late' \/ tracked' = tracked
  PROVE  FieldsOK'
<1>1. FieldTypes'
  BY DEF FieldsOK, FieldTypes
<1>2. FieldTotalsOK'
  BY DEF FieldsOK, FieldTotalsOK, OfTheRows
<1> QED BY <1>1, <1>2 DEF FieldsOK

LEMMA FieldsKeep ==
  ASSUME FieldsOK, FieldsNext
  PROVE  FieldsOK'
<1>0. FieldTypes /\ FieldTotalsOK /\ "event" \in Task
  BY DEF FieldsOK, Task, Background
<1>1. CASE Measured
  <2>1. PICK v \in Measures : /\ sensorValue' = v
                              /\ tracked' = IF Tracking THEN Tracks(v) ELSE tracked
                              /\ lastValue' = IF strategy = "delta" THEN v ELSE None
    BY <1>1 DEF Measured
  <2>2. /\ UNCHANGED <<pc, strategy, rowsSum, rowsMax, fieldTotals, savedTotals, rowValue, ofJob>>
        /\ late' = (late \/ (Tracking /\ pc["event"] = "saving"))
    BY <1>1 DEF Measured, fieldConfig, totalsVars
  <2>3. v \in Int /\ v \in {None} \cup Measures
    BY DEF Measures
  <2>4. ASSUME strategy \in Totalled PROVE tracked' \in Int /\ lastValue' \in {None} \cup Int
    <3>1. Tracks(v) \in Int
      BY <1>0, <2>3, <2>4 DEF FieldTypes, Tracks, Totalled, Greater, Lesser
    <3> QED BY <1>0, <2>1, <2>3, <2>4, <3>1 DEF FieldTypes
  <2>5. late => late'
    BY <2>2
  <2>6. pc["event"] # "saving" \/ late' \/ tracked' = tracked
    BY <2>1, <2>2
  <2> QED BY <2>1, <2>2, <2>3, <2>4, <2>5, <2>6, TotalsStay
<1>2. CASE SensorLost \/ PausedOrNot
  BY <1>0, <1>2, TotalsStay DEF SensorLost, PausedOrNot, fieldConfig, trackerVars, totalsVars, FieldTypes
<1>3. CASE JobAdded
  <2>1. /\ UNCHANGED <<pc, strategy, rowsSum, rowsMax, fieldTotals, savedTotals, rowValue, sensorValue, late>>
        /\ ~ofJob /\ ResetTracker
    BY <1>3 DEF JobAdded, fieldConfig, totalsVars
  <2>2. strategy \in Totalled => tracked' \in Int /\ lastValue' \in {None} \cup Int
    BY <1>0, <2>1, ResetIsInteger DEF ResetTracker, Totalled
  <2>3. pc["event"] = "idle"
    BY <1>0, <2>1 DEF FieldTypes
  <2> QED BY <1>0, <2>1, <2>2, <2>3, TotalsStay DEF FieldTypes
<1>4. CASE JobFinishes
  <2>1. /\ ofJob /\ pc' = [pc EXCEPT !["event"] = "saving"] /\ rowValue' = tracked /\ pc["event"] = "idle"
        /\ UNCHANGED <<strategy, sensorValue, tracked, lastValue, ofJob, rowsSum, rowsMax, fieldTotals, savedTotals,
                       late>>
    BY <1>4 DEF JobFinishes, Goes, fieldConfig, trackerVars
  <2>2. DOMAIN pc' = Task /\ pc'["event"] = "saving"
    BY <1>0, <2>1 DEF FieldTypes
  <2>3. FieldTypes'
    BY <1>0, <2>1, <2>2 DEF FieldTypes
  <2>4. FieldTotalsOK'
    BY <1>0, <2>1, <2>2 DEF FieldTotalsOK, OfTheRows
  <2> QED BY <2>3, <2>4 DEF FieldsOK
<1>5. CASE TotalsUpdated
  <2>1. /\ pc["event"] = "saving" /\ pc' = [pc EXCEPT !["event"] = "storing"]
        /\ fieldTotals' = (IF ~HasTotals THEN None
                           ELSE AddsTo(IF fieldTotals = None THEN Start ELSE fieldTotals))
        /\ rowsSum' = (IF rowValue = None THEN rowsSum ELSE rowsSum + rowValue)
        /\ rowsMax' = (IF rowValue = None THEN rowsMax ELSE Greater(rowsMax, rowValue))
        /\ UNCHANGED <<strategy, sensorValue, tracked, lastValue, ofJob, rowValue, savedTotals, late>>
    BY <1>5 DEF TotalsUpdated, Goes, fieldConfig, trackerVars
  <2>2. DOMAIN pc' = Task /\ pc'["event"] = "storing"
    BY <1>0, <2>1 DEF FieldTypes
  <2>3. ASSUME strategy \in Totalled, ~late
        PROVE  rowsSum' \in Int /\ rowsMax' \in Int /\ OfTheRows(fieldTotals)' /\ fieldTotals' # None
    <3>1. tracked \in Int /\ rowsSum \in Int /\ rowsMax \in Int /\ rowValue = tracked /\ tracked # None
      BY <1>0, <2>1, <2>3, FieldConstants DEF FieldTypes, FieldTotalsOK
    <3>2. HasTotals
      BY <2>3 DEF HasTotals, Totalled, Strategies
    <3>3. PICK t : t = IF fieldTotals = None THEN Start ELSE fieldTotals
      OBVIOUS
    <3>4. t.total = rowsSum /\ t.maximum = rowsMax
      <4>1. CASE fieldTotals = [total |-> rowsSum, maximum |-> rowsMax]
        <5>1. fieldTotals # None
          BY <3>1, <4>1, FieldConstants
        <5> QED BY <3>3, <4>1, <5>1
      <4>2. CASE fieldTotals = None /\ rowsSum = 0 /\ rowsMax = 0
        BY <3>3, <4>2 DEF Start
      <4> QED BY <1>0, <2>3, <4>1, <4>2 DEF FieldTotalsOK, OfTheRows
    <3>5. fieldTotals' = [total |-> tracked + rowsSum, maximum |-> Greater(tracked, rowsMax)]
      BY <2>1, <3>2, <3>3, <3>4 DEF AddsTo
    <3>6. rowsSum' = tracked + rowsSum /\ rowsMax' = Greater(tracked, rowsMax) /\ Greater(tracked, rowsMax) \in Int
      BY <2>1, <3>1 DEF Greater
    <3>7. fieldTotals' # None
      BY <3>1, <3>5, <3>6, FieldConstants
    <3> QED BY <3>1, <3>5, <3>6, <3>7 DEF OfTheRows
  <2>4. strategy \in Totalled => rowsSum' \in Int /\ rowsMax' \in Int
    <3>1. ASSUME strategy \in Totalled, rowValue = None \/ rowValue \in Int PROVE rowsSum' \in Int /\ rowsMax' \in Int
      BY <1>0, <2>1, <3>1 DEF FieldTypes, Greater
    <3> QED BY <1>0, <2>1, <3>1 DEF FieldTypes
  <2>5. FieldTypes'
    BY <1>0, <2>1, <2>2, <2>4 DEF FieldTypes
  <2>6. FieldTotalsOK'
    BY <2>1, <2>2, <2>3 DEF FieldTotalsOK
  <2> QED BY <2>5, <2>6 DEF FieldsOK
<1>6. CASE TotalsSaved
  <2>1. /\ pc["event"] = "storing" /\ pc' = [pc EXCEPT !["event"] = "idle"]
        /\ savedTotals' = (IF fieldTotals = None THEN savedTotals ELSE fieldTotals) /\ rowValue' = None
        /\ UNCHANGED <<strategy, sensorValue, tracked, lastValue, rowsSum, rowsMax, fieldTotals, late>>
    BY <1>6 DEF TotalsSaved, Goes, fieldConfig, trackerVars
  <2>2. DOMAIN pc' = Task /\ pc'["event"] = "idle"
    BY <1>0, <2>1 DEF FieldTypes
  <2>3. FieldTypes'
    BY <1>0, <2>1, <2>2 DEF FieldTypes
  <2>4. FieldTotalsOK'
    BY <1>0, <2>1, <2>2 DEF FieldTotalsOK, OfTheRows
  <2> QED BY <2>3, <2>4 DEF FieldsOK
<1>7. CASE TotalsReset
  <2>1. /\ ~ofJob /\ rowsSum' = 0 /\ rowsMax' = 0 /\ savedTotals' = fieldTotals'
        /\ fieldTotals' = (IF HasTotals THEN Start ELSE None)
        /\ UNCHANGED <<pc, strategy, sensorValue, tracked, lastValue, ofJob, rowValue, late>>
    BY <1>7 DEF TotalsReset, fieldConfig, trackerVars
  <2>2. pc["event"] = "idle"
    BY <1>0, <2>1 DEF FieldTypes
  <2>3. FieldTypes'
    BY <1>0, <2>1 DEF FieldTypes
  <2>4. OfTheRows(fieldTotals)' /\ OfTheRows(savedTotals)'
    BY <2>1 DEF OfTheRows, Start
  <2> QED BY <2>1, <2>2, <2>3, <2>4 DEF FieldsOK, FieldTotalsOK
<1>8. CASE FieldsRestart
  <2>1. /\ ~ofJob /\ tracked' = (IF strategy = "basic" THEN None ELSE 0) /\ lastValue' = None /\ sensorValue' = None
        /\ fieldTotals' = (IF strategy \in Strategies \ {"basic", "collect", "average"} THEN savedTotals ELSE None)
        /\ UNCHANGED <<pc, strategy, rowsSum, rowsMax, savedTotals, rowValue, ofJob, late>>
    BY <1>8 DEF FieldsRestart, fieldConfig
  <2>2. pc["event"] = "idle"
    BY <1>0, <2>1 DEF FieldTypes
  <2>3. FieldTypes'
    BY <1>0, <2>1 DEF FieldTypes, Totalled
  <2>4. ASSUME strategy \in Totalled, ~late PROVE OfTheRows(fieldTotals)' /\ OfTheRows(savedTotals)'
    <3>1. fieldTotals' = savedTotals
      BY <2>1, <2>4 DEF Totalled, Strategies
    <3> QED BY <1>0, <2>1, <2>2, <2>4, <3>1 DEF FieldTotalsOK, OfTheRows
  <2> QED BY <2>1, <2>2, <2>3, <2>4 DEF FieldsOK, FieldTotalsOK
<1> QED BY <1>1, <1>2, <1>3, <1>4, <1>5, <1>6, <1>7, <1>8 DEF FieldsNext

LEMMA FieldsRest ==
  ASSUME FieldsOK, UNCHANGED <<pc, fieldVars>>
  PROVE  FieldsOK'
<1>1. UNCHANGED <<pc, strategy, sensorValue, tracked, lastValue, ofJob, rowValue, rowsSum, rowsMax, fieldTotals,
                  savedTotals, late>>
  BY DEF fieldVars, fieldConfig, trackerVars, totalsVars
<1> QED BY <1>1 DEF FieldsOK, FieldTypes, FieldTotalsOK, OfTheRows
=============================================================================

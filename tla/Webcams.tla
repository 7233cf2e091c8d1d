------------------------------- MODULE Webcams -------------------------------
(***************************************************************************)
(* webcam.py: cameras of the configuration, and those of requests, which are  *)
(* kept by name in memory and by uid in the database, written by a thread.     *)
(***************************************************************************)
EXTENDS Host

VARIABLES
  camConfig,   \* the camera of the configuration, None without one
  cams,        \* webcams: by name
  camRows,     \* the rows of the database, by uid
  camWrites,   \* what the thread of the database has still to do
  camWaits,    \* a request waits for its insert
  camUp,       \* Moonraker runs
  camHidden,   \* rows that were passed over at the start
  camTorn      \* a change failed after it had begun

webcamVars == <<camConfig, cams, camRows, camWrites, camWaits, camUp, camHidden, camTorn>>

CamName == {"front", "top"}
CamUid == {1, 2}
(* A field that update takes and a start refuses, such as a rotation of 45 *)
CamData == {"first", "second", "refused"}
Camera(name, uid, data, source) == [name |-> name, uid |-> uid, data |-> data, source |-> source]
Configured == Camera("front", 0, "first", "config")

WebcamsInit ==
  /\ camConfig \in Among(BOOLEAN, "webcams")
  /\ cams = [n \in CamName |-> None] /\ camRows = [u \in CamUid |-> None]
  /\ camWrites = <<>> /\ camWaits = [t \in Request |-> 0] /\ camUp = FALSE
  /\ camHidden = {} /\ camTorn = FALSE

Cams == [name : CamName, uid : CamUid \cup {0}, data : CamData, source : {"config", "database"}]
Rows == [name : CamName, data : CamData]
(* None is neither a camera nor a row. *)
ASSUME WebcamConstants == None \notin Cams \cup Rows

WebcamsTypeOK ==
  /\ {camConfig, camUp, camTorn} \subseteq BOOLEAN
  /\ cams \in [CamName -> Cams \cup {None}] /\ camRows \in [CamUid -> Rows \cup {None}]
  /\ camHidden \subseteq CamUid
  /\ \A t \in Request : pc[t] = "saving" <=> camWaits[t] # 0

Known == {n \in CamName : cams[n] # None}
Uids == {cams[n].uid : n \in Known}
-----------------------------------------------------------------------------
(* component_init: the configured camera, then the rows by their uid; one of  *)
(* a name that is taken, or that is refused, is passed over.                    *)

RowsTaken ==
  {u \in CamUid :
     /\ camRows[u] # None /\ camRows[u].data # "refused"
     /\ ~(camConfig /\ camRows[u].name = Configured.name)
     /\ ~\E v \in CamUid : /\ v < u /\ camRows[v] # None
                           /\ camRows[v].data # "refused" /\ camRows[v].name = camRows[u].name}

WebcamsStart ==
  /\ ~camUp /\ camWrites = <<>>
  /\ LET taken == RowsTaken IN
       /\ cams' = [n \in CamName |->
            IF camConfig /\ n = Configured.name THEN Configured
            ELSE IF \E u \in taken : camRows[u].name = n
                 THEN LET u == CHOOSE u \in taken : camRows[u].name = n
                      IN Camera(n, u, camRows[u].data, "database")
                 ELSE None]
       /\ camHidden' = {u \in CamUid \ taken : camRows[u] # None}
  /\ camUp' = TRUE /\ camTorn' = FALSE
  /\ PrinterStays /\ UNCHANGED <<pc, left, camConfig, camRows, camWrites, camWaits>>
-----------------------------------------------------------------------------
(* _handle_webcam_request *)

CamKept == UNCHANGED <<camConfig, camRows, camUp, camHidden>>

(* _save_cam: at once in memory; the request waits for the database. *)
Saves(t, cam, others) ==
  /\ cams' = [others EXCEPT ![cam.name] = cam]
  /\ camWrites' = Append(camWrites, [uid |-> cam.uid, by |-> t,
                                     row |-> [name |-> cam.name, data |-> cam.data]])
  /\ camWaits' = [camWaits EXCEPT ![t] = cam.uid]
  /\ Goes(t, "saving")

(* _get_guaranteed_uuid: a random one *)
CamAdded(t) ==
  /\ camUp /\ Idle(t) /\ Spends("asks")
  /\ \E n \in CamName \ Known, u \in CamUid, data \in CamData \ {"refused"} :
       /\ u \notin Uids /\ camRows[u] = None /\ \A i \in DOMAIN camWrites : camWrites[i].uid # u
       /\ Saves(t, Camera(n, u, data, "database"), cams)
  /\ PrinterStays /\ CamKept /\ UNCHANGED camTorn

(* Mutant: a camera that gets a new name keeps the old one. *)
BothNames(name) == cams
(* A camera that gets a new name is taken from the old one. *)
WithoutName(name) == [cams EXCEPT ![name] = None]

(* update: fields are set one by one, and one that cannot be read ends it. *)
CamUpdated(t) ==
  /\ camUp /\ Idle(t) /\ Spends("asks")
  /\ \E old \in Known, name \in CamName, data \in CamData :
       LET others == IF name = old THEN cams ELSE WithoutName(old)
           cam == [cams[old] EXCEPT !.name = name, !.data = data] IN
       /\ cams[old].source = "database" /\ (name # old => name \notin Known)
       /\ \/ Saves(t, cam, others) /\ UNCHANGED camTorn
          \/ /\ cams' = IF name = old THEN [cams EXCEPT ![old].data = data] ELSE others
             /\ camTorn' = TRUE /\ UNCHANGED <<pc, camWrites, camWaits>>
  /\ PrinterStays /\ CamKept

(* DELETE does not wait for the database. *)
CamDeleted(t) ==
  /\ camUp /\ Idle(t) /\ Spends("asks")
  /\ \E n \in Known :
       /\ cams[n].source = "database"
       /\ cams' = [cams EXCEPT ![n] = None]
       /\ camWrites' = Append(camWrites, [uid |-> cams[n].uid, by |-> None, row |-> None])
  /\ PrinterStays /\ CamKept /\ UNCHANGED <<pc, camWaits, camTorn>>

(* The thread of the database, and the request that waited *)
CamWritten ==
  /\ camWrites # <<>>
  /\ LET w == Head(camWrites) IN
       /\ \/ camRows' = [camRows EXCEPT ![w.uid] = w.row] /\ UNCHANGED <<left, camTorn>>
          \/ Spends("failures") /\ camTorn' = TRUE /\ UNCHANGED camRows
       /\ IF w.by \in Request /\ camWaits[w.by] # 0
          THEN Goes(w.by, "idle") /\ camWaits' = [camWaits EXCEPT ![w.by] = 0]
          ELSE UNCHANGED <<pc, camWaits>>
  /\ camWrites' = Tail(camWrites)
  /\ PrinterStays /\ UNCHANGED <<camConfig, cams, camUp, camHidden>>

(* Moonraker ends, with what the thread has not done; the configuration may    *)
(* get or lose its camera.                                                       *)
WebcamsCrash ==
  /\ camUp /\ Spends("changes")
  /\ camUp' = FALSE /\ cams' = [n \in CamName |-> None] /\ camWrites' = <<>>
  /\ camWaits' = [t \in Request |-> 0] /\ pc' = [t \in Task |-> "idle"]
  /\ camConfig' \in BOOLEAN
  /\ camHidden' = {} /\ PrinterStays /\ UNCHANGED <<camRows, camTorn>>

WebcamsNext ==
  \/ WebcamsStart \/ CamWritten \/ WebcamsCrash
  \/ \E t \in Request : CamAdded(t) \/ CamUpdated(t) \/ CamDeleted(t)

WebcamsWorks(t) ==
  \/ t = "init" /\ WebcamsStart
  \/ t = "worker" /\ CamWritten

(* Cameras are listed under one name each, and those that are listed are those   *)
(* in the database once its thread has done its work, whatever was added, got      *)
(* another name or was deleted before and after a restart.  But a row passed over    *)
(* at the start stays, and a change that fails on the way (webcam.py:183-192) has     *)
(* taken the camera from the list, or changed it only there.                           *)
WebcamsAreStored ==
  /\ \A m, n \in Known : cams[m].name = m /\ (cams[m].uid = cams[n].uid => m = n)
  /\ camUp /\ camWrites = <<>> /\ ~camTorn =>
       \A u \in CamUid \ camHidden :
         IF camRows[u] = None THEN u \notin Uids
         ELSE \E n \in Known : /\ cams[n].uid = u /\ camRows[u].name = n
                               /\ camRows[u].data = cams[n].data
=============================================================================

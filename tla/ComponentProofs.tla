-------------------------- MODULE ComponentProofs --------------------------
(***************************************************************************)
(* Properties of module Components: a component whose invariant its own     *)
(* actions keep has it in all behaviours, as the others leave it alone.      *)
(* The invariant of the configuration (ConfigFile) is here, too.             *)
(***************************************************************************)
EXTENDS Components, ComponentInvariants, HostedInvariants

(* A step is Spoolman's, or leaves its state alone. *)
LEMMA SpoolmanOrOthers ==
  ASSUME [Next]_vars
  PROVE  \/ component = "spoolman" /\ component' = "spoolman" /\ SpoolmanNext
         \/ component # "spoolman" /\ component' = component /\ UNCHANGED spoolVars
         \/ UNCHANGED vars
<1>1. ASSUME NEW name, name # "spoolman", About(name)
      PROVE  component # "spoolman" /\ component' = component /\ UNCHANGED spoolVars
  BY <1>1 DEF About
<1>2. About("spoolman") => component = "spoolman" /\ component' = "spoolman"
  BY DEF About
<1>3. QED
  BY <1>1, <1>2 DEF Next

SpoolmanInv ==
  /\ UsageCounted
  /\ component = "spoolman" => SpoolmanOK

(* What the filament of a spool is charged with, what waits and what is on its way *)
(* add up to what it gave, for any number of spools, any positions of the extruder *)
(* and any order of reports, failures, drops of the websocket and deletions        *)
(* (spoolman.py).                                                                   *)
THEOREM UsageIsCounted == Spec => []UsageCounted
<1>1. Init => SpoolmanInv
  <2> SUFFICES ASSUME Init PROVE SpoolmanInv
    OBVIOUS
  <2>1. /\ spoolId = (CHOOSE s \in Spool : TRUE)
        /\ lastPos = 0 /\ highestPos = 0 /\ pos = 0 /\ top = 0
        /\ pending = NoUse /\ taken = NoUse /\ used = NoUse /\ charged = NoUse /\ doubled = NoUse
        /\ timer = [running |-> FALSE, armed |-> FALSE]
        /\ spools = Spool /\ news = {} /\ pc = [t \in Task |-> "idle"]
    BY DEF Init, SpoolmanInit, HostInit
  <2>2. spoolId \in Spool
    BY <2>1, SpoolmanConstants
  <2>3. SpoolTypes
    BY <2>1, <2>2, NoUseType DEF SpoolTypes
  <2>4. SendingOK /\ AimOK /\ GoneOK
    BY <2>1 DEF SendingOK, AimOK, GoneOK, Task, Background
  <2>5. UsageCounted
    BY <2>1, NoUseType DEF UsageCounted
  <2>6. QED
    BY <2>3, <2>4, <2>5 DEF SpoolmanInv, SpoolmanOK
<1>2. SpoolmanInv /\ [Next]_vars => SpoolmanInv'
  <2> SUFFICES ASSUME SpoolmanInv, [Next]_vars PROVE SpoolmanInv'
    OBVIOUS
  <2>1. CASE component = "spoolman" /\ component' = "spoolman" /\ SpoolmanNext
    <3>1. SpoolmanOK'
      BY <2>1, SpoolmanKeeps DEF SpoolmanInv
    <3>2. QED
      BY <3>1 DEF SpoolmanInv, SpoolmanOK
  <2>2. CASE component # "spoolman" /\ component' = component /\ UNCHANGED spoolVars
    BY <2>2 DEF SpoolmanInv, UsageCounted, spoolVars, countVars, serverVars
  <2>3. CASE UNCHANGED vars
    <3>1. UNCHANGED <<component, pc, spoolId, lastPos, highestPos, pos, top, used, pending, taken, timer,
                      spools, charged, news, doubled, misjudged>>
      BY <2>3 DEF vars, hostVars, spoolVars, countVars, serverVars
    <3>2. QED
      BY <3>1 DEF SpoolmanInv, SpoolmanOK, SpoolTypes, SendingOK, AimOK, GoneOK, UsageCounted
  <2>4. QED
    BY <2>1, <2>2, <2>3, SpoolmanOrOthers
<1>3. SpoolmanInv => UsageCounted
  BY DEF SpoolmanInv
<1>4. QED
  BY <1>1, <1>2, <1>3, PTL DEF Spec

(* A step is of the update manager, or leaves its state alone. *)
LEMMA UpdatesOrOthers ==
  ASSUME [Next]_vars
  PROVE  \/ component = "updates" /\ component' = "updates" /\ UpdatesNext
         \/ component # "updates" /\ component' = component /\ UNCHANGED updateVars
         \/ UNCHANGED vars
<1>1. ASSUME NEW name, name # "updates", About(name)
      PROVE  component # "updates" /\ component' = component /\ UNCHANGED updateVars
  BY <1>1 DEF About
<1>2. About("updates") => component = "updates" /\ component' = "updates"
  BY DEF About
<1>3. QED
  BY <1>1, <1>2 DEF Next

UpdatesInv ==
  /\ RollbackIsPrevious
  /\ component = "updates" => UpdatesOK

(* An application that no command failed on goes back to the version that was there *)
(* before its last update, for any applications and versions and any order of       *)
(* updates, rollbacks, recoveries, refreshes, failures and crashes                  *)
(* (update_manager.py, git_deploy.py, net_deploy.py).                                *)
THEOREM RollbackGoesBack == Spec => []RollbackIsPrevious
<1>1. Init => UpdatesInv
  <2> SUFFICES ASSUME Init PROVE UpdatesInv
    OBVIOUS
  <2>1. /\ disk = [a \in App |-> 0] /\ prior = [a \in App |-> 0] /\ settled = App
        /\ remote = [a \in App |-> IF a \in IsGit THEN LastVersion ELSE 0]
        /\ known = [a \in App |-> [cur |-> 0, up |-> 0, valid |-> TRUE, rb |-> 0]]
        /\ saved = known /\ cmdQueue = <<>> /\ cmd = [t \in Task |-> NoCmd]
        /\ pc = [t \in Task |-> "idle"]
    BY DEF Init, UpdatesInit, HostInit
  <2>2. 0 \in Version /\ LastVersion \in Version /\ 0 \in MaybeVersion /\ 0 # None
    BY UpdatesConstants DEF Version, MaybeVersion
  <2>3. PICK k : k = [cur |-> 0, up |-> 0, valid |-> TRUE, rb |-> 0]
    OBVIOUS
  <2>4. /\ k \in AppState /\ k = [k EXCEPT !.rb = k.rb]
        /\ k.cur = 0 /\ k.up = 0 /\ k.rb = 0
    BY <2>2, <2>3 DEF AppState
  <2>5. RepoTypes
    <3>1. \A a \in App : remote[a] \in Version
      BY <2>1, <2>2
    <3>2. QED
      BY <2>1, <2>2, <2>3, <2>4, <3>1 DEF RepoTypes
  <2>6. CmdTypes /\ LockOK
    <3>1. <<>> \in Seq(App) /\ <<>> \in Seq(Task)
      OBVIOUS
    <3>2. NoCmd \in [what : Commands \cup {"none"}, todo : Seq(App), changed : BOOLEAN]
      BY <3>1 DEF NoCmd
    <3>3. QED
      BY <2>1, <3>1, <3>2 DEF CmdTypes, LockOK
  <2>7. \A t \in Task : StageOK(t)
    BY <2>1 DEF StageOK
  <2>8. ASSUME NEW a \in App PROVE AppOK(a)
    BY <2>1, <2>2, <2>3, <2>4 DEF AppOK
  <2>9. RollbackIsPrevious
    BY <2>1, <2>3, <2>4 DEF RollbackIsPrevious
  <2>10. QED
    BY <2>5, <2>6, <2>7, <2>8, <2>9 DEF UpdatesInv, UpdatesOK
<1>2. UpdatesOK => RollbackIsPrevious
  <2> SUFFICES ASSUME UpdatesOK, cmdQueue = <<>>, NEW a \in settled
               PROVE  known[a].rb = prior[a]
    BY DEF RollbackIsPrevious
  <2>1. ~Outdated(a)
    BY DEF UpdatesOK, LockOK, Outdated
  <2>2. QED
    BY <2>1 DEF UpdatesOK, RepoTypes, AppOK
<1>3. UpdatesInv /\ [Next]_vars => UpdatesInv'
  <2> SUFFICES ASSUME UpdatesInv, [Next]_vars PROVE UpdatesInv'
    OBVIOUS
  <2>1. CASE component = "updates" /\ component' = "updates" /\ UpdatesNext
    <3>1. UpdatesOK'
      BY <2>1, UpdatesKeeps DEF UpdatesInv
    <3>2. RollbackIsPrevious'
      <4>1. ASSUME cmdQueue' = <<>>, NEW a \in settled' PROVE known'[a].rb = prior'[a]
        <5>1. ~Outdated(a)'
          BY <3>1, <4>1 DEF UpdatesOK, LockOK, Outdated
        <5>2. QED
          BY <3>1, <5>1 DEF UpdatesOK, RepoTypes, AppOK
      <4>2. QED
        BY <4>1 DEF RollbackIsPrevious
    <3>3. QED
      BY <3>1, <3>2 DEF UpdatesInv
  <2>2. CASE component # "updates" /\ component' = component /\ UNCHANGED updateVars
    BY <2>2 DEF UpdatesInv, RollbackIsPrevious, updateVars, repoVars, historyVars
  <2>3. CASE UNCHANGED vars
    <3>1. UNCHANGED <<component, pc, disk, remote, known, saved, cmdQueue, cmd, prior, settled>>
      BY <2>3 DEF vars, hostVars, updateVars, repoVars, historyVars
    <3>2. ASSUME UpdatesOK PROVE UpdatesOK'
      <4>1. remote' \in [App -> Version]
        BY <3>1, <3>2 DEF UpdatesOK, RepoTypes
      <4>2. QED
        BY <3>1, <3>2, <4>1, OutsideKeeps
    <3>3. QED
      BY <3>1, <3>2 DEF UpdatesInv, RollbackIsPrevious
  <2>4. QED
    BY <2>1, <2>2, <2>3, UpdatesOrOthers
<1>4. UpdatesInv => RollbackIsPrevious
  BY DEF UpdatesInv
<1>5. QED
  BY <1>1, <1>3, <1>4, PTL DEF Spec

(* A step is the timelapse's, or leaves its state alone. *)
LEMMA TimelapseOrOthers ==
  ASSUME [Next]_vars
  PROVE  \/ component = "timelapse" /\ component' = "timelapse" /\ TimelapseNext
         \/ component # "timelapse" /\ component' = component /\ UNCHANGED timelapseVars
         \/ UNCHANGED vars
<1>1. ASSUME NEW name, name # "timelapse", About(name)
      PROVE  component # "timelapse" /\ component' = component /\ UNCHANGED timelapseVars
  BY <1>1 DEF About
<1>2. About("timelapse") => component = "timelapse" /\ component' = "timelapse"
  BY DEF About
<1>3. QED
  BY <1>1, <1>2 DEF Next

TimelapseInv ==
  /\ FramesKept
  /\ component = "timelapse" => TimelapseOK

(* Every frame that was captured is in a video or on the disk, however many jobs, *)
(* captures, renders, failures and restarts there are; but of a directory that    *)
(* was rendered or taken up again during a capture of it (timelapse.py).           *)
THEOREM FramesAreKept == Spec => []FramesKept
<1>1. Init => TimelapseInv
  <2> SUFFICES ASSUME Init PROVE TimelapseInv
    OBVIOUS
  <2>1. /\ dirs = <<>> /\ home = <<>> /\ currentJob = NoJobYet /\ shot = NoShot
        /\ rendering = NoRender /\ captureQueue = <<>> /\ pc = [t \in Task |-> "idle"]
    BY DEF Init, TimelapseInit, HostInit
  <2>2. Job = {} /\ DOMAIN home = {}
    BY <2>1 DEF Job
  <2>3. DirTypes
    BY <2>1, <2>2 DEF DirTypes, NoJobYet, NoShot, NoRender
  <2>4. CaptureLockOK
    <3>1. captureQueue \in Seq(Request) /\ Len(captureQueue) = 0
      BY <2>1
    <3>2. DOMAIN pc = Task /\ \A t \in Task : pc[t] = "idle"
      BY <2>1
    <3>3. QED
      BY <3>1, <3>2 DEF CaptureLockOK
  <2>5. RenderFlagOK
    BY <2>1 DEF RenderFlagOK, Task, Background
  <2>6. EmptyOK /\ CountsOK /\ FramesKept
    BY <2>2 DEF EmptyOK, CountsOK, FramesKept
  <2>7. QED
    BY <2>3, <2>4, <2>5, <2>6 DEF TimelapseInv, TimelapseOK
<1>2. TimelapseInv /\ [Next]_vars => TimelapseInv'
  <2> SUFFICES ASSUME TimelapseInv, [Next]_vars PROVE TimelapseInv'
    OBVIOUS
  <2>1. CASE component = "timelapse" /\ component' = "timelapse" /\ TimelapseNext
    <3>1. TimelapseOK'
      BY <2>1, TimelapseKeeps DEF TimelapseInv
    <3>2. QED
      BY <3>1 DEF TimelapseInv, TimelapseOK
  <2>2. CASE component # "timelapse" /\ component' = component /\ UNCHANGED timelapseVars
    BY <2>2 DEF TimelapseInv, FramesKept, Frames, Exists, timelapseVars, frameVars
  <2>3. CASE UNCHANGED vars
    <3>1. UNCHANGED <<component, pc, dirs, currentJob, captureQueue, shot, rendering, home, videos,
                      overlapped>>
      BY <2>3 DEF vars, hostVars, timelapseVars, captureVars, renderVars, frameVars
    <3>2. FramesKept'
      BY <3>1 DEF TimelapseInv, FramesKept, Frames, Exists
    <3>3. CASE component = "timelapse"
      <4>1. DOMAIN pc' = Task /\ TimelapseOK
        BY <3>1, <3>3 DEF TimelapseInv, TimelapseOK, CaptureLockOK
      <4>2. TimelapseOK'
        BY <3>1, <4>1, PlacesKeep
      <4>3. QED
        BY <3>2, <4>2 DEF TimelapseInv
    <3>4. CASE component # "timelapse"
      BY <3>1, <3>2, <3>4 DEF TimelapseInv
    <3>5. QED
      BY <3>3, <3>4
  <2>4. QED
    BY <2>1, <2>2, <2>3, TimelapseOrOthers
<1>3. TimelapseInv => FramesKept
  BY DEF TimelapseInv
<1>4. QED
  BY <1>1, <1>2, <1>3, PTL DEF Spec

(* A step is that of the files, or leaves their state alone. *)
LEMMA FilesOrOthers ==
  ASSUME [Next]_vars
  PROVE  \/ component = "files" /\ component' = "files" /\ FilesNext
         \/ component # "files" /\ component' = component /\ UNCHANGED filesVars
         \/ UNCHANGED vars
<1>1. ASSUME NEW name, name # "files", About(name)
      PROVE  component # "files" /\ component' = component /\ UNCHANGED filesVars
  BY <1>1 DEF About
<1>2. About("files") => component = "files" /\ component' = "files"
  BY DEF About
<1> QED BY <1>1, <1>2 DEF Next

LEMMA SameFiles ==
  ASSUME UNCHANGED <<filesVars, pc>>
  PROVE  (FilesOK => FilesOK') /\ (MetadataCurrent => MetadataCurrent')
<1>1. UNCHANGED <<onDisk, newest, overtaken, events, fileOp, meta, jobs, read, deletes, notices, pc>>
  BY DEF filesVars, fsVars, storageVars, observerVars
<1>2. \A x : /\ Pending(x)' <=> Pending(x)
             /\ Unread(x)' <=> Unread(x)
             /\ ToNotify(x)' <=> ToNotify(x)
  BY <1>1 DEF Pending, Unread, ToNotify
<1>3. FilesOK => FilesOK'
  <2> SUFFICES ASSUME FilesOK PROVE FilesOK'
    OBVIOUS
  <2>1. FileTypes' /\ FileRequestsOK' /\ DiskStays
    BY <1>1 DEF FilesOK, FileTypes, FileRequestsOK, DiskStays
  <2>2. \A x : WillBeScanned(x) => WillBeScanned(x)'
    BY <1>1 DEF WillBeScanned
  <2>3. DOMAIN pc' = Task
    BY <1>1 DEF FilesOK, FileTypes
  <2> QED BY <1>1, <2>1, <2>2, <2>3, CalmKeepsFiles
<1>4. MetadataCurrent => MetadataCurrent'
  BY <1>1, <1>2 DEF MetadataCurrent, Unsettled
<1> QED BY <1>3, <1>4

FilesInv ==
  /\ MetadataCurrent
  /\ component = "files" => FilesOK

(* When nothing is left to be read, extracted, notified or removed that is about a  *)
(* file, and no request works on it, its metadata is that of what is on the disk,    *)
(* whatever requests and other programs did to how many files, but for a file that   *)
(* changed again before its last change was dealt with (file_manager.py).            *)
THEOREM FilesKnown == Spec => []MetadataCurrent
<1>1. Init => FilesInv
  BY FilesBegin, FilesAreCurrent DEF Init, FilesInv
<1>2. FilesInv /\ [Next]_vars => FilesInv'
  <2> SUFFICES ASSUME FilesInv, [Next]_vars PROVE FilesInv'
    OBVIOUS
  <2>1. CASE component = "files" /\ component' = "files" /\ FilesNext
    <3>1. FilesOK'
      BY <2>1, FilesKeeps DEF FilesInv
    <3>2. FilesOK' => MetadataCurrent'
      BY FilesAreCurrent, PTL
    <3> QED BY <3>1, <3>2 DEF FilesInv
  <2>2. CASE component # "files" /\ component' = component /\ UNCHANGED filesVars
    <3>1. UNCHANGED <<onDisk, overtaken, events, fileOp, meta, jobs, deletes, notices>>
      BY <2>2 DEF filesVars, fsVars, storageVars, observerVars
    <3>2. \A x : /\ Pending(x)' <=> Pending(x)
                 /\ Unread(x)' <=> Unread(x)
                 /\ ToNotify(x)' <=> ToNotify(x)
      BY <3>1 DEF Pending, Unread, ToNotify
    <3>3. MetadataCurrent'
      BY <3>1, <3>2 DEF FilesInv, MetadataCurrent, Unsettled
    <3> QED BY <2>2, <3>3 DEF FilesInv
  <2>3. CASE UNCHANGED vars
    <3>1. UNCHANGED <<filesVars, pc, component>>
      BY <2>3 DEF vars, hostVars
    <3> QED BY <3>1, SameFiles DEF FilesInv
  <2> QED BY <2>1, <2>2, <2>3, FilesOrOthers
<1>3. FilesInv => MetadataCurrent
  BY DEF FilesInv
<1> QED BY <1>1, <1>2, <1>3, PTL DEF Spec

(***************************************************************************)
(* The configuration: what is parsed is said of each section by the lines   *)
(* themselves, so that an edit of one line can be followed.                 *)
(***************************************************************************)
LastRead == IF includeFirst THEN 0 ELSE 1
HasOption(raw, f, s, o) == raw[f][s] # None /\ \E i \in DOMAIN raw[f][s] : raw[f][s][i].option = o
Deciding(raw, f, s, o) == f = LastRead \/ \A g \in ConfigFiles \ {f} : ~HasOption(raw, g, s, o)

RawOK(raw) ==
  /\ raw \in [ConfigFiles -> [Section -> {None} \cup Seq(ConfigLine)]]
  /\ \A f \in ConfigFiles, s \in Section : raw[f][s] # None =>
       \A i, j \in DOMAIN raw[f][s] : raw[f][s][i].option = raw[f][s][j].option => i = j

(* What the lines say of a section *)
Said(raw, s, said) ==
  /\ (\A f \in ConfigFiles : raw[f][s] = None) => said = None
  /\ (\E f \in ConfigFiles : raw[f][s] # None) =>
       /\ said \in [CfgOption -> Setting \cup {None}]
       /\ \A o \in CfgOption :
            /\ (\A f \in ConfigFiles : ~HasOption(raw, f, s, o)) => said[o] = None
            /\ \A f \in ConfigFiles : raw[f][s] # None /\ Deciding(raw, f, s, o) =>
                 \A i \in DOMAIN raw[f][s] : raw[f][s][i].option = o => said[o] = raw[f][s][i].value

RecordedAt(raw, s, files, with) ==
  /\ files \subseteq ConfigFiles /\ \A f \in ConfigFiles : f \in files <=> raw[f][s] # None
  /\ DOMAIN with = CfgOption
  /\ \A o \in CfgOption :
       /\ with[o] \subseteq ConfigFiles
       /\ \A f \in ConfigFiles : HasOption(raw, f, s, o) => f \in with[o]

Recorded(raw, secs, opts) ==
  /\ DOMAIN secs = Section /\ DOMAIN opts = Section
  /\ \A s \in Section : RecordedAt(raw, s, secs[s], opts[s])

AllSaid(raw, parsed) ==
  /\ parsed \in [Section -> {None} \cup [CfgOption -> Setting \cup {None}]]
  /\ \A s \in Section : Said(raw, s, parsed[s])
Consistent(raw, parsed, secs, opts) == RawOK(raw) /\ AllSaid(raw, parsed) /\ Recorded(raw, secs, opts)

SavesOK ==
  /\ DOMAIN pc = Task /\ pc["worker"] \in {"idle", "saving", "reverting"}
  /\ pc["worker"] = "saving" => cfgWriting \subseteq cfgPending
  /\ pc["worker"] # "saving" => cfgWriting = None

TextsOK ==
  ~cfgStrayed =>
    /\ RawOK(cfgDisk)
    /\ pc["worker"] # "reverting" => Consistent(cfgRaw, cfgParsed, sectionFiles, optionFiles)
    /\ pc["worker"] = "idle" => \A f \in ConfigFiles \ cfgPending : cfgDisk[f] = cfgRaw[f]
    /\ pc["worker"] = "saving" => \A f \in ConfigFiles \ cfgWriting : cfgDisk[f] = cfgRaw[f]
    /\ cfgBackup # None =>
         /\ pc["worker"] = "idle" /\ cfgBackup.raw = cfgDisk
         /\ Consistent(cfgBackup.raw, cfgBackup.parsed, cfgBackup.sections, cfgBackup.options)

SourceOK == SavesOK /\ TextsOK

LEMMA CfgNames ==
  /\ "worker" \in Task /\ ConfigFiles = {0, 1} /\ Section = {"server", "extra"} /\ CfgOption = {"a", "b"}
  /\ Setting = {1, 2} /\ LastRead \in ConfigFiles
BY DEF Task, Background, ConfigFiles, Section, CfgOption, Setting, LastRead

(* The file that is read last *)
LEMMA TopIs ==
  ASSUME NEW F \in SUBSET ConfigFiles, F # {}
  PROVE  Top(F) \in F /\ (Top(F) = LastRead \/ F = {Top(F)})
<1>1. CASE Cardinality(F) = 1
  <2>1. PICK x : F = {x}
    <3>1. IsFiniteSet(F)
      <4>1. IsFiniteSet({0}) /\ {0, 1} = {0} \cup {1}
        BY FS_Singleton
      <4>2. IsFiniteSet({0, 1})
        BY <4>1, FS_AddElement
      <4> QED BY <4>2, FS_Subset DEF ConfigFiles
    <3> QED BY <1>1, <3>1, FS_Singleton
  <2>2. Top(F) = CHOOSE f \in F : Cardinality(F) = 1 \/ f = IF includeFirst THEN 0 ELSE 1
    BY DEF Top
  <2> QED BY <1>1, <2>1, <2>2
<1>2. CASE Cardinality(F) # 1
  <2>1. F = {0} \/ F = {1} \/ F = {0, 1}
    BY DEF ConfigFiles
  <2>2. F = {0, 1}
    BY <1>2, <2>1, FS_Singleton
  <2>3. Top(F) = CHOOSE f \in F : Cardinality(F) = 1 \/ f = IF includeFirst THEN 0 ELSE 1
    BY DEF Top
  <2> QED BY <1>2, <2>2, <2>3 DEF LastRead
<1> QED BY <1>1, <1>2

LEMMA HasPlaces ==
  ASSUME NEW raw, RawOK(raw), NEW f \in ConfigFiles, NEW s \in Section, NEW o \in CfgOption
  PROVE  /\ (Places(raw[f], s, o) # {}) <=> HasOption(raw, f, s, o)
         /\ \A i \in Places(raw[f], s, o) :
              raw[f][s] # None /\ i \in DOMAIN raw[f][s] /\ raw[f][s][i].option = o
         /\ \A i, j \in Places(raw[f], s, o) : i = j
BY DEF Places, HasOption, RawOK

(* What the parser makes of a section is what the lines say. *)
LEMMA ParseSays ==
  ASSUME NEW raw, RawOK(raw), NEW s \in Section
  PROVE  Said(raw, s, Parse(raw)[s])
<1>1. Parse(raw)[s] =
        IF FilesOf(raw, s) = {} THEN None
        ELSE [o \in CfgOption |->
                IF FilesWith(raw, s, o) = {} THEN None
                ELSE LET f == Top(FilesWith(raw, s, o))
                     IN raw[f][s][CHOOSE i \in Places(raw[f], s, o) : TRUE].value]
  BY DEF Parse
<1>2. CASE FilesOf(raw, s) = {}
  BY <1>1, <1>2 DEF Said, FilesOf
<1>3. CASE FilesOf(raw, s) # {}
  <2>1. PICK said : said = Parse(raw)[s]
    OBVIOUS
  <2>2. /\ DOMAIN said = CfgOption
        /\ \A o \in CfgOption :
             said[o] = IF FilesWith(raw, s, o) = {} THEN None
                       ELSE LET f == Top(FilesWith(raw, s, o))
                            IN raw[f][s][CHOOSE i \in Places(raw[f], s, o) : TRUE].value
    BY <1>1, <1>3, <2>1
  <2>3. said = [o \in CfgOption |-> said[o]]
    BY <1>1, <1>3, <2>1
  <2>4. ASSUME NEW o \in CfgOption
        PROVE  /\ (\A f \in ConfigFiles : ~HasOption(raw, f, s, o)) => said[o] = None
               /\ said[o] \in Setting \cup {None}
               /\ \A f \in ConfigFiles : raw[f][s] # None /\ Deciding(raw, f, s, o) =>
                    \A i \in DOMAIN raw[f][s] : raw[f][s][i].option = o => said[o] = raw[f][s][i].value
    <3>1. FilesWith(raw, s, o) = {f \in ConfigFiles : HasOption(raw, f, s, o)}
      BY HasPlaces DEF FilesWith
    <3>2. CASE FilesWith(raw, s, o) = {}
      <4>1. said[o] = None
        BY <2>2, <3>2
      <4> QED BY <3>1, <3>2, <4>1 DEF HasOption
    <3>3. CASE FilesWith(raw, s, o) # {}
      <4>1. PICK f : f = Top(FilesWith(raw, s, o))
        OBVIOUS
      <4>2. f \in FilesWith(raw, s, o) /\ f \in ConfigFiles /\ (f = LastRead \/ FilesWith(raw, s, o) = {f})
        BY <3>1, <3>3, <4>1, TopIs
      <4>3. PICK i \in Places(raw[f], s, o) : said[o] = raw[f][s][i].value
        <5>1. Places(raw[f], s, o) # {}
          BY <3>1, <4>2, HasPlaces
        <5>2. said[o] = raw[f][s][CHOOSE i \in Places(raw[f], s, o) : TRUE].value
          BY <2>2, <3>3, <4>1
        <5> QED BY <5>1, <5>2
      <4>4. /\ raw[f][s] # None /\ i \in DOMAIN raw[f][s] /\ raw[f][s][i].option = o
            /\ raw[f][s] \in Seq(ConfigLine)
        BY <4>2, <4>3, HasPlaces DEF RawOK
      <4>5. said[o] \in Setting
        <5>1. raw[f][s][i] \in ConfigLine
          BY <4>4
        <5> QED BY <4>3, <5>1 DEF ConfigLine
      <4>6. ASSUME NEW g \in ConfigFiles, raw[g][s] # None, Deciding(raw, g, s, o), NEW j \in DOMAIN raw[g][s],
                   raw[g][s][j].option = o
            PROVE  said[o] = raw[g][s][j].value
        <5>1. HasOption(raw, g, s, o) /\ HasOption(raw, f, s, o)
          BY <3>1, <4>2, <4>6 DEF HasOption
        <5>2. g = f
          BY <3>1, <4>2, <4>6, <5>1 DEF Deciding
        <5>3. j = i
          BY <4>2, <4>4, <4>6, <5>2 DEF RawOK
        <5> QED BY <4>3, <5>2, <5>3
      <4>7. ~(\A g \in ConfigFiles : ~HasOption(raw, g, s, o))
        BY <3>1, <4>2
      <4> QED BY <4>5, <4>6, <4>7
    <3> QED BY <3>2, <3>3
  <2>5. said \in [CfgOption -> Setting \cup {None}]
    BY <2>3, <2>4
  <2>6. ~(\A f \in ConfigFiles : raw[f][s] = None)
    BY <1>3 DEF FilesOf
  <2> QED BY <2>1, <2>4, <2>5, <2>6 DEF Said
<1> QED BY <1>2, <1>3

(* And there is but one thing that they say. *)
LEMMA SaidOnce ==
  ASSUME NEW raw, RawOK(raw), NEW s \in Section, NEW x, NEW y, Said(raw, s, x), Said(raw, s, y)
  PROVE  x = y
<1>1. CASE \A f \in ConfigFiles : raw[f][s] = None
  BY <1>1 DEF Said
<1>2. CASE \E f \in ConfigFiles : raw[f][s] # None
  <2>1. x \in [CfgOption -> Setting \cup {None}] /\ y \in [CfgOption -> Setting \cup {None}]
    BY <1>2 DEF Said
  <2>2. ASSUME NEW o \in CfgOption PROVE x[o] = y[o]
    <3>1. CASE \A f \in ConfigFiles : ~HasOption(raw, f, s, o)
      BY <1>2, <3>1 DEF Said
    <3>2. CASE \E f \in ConfigFiles : HasOption(raw, f, s, o)
      <4>1. PICK f \in ConfigFiles : HasOption(raw, f, s, o) /\ Deciding(raw, f, s, o)
        <5>1. CASE HasOption(raw, LastRead, s, o)
          BY <5>1, CfgNames DEF Deciding
        <5>2. CASE ~HasOption(raw, LastRead, s, o)
          BY <3>2, <5>2 DEF Deciding, ConfigFiles, LastRead
        <5> QED BY <5>1, <5>2
      <4>2. PICK i \in DOMAIN raw[f][s] : raw[f][s] # None /\ raw[f][s][i].option = o
        BY <4>1 DEF HasOption
      <4>3. x[o] = raw[f][s][i].value
        BY <1>2, <4>1, <4>2 DEF Said
      <4>4. y[o] = raw[f][s][i].value
        BY <1>2, <4>1, <4>2 DEF Said
      <4> QED BY <4>3, <4>4
    <3> QED BY <3>1, <3>2
  <2> QED BY <2>1, <2>2
<1> QED BY <1>1, <1>2

LEMMA ParsedIsParse ==
  ASSUME NEW raw, RawOK(raw), NEW parsed
  PROVE  AllSaid(raw, parsed) <=> parsed = Parse(raw)
<1>1. ASSUME NEW s \in Section PROVE Parse(raw)[s] \in {None} \cup [CfgOption -> Setting \cup {None}]
  BY ParseSays DEF Said
<1>2. Parse(raw) = [s \in Section |-> Parse(raw)[s]]
  BY DEF Parse
<1>3. PICK said : said = Parse(raw)
  OBVIOUS
<1>4. said \in [Section -> {None} \cup [CfgOption -> Setting \cup {None}]] /\ \A s \in Section : Said(raw, s, said[s])
  BY <1>1, <1>2, <1>3, ParseSays
<1>5. AllSaid(raw, said)
  BY <1>4 DEF AllSaid
<1>6. ASSUME AllSaid(raw, parsed) PROVE parsed = said
  <2>1. \A s \in Section : parsed[s] = said[s]
    BY <1>4, <1>6, SaidOnce DEF AllSaid
  <2> QED BY <1>4, <1>6, <2>1 DEF AllSaid
<1> QED BY <1>3, <1>5, <1>6

LEMMA ReadIsConsistent ==
  ASSUME NEW raw, RawOK(raw)
  PROVE  Consistent(raw, Parse(raw), [s \in Section |-> FilesOf(raw, s)],
                    [s \in Section |-> [o \in CfgOption |-> FilesWith(raw, s, o)]])
<1>1. PICK secs, opts : /\ secs = [s \in Section |-> FilesOf(raw, s)]
                        /\ opts = [s \in Section |-> [o \in CfgOption |-> FilesWith(raw, s, o)]]
  OBVIOUS
<1>2. DOMAIN secs = Section /\ DOMAIN opts = Section
  BY <1>1
<1>3. ASSUME NEW s \in Section PROVE RecordedAt(raw, s, secs[s], opts[s])
  <2>1. secs[s] = FilesOf(raw, s) /\ DOMAIN opts[s] = CfgOption
        /\ \A o \in CfgOption : opts[s][o] = FilesWith(raw, s, o)
    BY <1>1
  <2>2. \A o \in CfgOption : FilesWith(raw, s, o) = {f \in ConfigFiles : HasOption(raw, f, s, o)}
    BY HasPlaces DEF FilesWith
  <2> QED BY <2>1, <2>2 DEF RecordedAt, FilesOf
<1>4. AllSaid(raw, Parse(raw))
  BY ParsedIsParse
<1> QED BY <1>1, <1>2, <1>3, <1>4 DEF Consistent, Recorded

LEMMA ConfigBegins ==
  ASSUME HostInit, ConfigFileInit
  PROVE  SourceOK
<1>1. DOMAIN pc = Task /\ pc["worker"] = "idle"
  BY CfgNames DEF HostInit
<1>2. /\ cfgRaw = cfgDisk /\ cfgParsed = Parse(cfgRaw) /\ cfgPending = {} /\ cfgBackup = None /\ cfgWriting = None
      /\ sectionFiles = [s \in Section |-> FilesOf(cfgRaw, s)]
      /\ optionFiles = [s \in Section |-> [o \in CfgOption |-> FilesWith(cfgRaw, s, o)]]
  BY DEF ConfigFileInit
<1>3. RawOK(cfgDisk)
  <2> DEFINE Own0 == [NoSections EXCEPT !["server"] = <<OptionLine("a", 1, FALSE)>>]
             Included == [server : {None, <<OptionLine("a", 2, FALSE)>>}, extra : {None} \cup {TwoLines(b) : b \in BOOLEAN}]
             First(included) == [f \in ConfigFiles |-> CASE f = 0 -> Own0 [] f = 1 -> [s \in Section |-> included[s]]]
  <2>1. cfgDisk \in Among({First(included) : included \in Included}, "configfile")
    BY DEF ConfigFileInit
  <2>2. [server |-> None, extra |-> None] \in Included
    OBVIOUS
  <2>3. PICK included \in Included : cfgDisk = First(included)
    <3>1. ASSUME NEW S, S # {}, cfgDisk \in Among(S, "configfile") PROVE cfgDisk \in S
      BY <3>1 DEF Among
    <3> HIDE DEF First, Included
    <3>2. {First(included) : included \in Included} # {}
      BY <2>2
    <3>3. cfgDisk \in {First(included) : included \in Included}
      BY <2>1, <3>1, <3>2
    <3> QED BY <3>3
  <2>4. /\ cfgDisk \in [ConfigFiles -> [Section -> {None} \cup Seq(ConfigLine)]]
        /\ cfgDisk[0]["server"] = <<OptionLine("a", 1, FALSE)>> /\ cfgDisk[0]["extra"] = None
        /\ cfgDisk[1]["server"] \in {None, <<OptionLine("a", 2, FALSE)>>}
        /\ cfgDisk[1]["extra"] \in {None} \cup {TwoLines(b) : b \in BOOLEAN}
    <3>1. /\ OptionLine("a", 1, FALSE) \in ConfigLine /\ OptionLine("a", 2, FALSE) \in ConfigLine
          /\ \A b \in BOOLEAN : OptionLine("b", 1, b) \in ConfigLine
      BY CfgNames DEF OptionLine, ConfigLine
    <3>2. /\ <<OptionLine("a", 1, FALSE)>> \in Seq(ConfigLine) /\ <<OptionLine("a", 2, FALSE)>> \in Seq(ConfigLine)
          /\ \A b \in BOOLEAN : TwoLines(b) \in Seq(ConfigLine)
      <4>1. ASSUME NEW l \in ConfigLine, NEW m \in ConfigLine
            PROVE  <<l>> \in Seq(ConfigLine) /\ <<l, m>> \in Seq(ConfigLine)
        OBVIOUS
      <4> QED BY <3>1, <4>1 DEF TwoLines
    <3>3. /\ Own0 \in [Section -> {None} \cup Seq(ConfigLine)]
          /\ Own0["server"] = <<OptionLine("a", 1, FALSE)>> /\ Own0["extra"] = None
      BY <3>2, CfgNames DEF NoSections
    <3>4. /\ [s \in Section |-> included[s]] \in [Section -> {None} \cup Seq(ConfigLine)]
          /\ included["server"] \in {None, <<OptionLine("a", 2, FALSE)>>}
          /\ included["extra"] \in {None} \cup {TwoLines(b) : b \in BOOLEAN}
      BY <3>2, CfgNames
    <3>5. cfgDisk[0] = Own0 /\ cfgDisk[1] = [s \in Section |-> included[s]] /\ DOMAIN cfgDisk = ConfigFiles
          /\ cfgDisk = [f \in ConfigFiles |-> cfgDisk[f]]
      BY <2>3 DEF ConfigFiles
    <3> HIDE DEF Own0, Included, First
    <3> QED BY <3>3, <3>4, <3>5, CfgNames
  <2>5. ASSUME NEW f \in ConfigFiles, NEW s \in Section, cfgDisk[f][s] # None,
               NEW i \in DOMAIN cfgDisk[f][s], NEW j \in DOMAIN cfgDisk[f][s],
               cfgDisk[f][s][i].option = cfgDisk[f][s][j].option
        PROVE  i = j
    <3> HIDE DEF Own0, Included, First
    <3>1. CASE \E l : cfgDisk[f][s] = <<l>>
      BY <2>5, <3>1
    <3>2. CASE \E b \in BOOLEAN : cfgDisk[f][s] = TwoLines(b)
      BY <2>5, <3>2 DEF TwoLines, OptionLine
    <3> QED BY <2>4, <2>5, <3>1, <3>2, CfgNames
  <2> HIDE DEF Own0, Included, First
  <2> QED BY <2>4, <2>5 DEF RawOK
<1>4. Consistent(cfgRaw, cfgParsed, sectionFiles, optionFiles)
  BY <1>2, <1>3, ReadIsConsistent
<1> QED BY <1>1, <1>2, <1>3, <1>4 DEF SourceOK, SavesOK, TextsOK

LEMMA ConfigServes ==
  ASSUME SourceOK
  PROVE  ConfigMatchesFiles
<1>1. SUFFICES ASSUME Unlocked, ~cfgStrayed
               PROVE  /\ cfgParsed = Parse(cfgRaw)
                      /\ \A s \in Section : sectionFiles[s] = FilesOf(cfgRaw, s)
                      /\ \A f \in ConfigFiles \ cfgPending : cfgDisk[f] = cfgRaw[f]
  BY DEF ConfigMatchesFiles
<1>2. pc["worker"] = "idle"
  BY <1>1 DEF Unlocked, Idle
<1>3. /\ Consistent(cfgRaw, cfgParsed, sectionFiles, optionFiles)
      /\ \A f \in ConfigFiles \ cfgPending : cfgDisk[f] = cfgRaw[f]
  BY <1>1, <1>2 DEF SourceOK, TextsOK
<1>4. cfgParsed = Parse(cfgRaw)
  BY <1>3, ParsedIsParse DEF Consistent
<1>5. \A s \in Section : sectionFiles[s] = FilesOf(cfgRaw, s)
  BY <1>3 DEF Consistent, Recorded, RecordedAt, FilesOf
<1> QED BY <1>3, <1>4, <1>5

-----------------------------------------------------------------------------
(* Lines *)
OnceIn(lines) == \A i, j \in DOMAIN lines : lines[i].option = lines[j].option => i = j

LEMMA LineAdded ==
  ASSUME NEW lines \in Seq(ConfigLine), OnceIn(lines), NEW l \in ConfigLine,
         \A i \in DOMAIN lines : lines[i].option # l.option
  PROVE  \E new \in Seq(ConfigLine) :
           /\ new = Append(lines, l) /\ OnceIn(new)
           /\ \E i \in DOMAIN new : new[i].option = l.option
           /\ \A i \in DOMAIN new : new[i].option = l.option => new[i] = l
           /\ \A i \in DOMAIN new : new[i].option # l.option => i \in DOMAIN lines /\ lines[i] = new[i]
           /\ \A i \in DOMAIN lines : lines[i].option # l.option => i \in DOMAIN new /\ lines[i] = new[i]
<1>0. PICK new : new = Append(lines, l)
  OBVIOUS
<1>1. /\ new \in Seq(ConfigLine) /\ DOMAIN lines = 1..Len(lines) /\ Len(lines) \in Nat
      /\ DOMAIN new = 1..(Len(lines) + 1) /\ new[Len(lines) + 1] = l
      /\ \A i \in DOMAIN lines : new[i] = lines[i]
  BY <1>0
<1>2. \A i \in DOMAIN new : i = Len(lines) + 1 \/ i \in DOMAIN lines
  BY <1>1
<1>3. OnceIn(new)
  BY <1>1, <1>2 DEF OnceIn
<1>4. new[Len(lines) + 1].option = l.option /\ Len(lines) + 1 \in DOMAIN new
  BY <1>1
<1>5. \A i \in DOMAIN lines : i \in DOMAIN new /\ new[i].option # l.option
  BY <1>1
<1>6. \A i \in DOMAIN new : new[i].option = l.option => new[i] = l
  BY <1>1, <1>2, <1>5
<1> QED BY <1>0, <1>1, <1>2, <1>3, <1>4, <1>5, <1>6

LEMMA Around ==
  ASSUME NEW lines \in Seq(ConfigLine), NEW i \in DOMAIN lines
  PROVE  \E prefix, after \in Seq(ConfigLine) :
           /\ prefix = SubSeq(lines, 1, i - 1) /\ after = SubSeq(lines, i + 1, Len(lines))
           /\ Len(prefix) = i - 1 /\ \A k \in 1..(i - 1) : prefix[k] = lines[k]
           /\ Len(after) = Len(lines) - i /\ \A k \in 1..(Len(lines) - i) : after[k] = lines[i + k]
<1>1. i \in Nat /\ 1 <= i /\ i <= Len(lines) /\ Len(lines) \in Nat /\ \A k \in 1..Len(lines) : lines[k] \in ConfigLine
  OBVIOUS
<1>2. PICK m, n, e : m = i - 1 /\ n = i + 1 /\ e = Len(lines)
  OBVIOUS
<1>3. /\ \A k \in 1..m : lines[k] \in ConfigLine
      /\ \A k \in n..e : lines[k] \in ConfigLine
      /\ {1, m, n, e} \subseteq Int
  BY <1>1, <1>2
<1>4. /\ SubSeq(lines, 1, m) \in Seq(ConfigLine)
      /\ Len(SubSeq(lines, 1, m)) = IF 1 <= m THEN m - 1 + 1 ELSE 0
      /\ \A k \in 1..(m - 1 + 1) : SubSeq(lines, 1, m)[k] = lines[1 + k - 1]
  BY <1>3, SubSeqProperties
<1>5. /\ SubSeq(lines, n, e) \in Seq(ConfigLine)
      /\ Len(SubSeq(lines, n, e)) = IF n <= e THEN e - n + 1 ELSE 0
      /\ \A k \in 1..(e - n + 1) : SubSeq(lines, n, e)[k] = lines[n + k - 1]
  BY <1>3, SubSeqProperties
<1>6. PICK prefix, after : prefix = SubSeq(lines, 1, m) /\ after = SubSeq(lines, n, e)
  OBVIOUS
<1>7. prefix \in Seq(ConfigLine) /\ Len(prefix) = i - 1 /\ \A k \in 1..(i - 1) : prefix[k] = lines[k]
  BY <1>1, <1>2, <1>4, <1>6
<1>8. after \in Seq(ConfigLine) /\ Len(after) = Len(lines) - i /\ \A k \in 1..(Len(lines) - i) : after[k] = lines[i + k]
  <2>1. Len(after) = Len(lines) - i
    BY <1>1, <1>2, <1>5, <1>6
  <2>2. ASSUME NEW k \in 1..(Len(lines) - i) PROVE after[k] = lines[i + k]
    <3>1. k \in 1..(e - n + 1) /\ n + k - 1 = i + k
      BY <1>1, <1>2, <2>2
    <3> QED BY <1>5, <1>6, <3>1
  <2> QED BY <1>5, <1>6, <2>1, <2>2
<1> QED BY <1>2, <1>6, <1>7, <1>8

LEMMA LineReplaced ==
  ASSUME NEW lines \in Seq(ConfigLine), OnceIn(lines), NEW l \in ConfigLine, NEW i \in DOMAIN lines,
         lines[i].option = l.option, ~TakesMore(lines, i), NEW new, new = LinesReplaced(lines, i, <<l>>)
  PROVE  /\ new \in Seq(ConfigLine) /\ OnceIn(new)
         /\ \E k \in DOMAIN new : new[k].option = l.option
         /\ \A k \in DOMAIN new : new[k].option = l.option => new[k] = l
         /\ \A k \in DOMAIN new : new[k].option # l.option => k \in DOMAIN lines /\ lines[k] = new[k]
         /\ \A k \in DOMAIN lines : lines[k].option # l.option => k \in DOMAIN new /\ lines[k] = new[k]
<1>1. LastLine(lines, i) = i /\ i \in Nat /\ 1 <= i /\ i <= Len(lines) /\ Len(lines) \in Nat
  BY DEF TakesMore
<1>2. PICK prefix, after \in Seq(ConfigLine) :
        /\ prefix = SubSeq(lines, 1, i - 1) /\ after = SubSeq(lines, i + 1, Len(lines))
        /\ Len(prefix) = i - 1 /\ \A k \in 1..(i - 1) : prefix[k] = lines[k]
        /\ Len(after) = Len(lines) - i /\ \A k \in 1..(Len(lines) - i) : after[k] = lines[i + k]
  BY Around
<1>3. /\ prefix \in Seq(ConfigLine) /\ Len(prefix) = i - 1 /\ \A k \in 1..(i - 1) : prefix[k] = lines[k]
      /\ after \in Seq(ConfigLine) /\ Len(after) = Len(lines) - i
      /\ \A k \in 1..(Len(lines) - i) : after[k] = lines[i + k]
  BY <1>2
<1>5. PICK some : some = prefix \o <<l>>
  OBVIOUS
<1>4. PICK joined : joined = some \o after
  OBVIOUS
<1>6. /\ some \in Seq(ConfigLine) /\ Len(some) = i /\ some[i] = l /\ \A k \in 1..(i - 1) : some[k] = lines[k]
  BY <1>1, <1>3, <1>5
<1>16. /\ joined \in Seq(ConfigLine) /\ Len(joined) = Len(some) + Len(after)
       /\ \A k \in 1..Len(some) : joined[k] = some[k]
       /\ \A k \in (Len(some) + 1)..(Len(some) + Len(after)) : joined[k] = after[k - Len(some)]
  <2>1. joined = some \o after
    BY <1>4
  <2>2. some \in Seq(ConfigLine) /\ after \in Seq(ConfigLine) /\ Len(some) \in Nat /\ Len(after) \in Nat
    BY <1>3, <1>6
  <2>3. joined \in Seq(ConfigLine) /\ Len(joined) = Len(some) + Len(after)
    BY <2>1, <2>2
  <2>4. ASSUME NEW k \in 1..Len(some) PROVE joined[k] = some[k]
    BY <2>1, <2>2, <2>4
  <2>5. ASSUME NEW k \in (Len(some) + 1)..(Len(some) + Len(after)) PROVE joined[k] = after[k - Len(some)]
    BY <2>1, <2>2, <2>5
  <2> QED BY <2>3, <2>4, <2>5
<1>7. /\ joined \in Seq(ConfigLine) /\ Len(joined) = Len(lines) /\ joined[i] = l
      /\ \A k \in 1..Len(lines) : k # i => joined[k] = lines[k]
  <2>1. joined \in Seq(ConfigLine) /\ Len(joined) = Len(lines)
    BY <1>1, <1>3, <1>6, <1>16
  <2>2. \A k \in 1..i : joined[k] = some[k]
    BY <1>1, <1>3, <1>6, <1>16
  <2>3. ASSUME NEW k \in 1..Len(lines), k > i PROVE joined[k] = lines[k]
    <3>1. k - i \in 1..(Len(lines) - i) /\ k = i + (k - i)
      BY <1>1, <2>3
    <3>2. joined[k] = after[k - i]
      <4>1. k \in (Len(some) + 1)..(Len(some) + Len(after)) /\ k - Len(some) = k - i
        BY <1>1, <1>3, <1>6, <2>3
      <4> QED BY <1>16, <4>1
    <3> QED BY <1>3, <3>1, <3>2
  <2>4. joined[i] = l
    BY <1>1, <1>6, <2>2
  <2>5. ASSUME NEW k \in 1..Len(lines), k # i PROVE joined[k] = lines[k]
    <3>1. CASE k < i
      BY <1>1, <1>6, <2>2, <3>1
    <3>2. CASE k > i
      BY <2>3, <3>2
    <3> QED BY <1>1, <2>5, <3>1, <3>2
  <2> QED BY <2>1, <2>4, <2>5
<1>8. DOMAIN joined = DOMAIN lines
  BY <1>7
<1>9. \A k \in DOMAIN joined : joined[k].option = lines[k].option
  <2>1. \A k \in DOMAIN joined : k = i \/ joined[k] = lines[k]
    <3>1. DOMAIN joined = 1..Len(lines)
      BY <1>7
    <3> QED BY <1>7, <3>1
  <2> QED BY <1>7, <2>1
<1>10. OnceIn(joined)
  BY <1>8, <1>9 DEF OnceIn
<1>11. \A k \in DOMAIN joined : joined[k].option = l.option => k = i
  BY <1>8, <1>9 DEF OnceIn
<1>12. new = joined
  BY <1>1, <1>2, <1>4, <1>5 DEF LinesReplaced
<1>13. \A k \in DOMAIN joined : joined[k].option # l.option => lines[k] = joined[k]
  BY <1>7, <1>8
<1>14. \A k \in DOMAIN lines : lines[k].option # l.option => lines[k] = joined[k]
  BY <1>8, <1>9, <1>13
<1> QED BY <1>7, <1>8, <1>10, <1>11, <1>12, <1>13, <1>14

LEMMA LineRemoved ==
  ASSUME NEW lines \in Seq(ConfigLine), OnceIn(lines), NEW i \in DOMAIN lines, NEW o,
         lines[i].option = o, ~TakesMore(lines, i), NEW new, new = LinesReplaced(lines, i, <<>>)
  PROVE  /\ new \in Seq(ConfigLine) /\ OnceIn(new)
         /\ \A k \in DOMAIN new : new[k].option # o /\ \E j \in DOMAIN lines : new[k] = lines[j]
         /\ \A j \in DOMAIN lines : lines[j].option # o => \E k \in DOMAIN new : new[k] = lines[j]
<1>1. LastLine(lines, i) = i /\ i \in Nat /\ 1 <= i /\ i <= Len(lines) /\ Len(lines) \in Nat
  BY DEF TakesMore
<1>2. PICK prefix, after \in Seq(ConfigLine) :
        /\ prefix = SubSeq(lines, 1, i - 1) /\ after = SubSeq(lines, i + 1, Len(lines))
        /\ Len(prefix) = i - 1 /\ \A k \in 1..(i - 1) : prefix[k] = lines[k]
        /\ Len(after) = Len(lines) - i /\ \A k \in 1..(Len(lines) - i) : after[k] = lines[i + k]
  BY Around
<1>3. /\ prefix \in Seq(ConfigLine) /\ Len(prefix) = i - 1 /\ \A k \in 1..(i - 1) : prefix[k] = lines[k]
      /\ after \in Seq(ConfigLine) /\ Len(after) = Len(lines) - i
      /\ \A k \in 1..(Len(lines) - i) : after[k] = lines[i + k]
  BY <1>2
<1>4. PICK joined : joined = prefix \o after
  OBVIOUS
<1>5. prefix \o <<>> = prefix
  BY <1>3
<1>16. /\ joined \in Seq(ConfigLine) /\ Len(joined) = Len(prefix) + Len(after)
       /\ \A k \in 1..Len(prefix) : joined[k] = prefix[k]
       /\ \A k \in (Len(prefix) + 1)..(Len(prefix) + Len(after)) : joined[k] = after[k - Len(prefix)]
  <2>1. joined = prefix \o after
    BY <1>4
  <2>2. prefix \in Seq(ConfigLine) /\ after \in Seq(ConfigLine) /\ Len(prefix) \in Nat /\ Len(after) \in Nat
    BY <1>3
  <2>3. joined \in Seq(ConfigLine) /\ Len(joined) = Len(prefix) + Len(after)
    BY <2>1, <2>2
  <2>4. ASSUME NEW k \in 1..Len(prefix) PROVE joined[k] = prefix[k]
    BY <2>1, <2>2, <2>4
  <2>5. ASSUME NEW k \in (Len(prefix) + 1)..(Len(prefix) + Len(after)) PROVE joined[k] = after[k - Len(prefix)]
    BY <2>1, <2>2, <2>5
  <2> QED BY <2>3, <2>4, <2>5
<1>6. joined \in Seq(ConfigLine) /\ Len(joined) = Len(lines) - 1
  BY <1>1, <1>3, <1>16
<1>7. \A k \in 1..(i - 1) : joined[k] = lines[k]
  BY <1>1, <1>3, <1>16
<1>8. ASSUME NEW k \in i..(Len(lines) - 1) PROVE joined[k] = lines[k + 1]
  <2>1. k - (i - 1) \in 1..(Len(lines) - i) /\ k + 1 = i + (k - (i - 1))
    BY <1>1, <1>8
  <2>2. joined[k] = after[k - (i - 1)]
    <3>1. k \in (Len(prefix) + 1)..(Len(prefix) + Len(after)) /\ k - Len(prefix) = k - (i - 1)
      BY <1>1, <1>3, <1>8
    <3> QED BY <1>16, <3>1
  <2> QED BY <1>3, <2>1, <2>2
<1>9. DOMAIN joined = 1..(Len(lines) - 1) /\ DOMAIN lines = 1..Len(lines)
  BY <1>1, <1>6
<1>10. ASSUME NEW k \in DOMAIN joined
       PROVE  \E j \in DOMAIN lines : j = (IF k < i THEN k ELSE k + 1) /\ j # i /\ joined[k] = lines[j]
  BY <1>1, <1>7, <1>8, <1>9, <1>10
<1>11. OnceIn(joined)
  <2>1. SUFFICES ASSUME NEW k \in DOMAIN joined, NEW n \in DOMAIN joined, joined[k].option = joined[n].option PROVE k = n
    BY DEF OnceIn
  <2>2. PICK j \in DOMAIN lines : j = (IF k < i THEN k ELSE k + 1) /\ joined[k] = lines[j]
    BY <1>10
  <2>3. PICK m \in DOMAIN lines : m = (IF n < i THEN n ELSE n + 1) /\ joined[n] = lines[m]
    BY <1>10
  <2>4. j = m
    BY <2>1, <2>2, <2>3 DEF OnceIn
  <2>5. k \in Nat /\ n \in Nat /\ i \in Nat
    BY <1>1, <1>9
  <2>6. (IF k < i THEN k ELSE k + 1) = (IF n < i THEN n ELSE n + 1)
    BY <2>2, <2>3, <2>4
  <2> QED BY <2>5, <2>6
<1>12. ASSUME NEW k \in DOMAIN joined PROVE joined[k].option # o /\ \E j \in DOMAIN lines : joined[k] = lines[j]
  BY <1>10 DEF OnceIn
<1>13. ASSUME NEW j \in DOMAIN lines, lines[j].option # o PROVE \E k \in DOMAIN joined : joined[k] = lines[j]
  <2>1. j # i
    BY <1>13
  <2>2. CASE j < i
    <3>1. j \in 1..(i - 1) /\ j \in 1..(Len(lines) - 1)
      BY <1>1, <1>9, <2>2
    <3>2. joined[j] = lines[j]
      BY <1>7, <3>1
    <3> QED BY <1>9, <3>1, <3>2
  <2>3. CASE j > i
    <3>1. j - 1 \in i..(Len(lines) - 1) /\ (j - 1) + 1 = j
      BY <1>1, <1>9, <2>3
    <3>2. joined[j - 1] = lines[j]
      BY <1>8, <3>1
    <3>3. j - 1 \in 1..(Len(lines) - 1)
      BY <1>1, <3>1
    <3> QED BY <1>9, <3>2, <3>3
  <2> QED BY <1>1, <1>9, <2>1, <2>2, <2>3
<1>14. new = joined
  BY <1>1, <1>2, <1>4, <1>5 DEF LinesReplaced
<1> QED BY <1>6, <1>11, <1>12, <1>13, <1>14
-----------------------------------------------------------------------------
(* One section is edited. *)
LEMMA SectionEdited ==
  ASSUME NEW raw, NEW parsed, NEW secs, NEW opts, Consistent(raw, parsed, secs, opts), NEW s \in Section,
         NEW raw2, NEW parsed2, NEW secs2, NEW opts2, RawOK(raw2),
         \A f \in ConfigFiles, t \in Section \ {s} : raw2[f][t] = raw[f][t],
         parsed2 \in [Section -> {None} \cup [CfgOption -> Setting \cup {None}]],
         \A t \in Section \ {s} : parsed2[t] = parsed[t],
         DOMAIN secs2 = Section, \A t \in Section \ {s} : secs2[t] = secs[t],
         DOMAIN opts2 = Section, \A t \in Section \ {s} : opts2[t] = opts[t],
         Said(raw2, s, parsed2[s]), RecordedAt(raw2, s, secs2[s], opts2[s])
  PROVE  Consistent(raw2, parsed2, secs2, opts2)
<1>1. AllSaid(raw, parsed) /\ Recorded(raw, secs, opts)
  BY DEF Consistent
<1>4. ASSUME NEW t \in Section PROVE Said(raw2, t, parsed2[t]) /\ RecordedAt(raw2, t, secs2[t], opts2[t])
  <2>1. CASE t = s
    BY <2>1
  <2>2. CASE t # s
    <3>1. Said(raw, t, parsed[t]) /\ RecordedAt(raw, t, secs[t], opts[t])
      BY <1>1 DEF AllSaid, Recorded
    <3>2. \A f \in ConfigFiles : raw2[f][t] = raw[f][t]
      BY <2>2
    <3>3. \A f \in ConfigFiles, o \in CfgOption : HasOption(raw2, f, t, o) <=> HasOption(raw, f, t, o)
      BY <3>2 DEF HasOption
    <3>4. \A f \in ConfigFiles, o \in CfgOption : Deciding(raw2, f, t, o) <=> Deciding(raw, f, t, o)
      BY <3>3 DEF Deciding
    <3>5. Said(raw2, t, parsed[t])
      BY <3>1, <3>2, <3>3, <3>4 DEF Said
    <3>6. RecordedAt(raw2, t, secs[t], opts[t])
      BY <3>1, <3>2, <3>3 DEF RecordedAt
    <3> QED BY <2>2, <3>5, <3>6
  <2> QED BY <2>1, <2>2
<1> QED BY <1>4 DEF Consistent, AllSaid, Recorded

(* What the state is about, when the main file does not change its order *)
LEMMA TextsThen ==
  ASSUME UNCHANGED includeFirst, NEW raw, NEW parsed, NEW secs, NEW opts, Consistent(raw, parsed, secs, opts),
         cfgRaw' = raw, cfgParsed' = parsed, sectionFiles' = secs, optionFiles' = opts
  PROVE  Consistent(cfgRaw, cfgParsed, sectionFiles, optionFiles)'
<1>1. RawOK(cfgRaw)'
  BY DEF Consistent, RawOK
<1>2. \A f \in ConfigFiles, s \in Section, o \in CfgOption :
        /\ HasOption(cfgRaw, f, s, o)' <=> HasOption(raw, f, s, o)
        /\ Deciding(cfgRaw, f, s, o)' <=> Deciding(raw, f, s, o)
  BY DEF HasOption, Deciding, LastRead
<1>3. ASSUME NEW s \in Section PROVE Said(cfgRaw, s, cfgParsed[s])'
  <2>1. Said(raw, s, parsed[s])
    BY DEF Consistent, AllSaid
  <2> QED BY <1>2, <2>1 DEF Said
<1>4. ASSUME NEW s \in Section PROVE RecordedAt(cfgRaw, s, sectionFiles[s], optionFiles[s])'
  <2>1. RecordedAt(raw, s, secs[s], opts[s])
    BY DEF Consistent, Recorded
  <2> QED BY <1>2, <2>1 DEF RecordedAt
<1>5. AllSaid(cfgRaw, cfgParsed)'
  BY <1>3 DEF Consistent, AllSaid
<1>6. Recorded(cfgRaw, sectionFiles, optionFiles)'
  BY <1>4 DEF Consistent, Recorded
<1> QED BY <1>1, <1>5, <1>6 DEF Consistent

LEMMA BackupThen ==
  ASSUME UNCHANGED includeFirst, NEW raw, NEW parsed, NEW secs, NEW opts, Consistent(raw, parsed, secs, opts),
         cfgBackup'.raw = raw, cfgBackup'.parsed = parsed, cfgBackup'.sections = secs, cfgBackup'.options = opts
  PROVE  Consistent(cfgBackup.raw, cfgBackup.parsed, cfgBackup.sections, cfgBackup.options)'
<1>1. RawOK(cfgBackup.raw)'
  BY DEF Consistent, RawOK
<1>2. \A f \in ConfigFiles, s \in Section, o \in CfgOption :
        /\ HasOption(cfgBackup.raw, f, s, o)' <=> HasOption(raw, f, s, o)
        /\ Deciding(cfgBackup.raw, f, s, o)' <=> Deciding(raw, f, s, o)
  BY DEF HasOption, Deciding, LastRead
<1>3. ASSUME NEW s \in Section PROVE Said(cfgBackup.raw, s, cfgBackup.parsed[s])'
  <2>1. Said(raw, s, parsed[s])
    BY DEF Consistent, AllSaid
  <2> QED BY <1>2, <2>1 DEF Said
<1>4. ASSUME NEW s \in Section PROVE RecordedAt(cfgBackup.raw, s, cfgBackup.sections[s], cfgBackup.options[s])'
  <2>1. RecordedAt(raw, s, secs[s], opts[s])
    BY DEF Consistent, Recorded
  <2> QED BY <1>2, <2>1 DEF RecordedAt
<1>5. AllSaid(cfgBackup.raw, cfgBackup.parsed)'
  BY <1>3 DEF Consistent, AllSaid
<1>6. Recorded(cfgBackup.raw, cfgBackup.sections, cfgBackup.options)'
  BY <1>4 DEF Consistent, Recorded
<1> QED BY <1>1, <1>5, <1>6 DEF Consistent

(* An edit, of which it is known what it leaves, but for one that strays *)
LEMMA EditKeeps ==
  ASSUME SourceOK, Edits, UNCHANGED cfgBackup, cfgStrayed => cfgStrayed',
         NEW changed, cfgPending' = cfgPending \cup changed,
         ~cfgStrayed' => /\ Consistent(cfgRaw, cfgParsed, sectionFiles, optionFiles)'
                         /\ \A f \in ConfigFiles \ changed : cfgRaw'[f] = cfgRaw[f]
  PROVE  SourceOK'
<1>1. SavesOK /\ TextsOK
  BY DEF SourceOK
<1>2. pc["worker"] = "idle" /\ UNCHANGED <<pc, includeFirst, cfgDisk, cfgWriting>>
  BY DEF Edits, Unlocked, Idle
<1>3. SavesOK'
  BY <1>1, <1>2 DEF SavesOK
<1>4. ASSUME ~cfgStrayed', cfgBackup # None
      PROVE  /\ cfgBackup.raw = cfgDisk
             /\ Consistent(cfgBackup.raw, cfgBackup.parsed, cfgBackup.sections, cfgBackup.options)'
  <2>1. /\ cfgBackup.raw = cfgDisk
        /\ Consistent(cfgBackup.raw, cfgBackup.parsed, cfgBackup.sections, cfgBackup.options)
    BY <1>1, <1>4 DEF TextsOK
  <2>2. Consistent(cfgBackup.raw, cfgBackup.parsed, cfgBackup.sections, cfgBackup.options)'
    <3>1. PICK raw, parsed, secs, opts : /\ raw = cfgBackup.raw /\ parsed = cfgBackup.parsed
                                         /\ secs = cfgBackup.sections /\ opts = cfgBackup.options
      OBVIOUS
    <3>2. Consistent(raw, parsed, secs, opts)
      BY <2>1, <3>1
    <3>3. /\ cfgBackup'.raw = raw /\ cfgBackup'.parsed = parsed
          /\ cfgBackup'.sections = secs /\ cfgBackup'.options = opts
      BY <3>1
    <3> QED BY <1>2, <3>2, <3>3, BackupThen
  <2> QED BY <2>1, <2>2
<1>5. RawOK(cfgDisk)' <=> RawOK(cfgDisk)
  BY <1>2 DEF RawOK
<1>6. TextsOK'
  BY <1>1, <1>2, <1>4, <1>5 DEF TextsOK
<1> QED BY <1>3, <1>6 DEF SourceOK

LEMMA RawIs ==
  ASSUME NEW raw, RawOK(raw), NEW f \in ConfigFiles, NEW s \in Section
  PROVE  raw[f][s] # None <=> raw[f][s] \in Seq(ConfigLine) /\ OnceIn(raw[f][s])
BY ConfigConstants DEF RawOK, OnceIn, ConfigLine

LEMMA SetKeeps ==
  ASSUME SourceOK, NEW s \in Section, NEW o \in CfgOption, NEW v \in Setting, SetOption(s, o, v)
  PROVE  SourceOK'
<1>1. PICK f : f = FileToEdit(s, o)
  OBVIOUS
<1>2. PICK lines : lines = IF cfgRaw[f][s] = None THEN <<>> ELSE cfgRaw[f][s]
  OBVIOUS
<1>3. PICK l : l = OptionLine(o, v, FALSE)
  OBVIOUS
<1>4. /\ Edits /\ UNCHANGED cfgBackup /\ cfgPending' = cfgPending \cup {f}
      /\ LineFound(cfgRaw[f], s, o) # {} \/ Places(cfgRaw[f], s, o) = {}
  BY <1>1 DEF SetOption
<1>9. PICK changed \in IF LineFound(cfgRaw[f], s, o) = {} THEN {Append(lines, l)}
                      ELSE {LinesReplaced(lines, i, <<l>>) : i \in LineFound(cfgRaw[f], s, o)} :
        cfgRaw' = [cfgRaw EXCEPT ![f][s] = changed]
  BY <1>1, <1>2, <1>3 DEF SetOption
<1>5. /\ sectionFiles' = (IF optionFiles[s][o] = {} /\ sectionFiles[s] = {}
                          THEN [sectionFiles EXCEPT ![s] = {f}] ELSE sectionFiles)
      /\ optionFiles' = (IF optionFiles[s][o] = {} THEN [optionFiles EXCEPT ![s][o] = {f}] ELSE optionFiles)
      /\ cfgParsed' = [cfgParsed EXCEPT ![s] = IF @ = None THEN [p \in CfgOption |-> IF p = o THEN v ELSE None]
                                               ELSE [@ EXCEPT ![o] = v]]
  BY <1>1 DEF SetOption
<1>6. /\ cfgStrayed => cfgStrayed'
      /\ ~cfgStrayed' => \A i \in LineFound(cfgRaw[f], s, o) : ~TakesMore(lines, i)
      /\ ~cfgStrayed' => ~(optionFiles[s][o] # {} /\ f \notin sectionFiles[s])
  BY <1>1, <1>2, Zenon DEF SetOption
<1>7. pc["worker"] = "idle" /\ includeFirst' = includeFirst
  BY <1>4 DEF Edits, Unlocked, Idle
<1>8. ASSUME ~cfgStrayed'
      PROVE  /\ Consistent(cfgRaw, cfgParsed, sectionFiles, optionFiles)'
             /\ \A g \in ConfigFiles \ {f} : cfgRaw'[g] = cfgRaw[g]
  <2>1. Consistent(cfgRaw, cfgParsed, sectionFiles, optionFiles) /\ ~cfgStrayed
    BY <1>6, <1>7, <1>8 DEF SourceOK, TextsOK
  <2>2. /\ RawOK(cfgRaw) /\ AllSaid(cfgRaw, cfgParsed) /\ Recorded(cfgRaw, sectionFiles, optionFiles)
        /\ Said(cfgRaw, s, cfgParsed[s]) /\ RecordedAt(cfgRaw, s, sectionFiles[s], optionFiles[s])
    BY <2>1 DEF Consistent, AllSaid, Recorded
  (* The file that decides *)
  <2>3. /\ optionFiles[s][o] # {} =>
             f \in optionFiles[s][o] /\ (f = LastRead \/ optionFiles[s][o] = {f}) /\ f \in sectionFiles[s]
        /\ optionFiles[s][o] = {} /\ sectionFiles[s] # {} => f \in sectionFiles[s]
        /\ f \in ConfigFiles
    <3>1. optionFiles[s][o] \in SUBSET ConfigFiles /\ sectionFiles[s] \in SUBSET ConfigFiles
      BY <2>2 DEF RecordedAt
    <3>2. CASE optionFiles[s][o] # {}
      <4>1. f = Top(optionFiles[s][o])
        BY <1>1, <3>2 DEF FileToEdit
      <4> QED BY <1>6, <1>8, <3>1, <3>2, <4>1, TopIs
    <3>3. CASE optionFiles[s][o] = {} /\ sectionFiles[s] # {}
      <4>1. f = Top(sectionFiles[s])
        BY <1>1, <3>3 DEF FileToEdit
      <4> QED BY <3>1, <3>3, <4>1, TopIs
    <3>4. CASE optionFiles[s][o] = {} /\ sectionFiles[s] = {}
      BY <1>1, <3>4, CfgNames DEF FileToEdit
    <3> QED BY <3>2, <3>3, <3>4
  (* Its lines *)
  <2>4. lines \in Seq(ConfigLine) /\ OnceIn(lines) /\ l \in ConfigLine /\ l.option = o /\ l.value = v
    <3>1. lines \in Seq(ConfigLine) /\ OnceIn(lines)
      BY <1>2, <2>2, <2>3, RawIs DEF OnceIn
    <3> QED BY <1>3, <3>1 DEF OptionLine, ConfigLine
  <2>5. /\ changed \in Seq(ConfigLine) /\ OnceIn(changed)
        /\ \E i \in DOMAIN changed : changed[i].option = o
        /\ \A i \in DOMAIN changed : changed[i].option = o => changed[i].value = v
        /\ \A i \in DOMAIN changed : changed[i].option # o => i \in DOMAIN lines /\ lines[i] = changed[i]
        /\ \A i \in DOMAIN lines : lines[i].option # o => i \in DOMAIN changed /\ lines[i] = changed[i]
    <3>1. CASE LineFound(cfgRaw[f], s, o) = {}
      <4>1. changed = Append(lines, l) /\ Places(cfgRaw[f], s, o) = {}
        BY <1>4, <1>9, <3>1
      <4>2. ~HasOption(cfgRaw, f, s, o)
        BY <2>2, <2>3, <4>1, HasPlaces
      <4>3. \A i \in DOMAIN lines : lines[i].option # l.option
        BY <1>2, <2>4, <4>2 DEF HasOption
      <4>4. /\ changed \in Seq(ConfigLine) /\ OnceIn(changed)
            /\ \E i \in DOMAIN changed : changed[i].option = l.option
            /\ \A i \in DOMAIN changed : changed[i].option = l.option => changed[i] = l
            /\ \A i \in DOMAIN changed : changed[i].option # l.option => i \in DOMAIN lines /\ lines[i] = changed[i]
            /\ \A i \in DOMAIN lines : lines[i].option # l.option => i \in DOMAIN changed /\ lines[i] = changed[i]
        <5>1. PICK new \in Seq(ConfigLine) :
                /\ new = Append(lines, l) /\ OnceIn(new)
                /\ \E i \in DOMAIN new : new[i].option = l.option
                /\ \A i \in DOMAIN new : new[i].option = l.option => new[i] = l
                /\ \A i \in DOMAIN new : new[i].option # l.option => i \in DOMAIN lines /\ lines[i] = new[i]
                /\ \A i \in DOMAIN lines : lines[i].option # l.option => i \in DOMAIN new /\ lines[i] = new[i]
          BY <2>4, <4>3, LineAdded
        <5>2. changed = new
          BY <4>1, <5>1
        <5> QED BY <5>1, <5>2
      <4> QED BY <2>4, <4>4
    <3>2. CASE LineFound(cfgRaw[f], s, o) # {}
      <4>1. PICK i \in LineFound(cfgRaw[f], s, o) : changed = LinesReplaced(lines, i, <<l>>)
        BY <1>9, <3>2
      <4>2. i \in Places(cfgRaw[f], s, o) /\ ~TakesMore(lines, i)
        BY <1>6, <1>8, <4>1 DEF LineFound
      <4>3. i \in DOMAIN lines /\ lines[i].option = l.option
        BY <1>2, <2>2, <2>3, <2>4, <4>2, HasPlaces
      <4> QED BY <2>4, <4>1, <4>2, <4>3, LineReplaced
    <3> QED BY <3>1, <3>2
  <2>6. PICK raw : raw = cfgRaw'
    OBVIOUS
  <2>7. /\ raw \in [ConfigFiles -> [Section -> {None} \cup Seq(ConfigLine)]]
        /\ raw[f][s] = changed
        /\ \A g \in ConfigFiles, t \in Section : g # f \/ t # s => raw[g][t] = cfgRaw[g][t]
        /\ \A g \in ConfigFiles \ {f} : raw[g] = cfgRaw[g]
    BY <1>9, <2>2, <2>3, <2>5, <2>6 DEF RawOK
  <2>8. changed # None
    BY <2>5, ConfigConstants DEF ConfigLine
  <2>9. RawOK(raw)
    BY <2>2, <2>5, <2>7 DEF RawOK, OnceIn
  <2>10. \A g \in ConfigFiles, p \in CfgOption :
           HasOption(raw, g, s, p) <=> HasOption(cfgRaw, g, s, p) \/ (g = f /\ p = o)
    <3>1. \A g \in ConfigFiles \ {f}, p \in CfgOption : HasOption(raw, g, s, p) <=> HasOption(cfgRaw, g, s, p)
      BY <2>7 DEF HasOption
    <3>2. HasOption(raw, f, s, o)
      BY <2>5, <2>7, <2>8 DEF HasOption
    <3>3. ASSUME NEW p \in CfgOption, p # o PROVE HasOption(raw, f, s, p) <=> HasOption(cfgRaw, f, s, p)
      <4>1. CASE cfgRaw[f][s] = None
        <5>1. DOMAIN lines = {}
          BY <1>2, <4>1
        <5> QED BY <2>5, <2>7, <2>8, <3>3, <4>1, <5>1 DEF HasOption
      <4>2. CASE cfgRaw[f][s] # None
        <5>1. lines = cfgRaw[f][s]
          BY <1>2, <4>2
        <5> QED BY <2>5, <2>7, <2>8, <3>3, <4>2, <5>1 DEF HasOption
      <4> QED BY <4>1, <4>2
    <3> QED BY <3>1, <3>2, <3>3
  (* What is parsed *)
  <2>11. PICK said : said = IF cfgParsed[s] = None THEN [p \in CfgOption |-> IF p = o THEN v ELSE None]
                            ELSE [cfgParsed[s] EXCEPT ![o] = v]
    OBVIOUS
  <2>12. cfgParsed' = [cfgParsed EXCEPT ![s] = said]
    BY <1>5, <2>11
  <2>13. cfgParsed[s] = None <=> \A g \in ConfigFiles : cfgRaw[g][s] = None
    BY <2>2, ConfigConstants DEF Said
  <2>14. /\ said \in [CfgOption -> Setting \cup {None}] /\ said[o] = v
         /\ \A p \in CfgOption \ {o} : said[p] = IF cfgParsed[s] = None THEN None ELSE cfgParsed[s][p]
    <3>1. CASE cfgParsed[s] = None
      BY <2>11, <3>1
    <3>2. CASE cfgParsed[s] # None
      <4>1. cfgParsed[s] \in [CfgOption -> Setting \cup {None}]
        BY <2>2, <2>13, <3>2 DEF Said
      <4> QED BY <2>11, <3>2, <4>1
    <3> QED BY <3>1, <3>2
  <2>15. ASSUME NEW g \in ConfigFiles, raw[g][s] # None, NEW p \in CfgOption, Deciding(raw, g, s, p),
                NEW i \in DOMAIN raw[g][s], raw[g][s][i].option = p
         PROVE  said[p] = raw[g][s][i].value
    <3>1. HasOption(raw, g, s, p)
      BY <2>15 DEF HasOption
    <3>2. CASE p = o
      <4>1. g = f
        <5>1. SUFFICES ASSUME g # f PROVE FALSE
          OBVIOUS
        <5>2. g = LastRead
          BY <2>3, <2>10, <2>15, <3>2, <5>1 DEF Deciding
        <5>3. g \in optionFiles[s][o]
          BY <2>2, <2>10, <3>1, <3>2, <5>1 DEF RecordedAt
        <5> QED BY <2>3, <5>1, <5>2, <5>3
      <4> QED BY <2>5, <2>7, <2>14, <2>15, <3>2, <4>1
    <3>3. CASE p # o
      <4>1. cfgRaw[g][s] # None /\ i \in DOMAIN cfgRaw[g][s] /\ cfgRaw[g][s][i] = raw[g][s][i]
        <5>1. CASE g = f
          <6>1. i \in DOMAIN lines /\ lines[i] = raw[g][s][i]
            BY <2>5, <2>7, <2>15, <3>3, <5>1
          <6>2. lines # <<>>
            BY <6>1
          <6> QED BY <1>2, <5>1, <6>1, <6>2
        <5>2. CASE g # f
          BY <2>7, <2>15, <5>2
        <5> QED BY <5>1, <5>2
      <4>2. Deciding(cfgRaw, g, s, p)
        BY <2>10, <2>15 DEF Deciding
      <4>3. cfgParsed[s] # None /\ said[p] = cfgParsed[s][p]
        BY <2>13, <2>14, <3>3, <4>1
      <4> QED BY <2>2, <2>15, <4>1, <4>2, <4>3 DEF Said
    <3> QED BY <3>2, <3>3
  <2>16. ASSUME NEW p \in CfgOption, \A g \in ConfigFiles : ~HasOption(raw, g, s, p) PROVE said[p] = None
    <3>1. p # o /\ \A g \in ConfigFiles : ~HasOption(cfgRaw, g, s, p)
      BY <2>3, <2>10, <2>16
    <3>2. CASE cfgParsed[s] = None
      BY <2>14, <3>1, <3>2
    <3>3. CASE cfgParsed[s] # None
      BY <2>2, <2>13, <2>14, <3>1, <3>3 DEF Said
    <3> QED BY <3>2, <3>3
  <2>17. Said(raw, s, said)
    BY <2>3, <2>7, <2>8, <2>14, <2>15, <2>16 DEF Said
  (* What is recorded *)
  <2>18. PICK secs, opts : secs = sectionFiles' /\ opts = optionFiles'
    OBVIOUS
  <2>19. /\ DOMAIN secs = Section /\ \A t \in Section \ {s} : secs[t] = sectionFiles[t]
         /\ secs[s] = IF optionFiles[s][o] = {} /\ sectionFiles[s] = {} THEN {f} ELSE sectionFiles[s]
    BY <1>5, <2>2, <2>18 DEF Recorded
  <2>20. /\ DOMAIN opts = Section /\ \A t \in Section \ {s} : opts[t] = optionFiles[t]
         /\ DOMAIN opts[s] = CfgOption /\ \A p \in CfgOption \ {o} : opts[s][p] = optionFiles[s][p]
         /\ opts[s][o] = IF optionFiles[s][o] = {} THEN {f} ELSE optionFiles[s][o]
    BY <1>5, <2>2, <2>18 DEF Recorded, RecordedAt
  <2>21. RecordedAt(raw, s, secs[s], opts[s])
    <3>1. secs[s] \subseteq ConfigFiles /\ \A g \in ConfigFiles : g \in secs[s] <=> raw[g][s] # None
      BY <2>2, <2>3, <2>7, <2>8, <2>19 DEF RecordedAt
    <3>2. ASSUME NEW p \in CfgOption
          PROVE  opts[s][p] \subseteq ConfigFiles /\ \A g \in ConfigFiles : HasOption(raw, g, s, p) => g \in opts[s][p]
      BY <2>2, <2>3, <2>10, <2>20 DEF RecordedAt
    <3> QED BY <2>20, <3>1, <3>2 DEF RecordedAt
  <2>22. PICK parsed : parsed = cfgParsed'
    OBVIOUS
  <2>23. Consistent(raw, parsed, secs, opts)
    <3>1. /\ parsed \in [Section -> {None} \cup [CfgOption -> Setting \cup {None}]] /\ parsed[s] = said
          /\ \A t \in Section \ {s} : parsed[t] = cfgParsed[t]
      BY <2>2, <2>12, <2>14, <2>22 DEF AllSaid
    <3>2. Said(raw, s, parsed[s])
      BY <2>17, <3>1
    <3>3. \A g \in ConfigFiles, t \in Section \ {s} : raw[g][t] = cfgRaw[g][t]
      BY <2>7
    <3>4. /\ DOMAIN secs = Section /\ \A t \in Section \ {s} : secs[t] = sectionFiles[t]
          /\ DOMAIN opts = Section /\ \A t \in Section \ {s} : opts[t] = optionFiles[t]
      BY <2>19, <2>20
    <3> QED BY <2>1, <2>9, <2>21, <3>1, <3>2, <3>3, <3>4, SectionEdited
  <2>24. Consistent(cfgRaw, cfgParsed, sectionFiles, optionFiles)'
    BY <1>7, <2>6, <2>18, <2>22, <2>23, TextsThen
  <2> QED BY <2>6, <2>7, <2>24
<1> QED BY <1>4, <1>6, <1>8, EditKeeps

LEMMA RemoveKeeps ==
  ASSUME SourceOK, NEW s \in Section, NEW o \in CfgOption, RemoveOption(s, o)
  PROVE  SourceOK'
<1>1. PICK F : F = optionFiles[s][o]
  OBVIOUS
<1>2. /\ Edits /\ UNCHANGED cfgBackup /\ F # {} /\ cfgPending' = cfgPending \cup F
      /\ \A f \in F : LineFound(cfgRaw[f], s, o) # {}
      /\ optionFiles' = [optionFiles EXCEPT ![s][o] = {}] /\ sectionFiles' = sectionFiles
      /\ cfgParsed' = IF cfgParsed[s] = None THEN cfgParsed ELSE [cfgParsed EXCEPT ![s][o] = None]
  BY <1>1 DEF RemoveOption, Everywhere
<1>3. cfgRaw' = [f \in ConfigFiles |->
                   IF f \notin F THEN cfgRaw[f]
                   ELSE [cfgRaw[f] EXCEPT
                           ![s] = LinesReplaced(@, CHOOSE i \in LineFound(cfgRaw[f], s, o) : TRUE, <<>>)]]
  BY <1>1, Zenon DEF RemoveOption, Everywhere
<1>4. cfgStrayed' = (cfgStrayed \/ \E f \in F : TakesMore(cfgRaw[f][s], CHOOSE i \in LineFound(cfgRaw[f], s, o) : TRUE))
  BY <1>1, Zenon DEF RemoveOption
<1>5. pc["worker"] = "idle" /\ includeFirst' = includeFirst
  BY <1>2 DEF Edits, Unlocked, Idle
<1>6. ASSUME ~cfgStrayed'
      PROVE  /\ Consistent(cfgRaw, cfgParsed, sectionFiles, optionFiles)'
             /\ \A g \in ConfigFiles \ F : cfgRaw'[g] = cfgRaw[g]
  <2>1. Consistent(cfgRaw, cfgParsed, sectionFiles, optionFiles)
    BY <1>4, <1>5, <1>6 DEF SourceOK, TextsOK
  <2>2. /\ RawOK(cfgRaw) /\ AllSaid(cfgRaw, cfgParsed) /\ Recorded(cfgRaw, sectionFiles, optionFiles)
        /\ Said(cfgRaw, s, cfgParsed[s]) /\ RecordedAt(cfgRaw, s, sectionFiles[s], optionFiles[s])
    BY <2>1 DEF Consistent, AllSaid, Recorded
  <2>3. F \subseteq ConfigFiles /\ \A f \in ConfigFiles \ F : ~HasOption(cfgRaw, f, s, o)
    BY <1>1, <2>2 DEF RecordedAt
  <2>4. PICK raw : raw = cfgRaw'
    OBVIOUS
  <2>5. /\ DOMAIN raw = ConfigFiles /\ raw = [f \in ConfigFiles |-> raw[f]]
        /\ \A f \in ConfigFiles \ F : raw[f] = cfgRaw[f]
    BY <1>3, <2>4
  <2>6. ASSUME NEW f \in F
        PROVE  /\ raw[f] \in [Section -> {None} \cup Seq(ConfigLine)]
               /\ \A t \in Section \ {s} : raw[f][t] = cfgRaw[f][t]
               /\ cfgRaw[f][s] # None /\ raw[f][s] \in Seq(ConfigLine) /\ OnceIn(raw[f][s])
               /\ \A k \in DOMAIN raw[f][s] :
                    raw[f][s][k].option # o /\ \E j \in DOMAIN cfgRaw[f][s] : raw[f][s][k] = cfgRaw[f][s][j]
               /\ \A j \in DOMAIN cfgRaw[f][s] : cfgRaw[f][s][j].option # o =>
                    \E k \in DOMAIN raw[f][s] : raw[f][s][k] = cfgRaw[f][s][j]
    <3>1. PICK i : i = CHOOSE j \in LineFound(cfgRaw[f], s, o) : TRUE
      OBVIOUS
    <3>2. i \in Places(cfgRaw[f], s, o) /\ ~TakesMore(cfgRaw[f][s], i) /\ f \in ConfigFiles
      BY <1>2, <1>4, <1>6, <2>3, <3>1 DEF LineFound
    <3>3. cfgRaw[f][s] # None /\ i \in DOMAIN cfgRaw[f][s] /\ cfgRaw[f][s][i].option = o
      BY <2>2, <3>2, HasPlaces
    <3>4. cfgRaw[f][s] \in Seq(ConfigLine) /\ OnceIn(cfgRaw[f][s]) /\ cfgRaw[f] \in [Section -> {None} \cup Seq(ConfigLine)]
      BY <2>2, <3>2, <3>3, RawIs DEF RawOK
    <3>5. PICK new : new = LinesReplaced(cfgRaw[f][s], i, <<>>)
      OBVIOUS
    <3>6. /\ new \in Seq(ConfigLine) /\ OnceIn(new)
          /\ \A k \in DOMAIN new : new[k].option # o /\ \E j \in DOMAIN cfgRaw[f][s] : new[k] = cfgRaw[f][s][j]
          /\ \A j \in DOMAIN cfgRaw[f][s] : cfgRaw[f][s][j].option # o => \E k \in DOMAIN new : new[k] = cfgRaw[f][s][j]
      BY <3>2, <3>3, <3>4, <3>5, LineRemoved
    <3>7. raw[f] = [cfgRaw[f] EXCEPT ![s] = new]
      BY <1>3, <2>4, <3>1, <3>2, <3>5
    <3>8. raw[f][s] = new /\ raw[f] \in [Section -> {None} \cup Seq(ConfigLine)]
          /\ \A t \in Section \ {s} : raw[f][t] = cfgRaw[f][t]
      BY <3>4, <3>6, <3>7
    <3> QED BY <3>3, <3>6, <3>8
  <2>7. RawOK(raw)
    <3>1. raw \in [ConfigFiles -> [Section -> {None} \cup Seq(ConfigLine)]]
      <4>1. \A f \in ConfigFiles : raw[f] \in [Section -> {None} \cup Seq(ConfigLine)]
        BY <2>2, <2>5, <2>6 DEF RawOK
      <4> QED BY <2>5, <4>1
    <3>2. ASSUME NEW f \in ConfigFiles, NEW t \in Section, raw[f][t] # None PROVE OnceIn(raw[f][t])
      <4>1. CASE f \in F /\ t = s
        BY <2>6, <4>1
      <4>2. CASE ~(f \in F /\ t = s)
        <5>1. raw[f][t] = cfgRaw[f][t]
          BY <2>5, <2>6, <4>2
        <5>2. OnceIn(cfgRaw[f][t])
          BY <2>2, <3>2, <5>1, RawIs
        <5> QED BY <5>1, <5>2
      <4> QED BY <4>1, <4>2
    <3> QED BY <3>1, <3>2 DEF RawOK, OnceIn
  <2>8. \A f \in ConfigFiles : raw[f][s] = None <=> cfgRaw[f][s] = None
    BY <2>5, <2>6, ConfigConstants DEF ConfigLine
  <2>9. \A f \in ConfigFiles, p \in CfgOption : HasOption(raw, f, s, p) <=> HasOption(cfgRaw, f, s, p) /\ p # o
    <3>1. \A f \in ConfigFiles \ F, p \in CfgOption : HasOption(raw, f, s, p) <=> HasOption(cfgRaw, f, s, p) /\ p # o
      BY <2>3, <2>5 DEF HasOption
    <3>2. ASSUME NEW f \in F, NEW p \in CfgOption PROVE HasOption(raw, f, s, p) <=> HasOption(cfgRaw, f, s, p) /\ p # o
      <4>1. raw[f][s] # None /\ cfgRaw[f][s] # None
        BY <2>3, <2>6, <2>8
      <4> QED BY <2>6, <4>1 DEF HasOption
    <3> QED BY <3>1, <3>2
  <2>10. PICK parsed : parsed = cfgParsed'
    OBVIOUS
  <2>11. /\ cfgParsed[s] # None /\ cfgParsed[s] \in [CfgOption -> Setting \cup {None}]
         /\ \E f \in ConfigFiles : cfgRaw[f][s] # None
    <3>1. \E f \in ConfigFiles : cfgRaw[f][s] # None
      BY <1>2, <2>3, <2>6
    <3> QED BY <2>2, <3>1, ConfigConstants DEF Said
  <2>12. /\ parsed \in [Section -> {None} \cup [CfgOption -> Setting \cup {None}]]
         /\ \A t \in Section \ {s} : parsed[t] = cfgParsed[t]
         /\ parsed[s] \in [CfgOption -> Setting \cup {None}] /\ parsed[s][o] = None
         /\ \A p \in CfgOption \ {o} : parsed[s][p] = cfgParsed[s][p]
    <3>1. PICK said : said = [cfgParsed[s] EXCEPT ![o] = None]
      OBVIOUS
    <3>2. /\ said \in [CfgOption -> Setting \cup {None}] /\ said[o] = None
          /\ \A p \in CfgOption \ {o} : said[p] = cfgParsed[s][p]
      BY <2>11, <3>1
    <3>3. parsed = [cfgParsed EXCEPT ![s] = said]
      BY <1>2, <2>10, <2>11, <3>1
    <3> QED BY <2>2, <3>2, <3>3 DEF AllSaid
  <2>13. ASSUME NEW p \in CfgOption, NEW f \in ConfigFiles, raw[f][s] # None, Deciding(raw, f, s, p),
                NEW i \in DOMAIN raw[f][s], raw[f][s][i].option = p
         PROVE  parsed[s][p] = raw[f][s][i].value
    <3>1. p # o /\ HasOption(raw, f, s, p)
      BY <2>9, <2>13 DEF HasOption
    <3>2. Deciding(cfgRaw, f, s, p)
      BY <2>9, <2>13, <3>1 DEF Deciding
    <3>3. PICK j \in DOMAIN cfgRaw[f][s] : raw[f][s][i] = cfgRaw[f][s][j]
      BY <2>5, <2>6, <2>13
    <3>4. cfgParsed[s][p] = cfgRaw[f][s][j].value
      BY <2>2, <2>8, <2>13, <3>2, <3>3 DEF Said
    <3> QED BY <2>12, <3>1, <3>3, <3>4
  <2>14. ASSUME NEW p \in CfgOption, \A f \in ConfigFiles : ~HasOption(raw, f, s, p) PROVE parsed[s][p] = None
    <3>1. CASE p = o
      BY <2>12, <3>1
    <3>2. CASE p # o
      <4>1. \A f \in ConfigFiles : ~HasOption(cfgRaw, f, s, p)
        BY <2>9, <2>14, <3>2
      <4> QED BY <2>2, <2>11, <2>12, <3>2, <4>1 DEF Said
    <3> QED BY <3>1, <3>2
  <2>15. Said(raw, s, parsed[s])
    BY <2>8, <2>11, <2>12, <2>13, <2>14 DEF Said
  <2>16. PICK secs, opts : secs = sectionFiles' /\ opts = optionFiles'
    OBVIOUS
  <2>17. /\ DOMAIN secs = Section /\ \A t \in Section : secs[t] = sectionFiles[t]
         /\ DOMAIN opts = Section /\ \A t \in Section \ {s} : opts[t] = optionFiles[t]
         /\ DOMAIN opts[s] = CfgOption /\ opts[s][o] = {} /\ \A p \in CfgOption \ {o} : opts[s][p] = optionFiles[s][p]
    BY <1>2, <2>2, <2>16 DEF Recorded, RecordedAt
  <2>18. RecordedAt(raw, s, secs[s], opts[s])
    <3>1. ASSUME NEW p \in CfgOption
          PROVE  opts[s][p] \subseteq ConfigFiles /\ \A f \in ConfigFiles : HasOption(raw, f, s, p) => f \in opts[s][p]
      BY <2>2, <2>9, <2>17 DEF RecordedAt
    <3>2. secs[s] \subseteq ConfigFiles /\ \A f \in ConfigFiles : f \in secs[s] <=> raw[f][s] # None
      BY <2>2, <2>8, <2>17 DEF RecordedAt
    <3> QED BY <2>17, <3>1, <3>2 DEF RecordedAt
  <2>19. Consistent(raw, parsed, secs, opts)
    <3>1. \A f \in ConfigFiles, t \in Section \ {s} : raw[f][t] = cfgRaw[f][t]
      BY <2>5, <2>6
    <3> QED BY <2>1, <2>7, <2>12, <2>15, <2>17, <2>18, <3>1, SectionEdited
  <2>20. Consistent(cfgRaw, cfgParsed, sectionFiles, optionFiles)'
    BY <1>5, <2>4, <2>10, <2>16, <2>19, TextsThen
  <2> QED BY <2>4, <2>5, <2>20
<1> QED BY <1>2, <1>4, <1>6, EditKeeps

(* A section is added, or removed, with its lines. *)
LEMMA SectionsKeep ==
  ASSUME SourceOK, NEW s \in Section, AddSection(s) \/ RemoveSection(s)
  PROVE  SourceOK'
<1>1. /\ Edits /\ UNCHANGED <<cfgBackup, cfgStrayed, optionFiles>>
      /\ pc["worker"] = "idle" /\ includeFirst' = includeFirst
  BY DEF AddSection, RemoveSection, Edits, Unlocked, Idle
<1>2. ASSUME ~cfgStrayed, NEW raw, RawOK(raw), NEW parsed, NEW secs, raw = cfgRaw', parsed = cfgParsed', secs = sectionFiles',
             \A f \in ConfigFiles, t \in Section \ {s} : raw[f][t] = cfgRaw[f][t],
             parsed \in [Section -> {None} \cup [CfgOption -> Setting \cup {None}]],
             \A t \in Section \ {s} : parsed[t] = cfgParsed[t],
             DOMAIN secs = Section, \A t \in Section \ {s} : secs[t] = sectionFiles[t],
             \A f \in ConfigFiles, p \in CfgOption : ~HasOption(raw, f, s, p),
             secs[s] \subseteq ConfigFiles, \A f \in ConfigFiles : f \in secs[s] <=> raw[f][s] # None,
             secs[s] = {} => parsed[s] = None,
             secs[s] # {} => \A p \in CfgOption : parsed[s][p] = None,
             secs[s] # {} => parsed[s] \in [CfgOption -> Setting \cup {None}]
      PROVE  Consistent(cfgRaw, cfgParsed, sectionFiles, optionFiles)'
  <2>1. Consistent(cfgRaw, cfgParsed, sectionFiles, optionFiles)
    BY <1>1, <1>2 DEF SourceOK, TextsOK
  <2>2. Recorded(cfgRaw, sectionFiles, optionFiles) /\ RecordedAt(cfgRaw, s, sectionFiles[s], optionFiles[s])
    BY <2>1 DEF Consistent, Recorded
  <2>3. RecordedAt(raw, s, secs[s], optionFiles[s])
    BY <1>2, <2>2 DEF RecordedAt
  <2>4. Said(raw, s, parsed[s])
    <3>1. CASE secs[s] = {}
      BY <1>2, <3>1 DEF Said
    <3>2. CASE secs[s] # {}
      <4>1. /\ parsed[s] \in [CfgOption -> Setting \cup {None}] /\ \A p \in CfgOption : parsed[s][p] = None
            /\ ~(\A f \in ConfigFiles : raw[f][s] = None)
        BY <1>2, <3>2
      <4>2. \A f \in ConfigFiles, p \in CfgOption : raw[f][s] # None =>
              \A i \in DOMAIN raw[f][s] : raw[f][s][i].option # p
        BY <1>2 DEF HasOption
      <4> QED BY <4>1, <4>2 DEF Said
    <3> QED BY <3>1, <3>2
  <2>5. PICK opts : opts = optionFiles
    OBVIOUS
  <2>6. DOMAIN opts = Section
    BY <2>2, <2>5 DEF Recorded
  <2>7. Consistent(raw, parsed, secs, opts)
    BY <1>2, <2>1, <2>3, <2>4, <2>5, <2>6, SectionEdited
  <2> QED BY <1>1, <1>2, <2>5, <2>7, TextsThen
<1>3. CASE AddSection(s)
  <2>1. /\ sectionFiles[s] = {} /\ cfgRaw' = [cfgRaw EXCEPT ![0][s] = <<>>] /\ cfgPending' = cfgPending \cup {0}
        /\ sectionFiles' = [sectionFiles EXCEPT ![s] = {0}]
        /\ cfgParsed' = [cfgParsed EXCEPT ![s] = [o \in CfgOption |-> None]]
    BY <1>3 DEF AddSection
  <2>2. ASSUME ~cfgStrayed
        PROVE  /\ Consistent(cfgRaw, cfgParsed, sectionFiles, optionFiles)'
               /\ \A g \in ConfigFiles \ {0} : cfgRaw'[g] = cfgRaw[g]
    <3>1. /\ RawOK(cfgRaw) /\ AllSaid(cfgRaw, cfgParsed) /\ Recorded(cfgRaw, sectionFiles, optionFiles)
          /\ RecordedAt(cfgRaw, s, sectionFiles[s], optionFiles[s])
      BY <1>1, <2>2 DEF SourceOK, TextsOK, Consistent, Recorded
    <3>2. PICK raw, parsed, secs : raw = cfgRaw' /\ parsed = cfgParsed' /\ secs = sectionFiles'
      OBVIOUS
    <3>3. PICK empty : empty = <<>> /\ empty \in Seq(ConfigLine) /\ DOMAIN empty = {} /\ empty # None
                       /\ 0 \in ConfigFiles
      <4>1. <<>> \in Seq(ConfigLine)
        OBVIOUS
      <4>2. None \notin Seq(ConfigLine)
        BY ConfigConstants
      <4>3. <<>> # None
        BY <4>1, <4>2
      <4>4. DOMAIN <<>> = {}
        OBVIOUS
      <4> QED BY <4>1, <4>3, <4>4, CfgNames
    <3>4. /\ raw \in [ConfigFiles -> [Section -> {None} \cup Seq(ConfigLine)]]
          /\ raw[0][s] = empty /\ \A f \in ConfigFiles \ {0} : raw[f] = cfgRaw[f]
          /\ \A f \in ConfigFiles, t \in Section \ {s} : raw[f][t] = cfgRaw[f][t]
      <4>1. raw = [cfgRaw EXCEPT ![0][s] = empty]
        BY <2>1, <3>2, <3>3
      <4>2. cfgRaw \in [ConfigFiles -> [Section -> {None} \cup Seq(ConfigLine)]]
        BY <3>1 DEF RawOK
      <4> QED BY <3>3, <4>1, <4>2
    <3>5. RawOK(raw)
      <4>1. ASSUME NEW f \in ConfigFiles, NEW t \in Section, raw[f][t] # None PROVE OnceIn(raw[f][t])
        <5>1. CASE f = 0 /\ t = s
          BY <3>3, <3>4, <5>1 DEF OnceIn
        <5>2. CASE ~(f = 0 /\ t = s)
          <6>1. raw[f][t] = cfgRaw[f][t]
            BY <3>4, <5>2
          <6>2. OnceIn(cfgRaw[f][t])
            BY <3>1, <4>1, <6>1, RawIs
          <6> QED BY <6>1, <6>2
        <5> QED BY <5>1, <5>2
      <4> QED BY <3>4, <4>1 DEF RawOK, OnceIn
    <3>6. \A f \in ConfigFiles : cfgRaw[f][s] = None
      BY <2>1, <3>1 DEF RecordedAt
    <3>7. \A f \in ConfigFiles, p \in CfgOption : ~HasOption(raw, f, s, p)
      BY <3>3, <3>4, <3>6 DEF HasOption
    <3>8. /\ parsed \in [Section -> {None} \cup [CfgOption -> Setting \cup {None}]]
          /\ \A t \in Section \ {s} : parsed[t] = cfgParsed[t]
          /\ parsed[s] = [p \in CfgOption |-> None]
      <4>1. PICK none : none = [p \in CfgOption |-> None]
        OBVIOUS
      <4>2. none \in [CfgOption -> Setting \cup {None}] /\ parsed = [cfgParsed EXCEPT ![s] = none]
        BY <2>1, <3>2, <4>1
      <4>3. /\ parsed \in [Section -> {None} \cup [CfgOption -> Setting \cup {None}]]
            /\ \A t \in Section \ {s} : parsed[t] = cfgParsed[t]
            /\ parsed[s] = none
        BY <3>1, <4>2 DEF AllSaid
      <4> QED BY <4>1, <4>3
    <3>9. DOMAIN secs = Section /\ secs[s] = {0} /\ \A t \in Section \ {s} : secs[t] = sectionFiles[t]
      BY <2>1, <3>1, <3>2 DEF Recorded
    <3>10. secs[s] \subseteq ConfigFiles /\ secs[s] # {} /\ \A f \in ConfigFiles : f \in secs[s] <=> raw[f][s] # None
      BY <3>3, <3>4, <3>6, <3>9
    <3>11. Consistent(cfgRaw, cfgParsed, sectionFiles, optionFiles)'
      <4>1. parsed[s] \in [CfgOption -> Setting \cup {None}] /\ \A p \in CfgOption : parsed[s][p] = None
        BY <3>8
      <4>2. \A t \in Section \ {s} : parsed[t] = cfgParsed[t]
        BY <3>8
      <4>3. parsed \in [Section -> {None} \cup [CfgOption -> Setting \cup {None}]]
        BY <3>8
      <4>4. \A f \in ConfigFiles, t \in Section \ {s} : raw[f][t] = cfgRaw[f][t]
        BY <3>4
      <4>5. DOMAIN secs = Section /\ \A t \in Section \ {s} : secs[t] = sectionFiles[t]
        BY <3>9
      <4> QED BY <1>2, <2>2, <3>2, <3>5, <3>7, <3>10, <4>1, <4>2, <4>3, <4>4, <4>5
    <3> QED BY <3>2, <3>4, <3>11
  <2> QED BY <1>1, <2>1, <2>2, EditKeeps
<1>4. CASE RemoveSection(s)
  <2>1. /\ cfgRaw' = [f \in ConfigFiles |-> IF f \in sectionFiles[s] THEN [cfgRaw[f] EXCEPT ![s] = None] ELSE cfgRaw[f]]
        /\ cfgPending' = cfgPending \cup sectionFiles[s]
        /\ sectionFiles' = [sectionFiles EXCEPT ![s] = {}]
        /\ cfgParsed' = [cfgParsed EXCEPT ![s] = None]
    BY <1>4 DEF RemoveSection
  <2>2. ASSUME ~cfgStrayed
        PROVE  /\ Consistent(cfgRaw, cfgParsed, sectionFiles, optionFiles)'
               /\ \A g \in ConfigFiles \ sectionFiles[s] : cfgRaw'[g] = cfgRaw[g]
    <3>1. /\ RawOK(cfgRaw) /\ AllSaid(cfgRaw, cfgParsed) /\ Recorded(cfgRaw, sectionFiles, optionFiles)
          /\ RecordedAt(cfgRaw, s, sectionFiles[s], optionFiles[s])
      BY <1>1, <2>2 DEF SourceOK, TextsOK, Consistent, Recorded
    <3>2. PICK raw, parsed, secs : raw = cfgRaw' /\ parsed = cfgParsed' /\ secs = sectionFiles'
      OBVIOUS
    <3>3. /\ raw = [f \in ConfigFiles |-> raw[f]]
          /\ \A f \in ConfigFiles : raw[f] = IF f \in sectionFiles[s] THEN [cfgRaw[f] EXCEPT ![s] = None] ELSE cfgRaw[f]
      BY <2>1, <3>2
    <3>4. \A f \in ConfigFiles : /\ raw[f] \in [Section -> {None} \cup Seq(ConfigLine)]
                                 /\ raw[f][s] = None /\ \A t \in Section \ {s} : raw[f][t] = cfgRaw[f][t]
      BY <3>1, <3>3 DEF RawOK, RecordedAt
    <3>5. RawOK(raw)
      <4>1. raw \in [ConfigFiles -> [Section -> {None} \cup Seq(ConfigLine)]]
        BY <3>3, <3>4
      <4> QED BY <3>1, <3>4, <4>1 DEF RawOK
    <3>6. \A f \in ConfigFiles, p \in CfgOption : ~HasOption(raw, f, s, p)
      BY <3>4 DEF HasOption
    <3>7. /\ parsed \in [Section -> {None} \cup [CfgOption -> Setting \cup {None}]]
          /\ \A t \in Section \ {s} : parsed[t] = cfgParsed[t]
          /\ parsed[s] = None
      BY <2>1, <3>1, <3>2 DEF AllSaid
    <3>8. DOMAIN secs = Section /\ secs[s] = {} /\ \A t \in Section \ {s} : secs[t] = sectionFiles[t]
      BY <2>1, <3>1, <3>2 DEF Recorded
    <3>9. Consistent(cfgRaw, cfgParsed, sectionFiles, optionFiles)'
      BY <1>2, <2>2, <3>2, <3>4, <3>5, <3>6, <3>7, <3>8
    <3> QED BY <3>2, <3>3, <3>9
  <2> QED BY <1>1, <2>1, <2>2, EditKeeps
<1> QED BY <1>3, <1>4

-----------------------------------------------------------------------------
(* Transactions and files *)

(* A backup stays what it is, whatever else happens. *)
LEMMA BackupKept ==
  ASSUME UNCHANGED <<includeFirst, cfgBackup>>,
         Consistent(cfgBackup.raw, cfgBackup.parsed, cfgBackup.sections, cfgBackup.options)
  PROVE  Consistent(cfgBackup.raw, cfgBackup.parsed, cfgBackup.sections, cfgBackup.options)'
<1>1. PICK raw, parsed, secs, opts : /\ raw = cfgBackup.raw /\ parsed = cfgBackup.parsed
                                     /\ secs = cfgBackup.sections /\ opts = cfgBackup.options
  OBVIOUS
<1>2. Consistent(raw, parsed, secs, opts)
  BY <1>1
<1>3. /\ cfgBackup'.raw = raw /\ cfgBackup'.parsed = parsed
      /\ cfgBackup'.sections = secs /\ cfgBackup'.options = opts
  BY <1>1
<1> QED BY <1>2, <1>3, BackupThen

LEMMA TextsKept ==
  ASSUME UNCHANGED <<includeFirst, cfgRaw, cfgParsed, sectionFiles, optionFiles>>,
         Consistent(cfgRaw, cfgParsed, sectionFiles, optionFiles)
  PROVE  Consistent(cfgRaw, cfgParsed, sectionFiles, optionFiles)'
<1>1. PICK raw, parsed, secs, opts : raw = cfgRaw /\ parsed = cfgParsed /\ secs = sectionFiles /\ opts = optionFiles
  OBVIOUS
<1>2. Consistent(raw, parsed, secs, opts)
  BY <1>1
<1>3. cfgRaw' = raw /\ cfgParsed' = parsed /\ sectionFiles' = secs /\ optionFiles' = opts
  BY <1>1
<1> QED BY <1>2, <1>3, TextsThen

LEMMA BackupTaken ==
  ASSUME SourceOK, BackupSource
  PROVE  SourceOK'
<1>1. /\ pc["worker"] = "idle" /\ UNCHANGED <<pc, includeFirst, cfgDisk, cfgPending, cfgWriting>>
      /\ UNCHANGED <<cfgRaw, cfgParsed, sectionFiles, optionFiles>>
      /\ cfgBackup' = [raw |-> cfgRaw, sections |-> sectionFiles, options |-> optionFiles, parsed |-> cfgParsed]
      /\ ~cfgStrayed' => ~cfgStrayed /\ cfgPending = {}
  BY DEF BackupSource, Unlocked, Idle
<1>2. SavesOK'
  BY <1>1 DEF SourceOK, SavesOK
<1>3. ASSUME ~cfgStrayed'
      PROVE  /\ RawOK(cfgDisk)' /\ Consistent(cfgRaw, cfgParsed, sectionFiles, optionFiles)'
             /\ \A f \in ConfigFiles \ cfgPending : cfgDisk[f] = cfgRaw[f]
             /\ cfgBackup'.raw = cfgDisk
             /\ Consistent(cfgBackup.raw, cfgBackup.parsed, cfgBackup.sections, cfgBackup.options)'
  <2>1. /\ RawOK(cfgDisk) /\ Consistent(cfgRaw, cfgParsed, sectionFiles, optionFiles)
        /\ \A f \in ConfigFiles \ cfgPending : cfgDisk[f] = cfgRaw[f]
    BY <1>1, <1>3 DEF SourceOK, TextsOK
  <2>2. \A f \in ConfigFiles : cfgDisk[f] = cfgRaw[f]
    BY <1>1, <1>3, <2>1
  <2>3. cfgDisk = cfgRaw
    <3>1. cfgDisk = [f \in ConfigFiles |-> cfgDisk[f]] /\ cfgRaw = [f \in ConfigFiles |-> cfgRaw[f]]
      BY <2>1 DEF Consistent, RawOK
    <3> QED BY <2>2, <3>1
  <2>4. RawOK(cfgDisk)'
    BY <1>1, <2>1 DEF RawOK
  <2>5. PICK raw, parsed, secs, opts : raw = cfgRaw /\ parsed = cfgParsed /\ secs = sectionFiles /\ opts = optionFiles
    OBVIOUS
  <2>6. Consistent(raw, parsed, secs, opts)
    BY <2>1, <2>5
  <2>7. /\ cfgBackup'.raw = raw /\ cfgBackup'.parsed = parsed
        /\ cfgBackup'.sections = secs /\ cfgBackup'.options = opts
    BY <1>1, <2>5
  <2>8. Consistent(cfgBackup.raw, cfgBackup.parsed, cfgBackup.sections, cfgBackup.options)'
    BY <1>1, <2>6, <2>7, BackupThen
  <2> QED BY <1>1, <2>1, <2>3, <2>4, <2>5, <2>7, <2>8, TextsKept
<1>4. TextsOK'
  BY <1>1, <1>3 DEF TextsOK
<1> QED BY <1>2, <1>4 DEF SourceOK

LEMMA EditsCancelled ==
  ASSUME SourceOK, CancelEdits
  PROVE  SourceOK'
<1>1. /\ pc["worker"] = "idle" /\ UNCHANGED <<pc, includeFirst, cfgDisk, cfgWriting, cfgStrayed>>
      /\ cfgBackup # None /\ cfgBackup' = None /\ cfgPending' = {}
  BY DEF CancelEdits, Unlocked, Idle
<1>2. SavesOK'
  BY <1>1 DEF SourceOK, SavesOK
<1>3. ASSUME ~cfgStrayed
      PROVE  /\ RawOK(cfgDisk)' /\ Consistent(cfgRaw, cfgParsed, sectionFiles, optionFiles)'
             /\ \A f \in ConfigFiles : cfgDisk[f] = cfgRaw'[f]
  <2>1. /\ RawOK(cfgDisk) /\ Consistent(cfgRaw, cfgParsed, sectionFiles, optionFiles)
        /\ \A f \in ConfigFiles \ cfgPending : cfgDisk[f] = cfgRaw[f]
        /\ cfgBackup.raw = cfgDisk
        /\ Consistent(cfgBackup.raw, cfgBackup.parsed, cfgBackup.sections, cfgBackup.options)
    BY <1>1, <1>3 DEF SourceOK, TextsOK
  <2>2. RawOK(cfgDisk)'
    BY <1>1, <2>1 DEF RawOK
  <2>3. CASE cfgPending = {}
    <3>1. UNCHANGED <<cfgRaw, cfgParsed, sectionFiles, optionFiles>>
      BY <2>3 DEF CancelEdits
    <3> QED BY <1>1, <2>1, <2>2, <2>3, <3>1, TextsKept
  <2>4. CASE cfgPending # {}
    <3>1. PICK raw, parsed, secs, opts : /\ raw = cfgBackup.raw /\ parsed = cfgBackup.parsed
                                         /\ secs = cfgBackup.sections /\ opts = cfgBackup.options
      OBVIOUS
    <3>2. cfgRaw' = raw /\ cfgParsed' = parsed /\ sectionFiles' = secs /\ optionFiles' = opts
      BY <2>4, <3>1 DEF CancelEdits, PutBack
    <3>3. Consistent(raw, parsed, secs, opts)
      BY <2>1, <3>1
    <3> QED BY <1>1, <2>1, <2>2, <3>1, <3>2, <3>3, TextsThen
  <2> QED BY <2>3, <2>4
<1>4. TextsOK'
  BY <1>1, <1>3 DEF TextsOK
<1> QED BY <1>2, <1>4 DEF SourceOK

LEMMA SavingBegins ==
  ASSUME SourceOK, SaveBegins
  PROVE  SourceOK'
<1>1. /\ pc["worker"] = "idle" /\ pc' = [pc EXCEPT !["worker"] = "saving"] /\ cfgWriting' = cfgPending
      /\ cfgBackup' = None /\ UNCHANGED <<includeFirst, cfgDisk, cfgPending, cfgStrayed>>
      /\ UNCHANGED <<cfgRaw, cfgParsed, sectionFiles, optionFiles>>
  BY DEF SaveBegins, Unlocked, Idle, Goes
<1>2. DOMAIN pc' = Task /\ pc'["worker"] = "saving"
  BY <1>1, CfgNames DEF SourceOK, SavesOK
<1>3. SavesOK'
  BY <1>1, <1>2 DEF SavesOK
<1>4. RawOK(cfgDisk)' <=> RawOK(cfgDisk)
  BY <1>1 DEF RawOK
<1>5. TextsOK'
  BY <1>1, <1>2, <1>4, TextsKept DEF SourceOK, TextsOK
<1> QED BY <1>3, <1>5 DEF SourceOK

LEMMA DiskThen ==
  ASSUME NEW written, RawOK(written), cfgDisk' = written
  PROVE  RawOK(cfgDisk)'
BY DEF RawOK

LEMMA FilesAreSaved ==
  ASSUME SourceOK, FileSaved
  PROVE  SourceOK'
<1>1. /\ pc["worker"] = "saving" /\ SavesOK /\ TextsOK /\ DOMAIN pc = Task
      /\ UNCHANGED <<includeFirst, cfgRaw, cfgParsed, sectionFiles, optionFiles, cfgBackup, cfgStrayed>>
      /\ cfgWriting \subseteq cfgPending
  BY DEF FileSaved, SourceOK, SavesOK
<1>2. ASSUME ~cfgStrayed
      PROVE  /\ RawOK(cfgDisk) /\ RawOK(cfgRaw)
             /\ \A f \in ConfigFiles \ cfgWriting : cfgDisk[f] = cfgRaw[f]
             /\ Consistent(cfgRaw, cfgParsed, sectionFiles, optionFiles)'
             /\ cfgBackup = None
  BY <1>1, <1>2, TextsKept DEF TextsOK, Consistent
<1>3. CASE cfgWriting = {}
  <2>1. pc' = [pc EXCEPT !["worker"] = "idle"] /\ cfgWriting' = None /\ cfgPending' = {} /\ cfgDisk' = cfgDisk
    BY <1>3 DEF FileSaved, Goes
  <2>2. DOMAIN pc' = Task /\ pc'["worker"] = "idle"
    BY <1>1, <2>1, CfgNames
  <2>3. SavesOK'
    BY <2>1, <2>2 DEF SavesOK
  <2>4. ~cfgStrayed => RawOK(cfgDisk)'
    BY <1>2, <2>1 DEF RawOK
  <2>5. TextsOK'
    BY <1>1, <1>2, <1>3, <2>1, <2>2, <2>4 DEF TextsOK
  <2> QED BY <2>3, <2>5 DEF SourceOK
<1>4. CASE \E f \in cfgWriting : /\ cfgDisk' = [cfgDisk EXCEPT ![f] = cfgRaw[f]]
                                 /\ cfgWriting' = cfgWriting \ {f}
                                 /\ UNCHANGED <<pc, left, cfgPending>>
  <2>1. PICK f \in cfgWriting : /\ cfgDisk' = [cfgDisk EXCEPT ![f] = cfgRaw[f]]
                               /\ cfgWriting' = cfgWriting \ {f}
                               /\ UNCHANGED <<pc, left, cfgPending>>
    BY <1>4
  <2>2. SavesOK'
    BY <1>1, <2>1 DEF SavesOK
  <2>3. ASSUME ~cfgStrayed
        PROVE  RawOK(cfgDisk)' /\ \A g \in ConfigFiles \ cfgWriting' : cfgDisk'[g] = cfgRaw[g]
    <3>1. PICK written : written = [cfgDisk EXCEPT ![f] = cfgRaw[f]]
      OBVIOUS
    <3>2. \A g \in ConfigFiles : written[g] = IF g = f THEN cfgRaw[g] ELSE cfgDisk[g]
      BY <1>2, <2>3, <3>1 DEF RawOK
    <3>3. written \in [ConfigFiles -> [Section -> {None} \cup Seq(ConfigLine)]]
      <4>1. written = [g \in ConfigFiles |-> written[g]]
        BY <1>2, <2>3, <3>1 DEF RawOK
      <4>2. \A g \in ConfigFiles : written[g] \in [Section -> {None} \cup Seq(ConfigLine)]
        BY <1>2, <2>3, <3>2 DEF RawOK
      <4> QED BY <4>1, <4>2
    <3>4. \A g \in ConfigFiles, s \in Section : written[g][s] # None =>
            \A i, j \in DOMAIN written[g][s] : written[g][s][i].option = written[g][s][j].option => i = j
      BY <1>2, <2>3, <3>2 DEF RawOK
    <3>5. RawOK(written)
      BY <3>3, <3>4 DEF RawOK
    <3>6. \A g \in ConfigFiles \ cfgWriting' : written[g] = cfgRaw[g]
      BY <1>2, <2>1, <2>3, <3>2
    <3> QED BY <2>1, <3>1, <3>5, <3>6, DiskThen
  <2>4. TextsOK'
    BY <1>1, <1>2, <2>1, <2>3 DEF TextsOK
  <2> QED BY <2>2, <2>4 DEF SourceOK
<1>5. CASE \E f \in cfgWriting : /\ cfgDisk' = [cfgDisk EXCEPT ![f] = NoSections]
                                 /\ pc' = [pc EXCEPT !["worker"] = "idle"] /\ cfgWriting' = None
                                 /\ cfgPending' = cfgPending
  <2>1. PICK f \in cfgWriting : /\ cfgDisk' = [cfgDisk EXCEPT ![f] = NoSections]
                               /\ pc' = [pc EXCEPT !["worker"] = "idle"] /\ cfgWriting' = None
                               /\ cfgPending' = cfgPending
    BY <1>5
  <2>2. DOMAIN pc' = Task /\ pc'["worker"] = "idle"
    BY <1>1, <2>1, CfgNames
  <2>3. SavesOK'
    BY <2>1, <2>2 DEF SavesOK
  <2>4. ASSUME ~cfgStrayed
        PROVE  RawOK(cfgDisk)' /\ \A g \in ConfigFiles \ cfgPending : cfgDisk'[g] = cfgRaw[g]
    <3>1. PICK none : none = NoSections /\ none \in [Section -> {None} \cup Seq(ConfigLine)]
                      /\ \A s \in Section : none[s] = None
      <4>1. NoSections \in [Section -> {None} \cup Seq(ConfigLine)]
        BY DEF NoSections
      <4>2. \A s \in Section : NoSections[s] = None
        BY DEF NoSections
      <4> QED BY <4>1, <4>2
    <3>2. PICK written : written = [cfgDisk EXCEPT ![f] = none]
      OBVIOUS
    <3>3. \A g \in ConfigFiles : written[g] = IF g = f THEN none ELSE cfgDisk[g]
      BY <1>2, <2>4, <3>2 DEF RawOK
    <3>4. written \in [ConfigFiles -> [Section -> {None} \cup Seq(ConfigLine)]]
      <4>1. written = [g \in ConfigFiles |-> written[g]]
        BY <1>2, <2>4, <3>2 DEF RawOK
      <4>2. \A g \in ConfigFiles : written[g] \in [Section -> {None} \cup Seq(ConfigLine)]
        BY <1>2, <2>4, <3>1, <3>3 DEF RawOK
      <4> QED BY <4>1, <4>2
    <3>5. \A g \in ConfigFiles, s \in Section : written[g][s] # None =>
            \A i, j \in DOMAIN written[g][s] : written[g][s][i].option = written[g][s][j].option => i = j
      BY <1>2, <2>4, <3>1, <3>3 DEF RawOK
    <3>6. RawOK(written)
      BY <3>4, <3>5 DEF RawOK
    <3>7. \A g \in ConfigFiles \ cfgPending : written[g] = cfgRaw[g]
      BY <1>1, <1>2, <2>4, <3>3
    <3> QED BY <2>1, <3>1, <3>2, <3>6, <3>7, DiskThen
  <2>5. TextsOK'
    BY <1>1, <1>2, <2>1, <2>2, <2>4 DEF TextsOK
  <2> QED BY <2>3, <2>5 DEF SourceOK
<1> QED BY <1>3, <1>4, <1>5 DEF FileSaved, Goes

LEMMA RevertBegins ==
  ASSUME SourceOK, Reverts
  PROVE  SourceOK'
<1>1. /\ pc' = [pc EXCEPT !["worker"] = "reverting"] /\ cfgBackup' = None /\ cfgWriting = None
      /\ UNCHANGED <<includeFirst, cfgDisk, cfgWriting, cfgStrayed>>
  BY DEF Reverts, Unlocked, Goes
<1>2. DOMAIN pc' = Task /\ pc'["worker"] = "reverting"
  BY <1>1, CfgNames DEF SourceOK, SavesOK
<1>3. SavesOK'
  BY <1>1, <1>2 DEF SavesOK
<1>4. RawOK(cfgDisk)' <=> RawOK(cfgDisk)
  BY <1>1 DEF RawOK
<1>5. TextsOK'
  BY <1>1, <1>2, <1>4 DEF SourceOK, TextsOK
<1> QED BY <1>3, <1>5 DEF SourceOK

LEMMA FilesReadAgain ==
  ASSUME SourceOK, Reverted
  PROVE  SourceOK'
<1>1. /\ pc["worker"] = "reverting" /\ pc' = [pc EXCEPT !["worker"] = "idle"]
      /\ UNCHANGED <<includeFirst, cfgDisk, cfgBackup, cfgWriting, cfgStrayed>>
      /\ cfgRaw' = cfgDisk /\ cfgParsed' = Parse(cfgDisk) /\ cfgPending' = {}
      /\ sectionFiles' = [s \in Section |-> FilesOf(cfgDisk, s)]
      /\ optionFiles' = [s \in Section |-> [o \in CfgOption |-> FilesWith(cfgDisk, s, o)]]
  BY DEF Reverted, Goes, Read
<1>2. DOMAIN pc' = Task /\ pc'["worker"] = "idle" /\ cfgWriting = None
  BY <1>1, CfgNames DEF SourceOK, SavesOK
<1>3. SavesOK'
  BY <1>1, <1>2 DEF SavesOK
<1>4. ASSUME ~cfgStrayed
      PROVE  /\ RawOK(cfgDisk)' /\ Consistent(cfgRaw, cfgParsed, sectionFiles, optionFiles)'
             /\ cfgBackup = None
  <2>1. RawOK(cfgDisk) /\ cfgBackup = None
    BY <1>1, <1>4 DEF SourceOK, TextsOK
  <2>2. PICK raw, parsed, secs, opts :
          /\ raw = cfgDisk /\ parsed = Parse(cfgDisk) /\ secs = [s \in Section |-> FilesOf(cfgDisk, s)]
          /\ opts = [s \in Section |-> [o \in CfgOption |-> FilesWith(cfgDisk, s, o)]]
    OBVIOUS
  <2>3. Consistent(raw, parsed, secs, opts)
    BY <2>1, <2>2, ReadIsConsistent
  <2>4. cfgRaw' = raw /\ cfgParsed' = parsed /\ sectionFiles' = secs /\ optionFiles' = opts
    BY <1>1, <2>2
  <2> QED BY <1>1, <2>1, <2>3, <2>4, TextsThen, DiskThen
<1>5. TextsOK'
  BY <1>1, <1>2, <1>4 DEF TextsOK
<1> QED BY <1>3, <1>5 DEF SourceOK

LEMMA ConfigKeeps ==
  ASSUME SourceOK, ConfigFileNext
  PROVE  SourceOK'
BY SetKeeps, RemoveKeeps, SectionsKeep, BackupTaken, EditsCancelled, SavingBegins, FilesAreSaved, RevertBegins,
   FilesReadAgain DEF ConfigFileNext

LEMMA ConfigRests ==
  ASSUME SourceOK, UNCHANGED <<pc, configVars>>
  PROVE  SourceOK'
<1>1. /\ UNCHANGED <<pc, includeFirst, cfgDisk, cfgRaw, cfgParsed, sectionFiles, optionFiles>>
      /\ UNCHANGED <<cfgPending, cfgBackup, cfgWriting, cfgStrayed>>
  BY DEF configVars
<1>2. SavesOK'
  BY <1>1 DEF SourceOK, SavesOK
<1>3. RawOK(cfgDisk)' <=> RawOK(cfgDisk)
  BY <1>1 DEF RawOK
<1>4. TextsOK'
  BY <1>1, <1>3, TextsKept, BackupKept DEF SourceOK, TextsOK
<1> QED BY <1>2, <1>4 DEF SourceOK
-----------------------------------------------------------------------------
(* A step is of the component the behaviour is about, or changes nothing. *)
LEMMA StepsOfItsOwn ==
  ASSUME [Next]_vars
  PROVE  \/ /\ component' = component
            /\ component = "projector" => ProjectorNext
            /\ component = "buttons" => ButtonsNext
            /\ component = "simplyprint" => SimplyPrintNext
            /\ component = "server" => ServerNext
            /\ component = "services" => ServicesNext
            /\ component = "packages" => PackagesNext
            /\ component = "paneldue" => PanelDueNext
            /\ component = "http" => HttpClientNext
            /\ component = "filerequests" => FileRequestsNext
            /\ component = "repository" => RepositoryNext
            /\ component = "webcams" => WebcamsNext
            /\ component = "wled" => StripsNext
            /\ component = "sessions" => SessionsNext
            /\ component = "mqtt" => MqttNext
            /\ component = "power" => PowerNext
            /\ component = "switches" => SwitchesNext
            /\ component = "installation" => InstallationNext
            /\ component = "announcements" => AnnouncementsNext
            /\ component = "fields" => FieldsNext
            /\ component = "configfile" => ConfigFileNext
         \/ UNCHANGED vars
<1>1. ASSUME NEW name, About(name)
      PROVE  component = name /\ component' = name
  BY <1>1 DEF About
<1> QED BY <1>1 DEF Next

(* What changes none of its variables changes nothing of a component's invariant. *)
LEMMA AtRest ==
  ASSUME UNCHANGED vars
  PROVE  /\ component' = component
         /\ ProjectorOK => ProjectorOK'
         /\ ButtonsOK => ButtonsOK'
         /\ SimplyPrintOK => SimplyPrintOK'
         /\ ServerOK => ServerOK'
         /\ ServicesOK => ServicesOK'
         /\ PackagesOK => PackagesOK'
         /\ PanelOK => PanelOK'
         /\ HttpOK => HttpOK'
         /\ AllRequestsOK => AllRequestsOK'
         /\ RepositoryOK => RepositoryOK'
         /\ WebcamsOK => WebcamsOK'
         /\ StripsOK => StripsOK'
         /\ SessionsOK => SessionsOK'
         /\ MqttOK => MqttOK'
         /\ ServiceOK => ServiceOK'
         /\ SwitchesOK => SwitchesOK'
         /\ InstallOK => InstallOK'
         /\ AnnouncementsOK => AnnouncementsOK'
         /\ FieldsOK => FieldsOK'
         /\ SourceOK => SourceOK'
<1>1. /\ UNCHANGED <<hostVars, projectorVars, buttonVars, cloudVars, serverAllVars, serviceVars>>
      /\ UNCHANGED <<packageVars, panelVars, httpVars, reqVars, gitVars>>
      /\ UNCHANGED <<webcamVars, stripVars, sessionVars, mqttVars, powerVars, swVars>>
      /\ UNCHANGED <<installVars, announceVars, fieldVars, configVars>>
      /\ UNCHANGED <<component, pc, klippy, printing, left>>
  BY DEF vars, hostVars
<1>2. ProjectorOK => ProjectorOK'
  BY <1>1 DEF ProjectorOK, Decision, projectorVars, linkVars
<1>3. ButtonsOK => ButtonsOK'
  BY <1>1 DEF ButtonsOK, ButtonTypes, NotYetStarted, LastEdge, LastCall, RendersTemplate, Idle,
              buttonVars
<1>4. SimplyPrintOK => SimplyPrintOK'
  <2>1. UNCHANGED <<tellVars, jobVars, sendFileVars, setupVars, pc>>
    BY <1>1 DEF cloudVars
  <2>2. CloudOK => CloudOK'
    BY <2>1 DEF CloudOK, TellsJobs, tellVars, jobVars
  <2>3. SendFilesOK => SendFilesOK'
    BY <2>1 DEF SendFilesOK, SentFileOK, SentForIt, sendFileVars
  <2>4. SetupOK => SetupOK'
    BY <2>1 DEF SetupOK, setupVars
  <2> QED BY <2>1, <2>2, <2>3, <2>4 DEF SimplyPrintOK
<1>5. ServerOK => ServerOK'
  BY <1>1 DEF ServerOK, LaunchOK, LivesOK, Stopping, StopOK, NotRunning, serverAllVars, fileVars,
              launchVars, lifeVars
<1>6. ServicesOK => ServicesOK'
  BY <1>1 DEF ServicesOK, ServiceTypes, OwnUnitOK, ActsOK, HearsOK, Listens, SaysLast, SomethingSeen,
              serviceVars
<1>7. PackagesOK => PackagesOK'
  <2>1. UNCHANGED <<pkgMachine, pkgProvider, pkgOld, pkgIndexed, pkgAvail, pkgStored, pkgDue, pkgFirst,
                    pkgJob, pkgHolder, pkgIds, tx, txSignals, pkgHalf, pkgLeft, pc>>
    BY <1>1 DEF packageVars
  <2>2. Coming' = Coming /\ (Succeeds' <=> Succeeds) /\ \A i : SignalOK(i)' <=> SignalOK(i)
    BY <2>1 DEF Coming, Succeeds, Success, SignalOK
  <2>3. PackageTypes => PackageTypes'
    BY <2>1 DEF PackageTypes
  <2>4. TransactionOK => TransactionOK'
    BY <2>1, <2>2 DEF TransactionOK
  <2>5. ListOK => ListOK'
    BY <2>1 DEF ListOK, Upgrades
  <2>6. \A t : JobOK(t) => JobOK(t)'
    BY <2>1 DEF JobOK
  <2> QED BY <2>1, <2>3, <2>4, <2>5, <2>6 DEF PackagesOK
<1>8. PanelOK => PanelOK'
  BY <1>1, PanelFrame
<1>9. HttpOK => HttpOK'
  <2>1. UNCHANGED <<httpPlan, srvVersion, srvTells, respCache, httpAsk, httpReply, httpResult, ghKnown,
                    ghReal, dl, pc>>
    BY <1>1 DEF httpVars
  <2>2. HttpTypes => HttpTypes'
    BY <2>1 DEF HttpTypes
  <2> QED BY <2>1, <2>2, DownloadFrame, AnswersFrame DEF HttpOK
<1>10. AllRequestsOK => AllRequestsOK'
  BY <1>1, FileRequestsStutter
<1>11. RepositoryOK => RepositoryOK'
  BY <1>1, RepositoryStutter
<1>12. (WebcamsOK => WebcamsOK') /\ (StripsOK => StripsOK')
  BY <1>1, WebcamsRest, StripsRest
<1>13. (SessionsOK => SessionsOK') /\ (MqttOK => MqttOK')
  BY <1>1, SessionsRest, MqttRest
<1>14. (ServiceOK => ServiceOK') /\ (SwitchesOK => SwitchesOK')
  BY <1>1, PowerRest, SwitchesRest
<1>15. (InstallOK => InstallOK') /\ (AnnouncementsOK => AnnouncementsOK')
  BY <1>1, InstallRest, AnnouncementsRest
<1>16. (FieldsOK => FieldsOK') /\ (SourceOK => SourceOK')
  BY <1>1, FieldsRest, ConfigRests
<1> QED BY <1>1, <1>2, <1>3, <1>4, <1>5, <1>6, <1>7, <1>8, <1>9, <1>10, <1>11,
          <1>12, <1>13, <1>14, <1>15, <1>16

(* The invariant of whichever component the behaviour is about *)
HostedInv ==
  /\ component = "projector" => ProjectorOK
  /\ component = "buttons" => ButtonsOK
  /\ component = "simplyprint" => SimplyPrintOK
  /\ component = "server" => ServerOK
  /\ component = "services" => ServicesOK
  /\ component = "packages" => PackagesOK
  /\ component = "paneldue" => PanelOK
  /\ component = "http" => HttpOK
  /\ component = "filerequests" => AllRequestsOK
  /\ component = "repository" => RepositoryOK
  /\ component = "webcams" => WebcamsOK
  /\ component = "wled" => StripsOK
  /\ component = "sessions" => SessionsOK
  /\ component = "mqtt" => MqttOK
  /\ component = "power" => ServiceOK
  /\ component = "switches" => SwitchesOK
  /\ component = "installation" => InstallOK
  /\ component = "announcements" => AnnouncementsOK
  /\ component = "fields" => FieldsOK
  /\ component = "configfile" => SourceOK

LEMMA HostedBegin == Init => HostedInv
BY ProjectorBegins, ButtonsBegin, SimplyPrintBegins, ServerBegins, ServicesBegin, PackagesBegin,
   PanelBegins, HttpBegins, FileRequestsBegin, RepositoryBegins, WebcamsBegin,
   StripsBegin, SessionsBegin, MqttBegin, PowerBegins, SwitchesBegin, InstallBegins,
   AnnouncementsBegin, FieldsBegin, ConfigBegins DEF Init, HostedInv

LEMMA HostedKeep == HostedInv /\ [Next]_vars => HostedInv'
<1> SUFFICES ASSUME HostedInv, [Next]_vars PROVE HostedInv'
  OBVIOUS
<1>1. CASE UNCHANGED vars
  BY <1>1, AtRest DEF HostedInv
<1>2. CASE ~UNCHANGED vars
  BY <1>2, StepsOfItsOwn, ProjectorKeeps, ButtonsKeep, SimplyPrintKeeps, ServerKeeps, ServicesKeep,
     PackagesKeep, PanelKeeps, HttpKeeps, FileRequestsKeep, RepositoryKeeps, WebcamsKeep,
     StripsKeep, SessionsKeep, MqttKeep, PowerKeeps, SwitchesKeep, InstallKeeps,
     AnnouncementsKeep, FieldsKeep, ConfigKeeps DEF HostedInv
<1> QED BY <1>1, <1>2

(* What must be done once, or for the one who asked, is done so: for any numbers of  *)
(* requests, failures, restarts and changes of the world, whatever comes first       *)
(* (auto_recovery.py, simplyprint.py, server.py, git_deploy.py, system_deploy.py,     *)
(* machine.py, paneldue.py, file_manager.py, http_client.py, button.py).  A print     *)
(* that was asked for with an upload is started or queued, and where prints are not     *)
(* queued answered to be neither (file_manager.py:924).                                  *)
THEOREM WhatIsDoneIsDoneOnce == Spec => []DoneOnce
<1>1. HostedInv => DoneOnce
  BY ProjectorResets, ButtonsServe, SimplyPrintServes, ServerServes, ServicesServe, PackagesServe,
     PanelServes, HttpServes, FileRequestsServe, RepositoryServes DEF HostedInv, DoneOnce
<1> QED BY <1>1, HostedBegin, HostedKeep, PTL DEF Spec

(* What a component keeps of the world is so, as long as the world lets it know: the  *)
(* job the cloud has been told of (simplyprint.py), the backup of the configuration    *)
(* (server.py), a repository that is called valid (git_deploy.py), the services         *)
(* (machine.py), what the panel shows (paneldue.py), an answer that was kept             *)
(* (http_client.py), the files in the database (file_manager.py), the packages that can  *)
(* be upgraded (system_deploy.py), the level of a button (gpio.py), a strip of lights     *)
(* (wled.py), the cameras (webcam.py), the user and its keys (authorization.py), what     *)
(* the broker is listened to for (mqtt.py), the state of a switch and the service that    *)
(* is bound to a device (power.py), the file of installation values (machine.py), the      *)
(* entries of the feeds (announcements.py), the totals of an auxiliary field (history.py)   *)
(* and the files of the configuration (confighelper.py).  A switch that counts down while   *)
(* it says "on" and the body of an error that was kept are not among them (SwitchKnown,       *)
(* AnswersAreCurrent).                                                                        *)
THEOREM WhatIsKeptIsTrue == Spec => []KeptIsTrue
<1>1. HostedInv => KeptIsTrue
  BY ButtonsServe, SimplyPrintServes, ServerServes, ServicesServe, PackagesServe,
     PanelServes, HttpServes, FileRequestsServe, RepositoryServes, WebcamsServe, StripsServe,
     SessionsServe, MqttServes, PowerServes, SwitchesServe, InstallServes,
     AnnouncementsServe, FieldsServe, ConfigServes DEF HostedInv, KeptIsTrue
<1> QED BY <1>1, HostedBegin, HostedKeep, PTL DEF Spec
=============================================================================

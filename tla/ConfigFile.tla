----------------------------- MODULE ConfigFile -----------------------------
(***************************************************************************)
(* FileSourceWrapper of confighelper.py: a configuration of a file and one  *)
(* that it includes is edited as text, beside the parsed values and the      *)
(* record of which section and option is in which file, and saved by a        *)
(* thread.  Blank lines, comments and indentation are left out, but for the   *)
(* blanks at a line's end.                                                    *)
(***************************************************************************)
EXTENDS Host

VARIABLES
  includeFirst,   \* whether the include directive precedes the file's own sections
  cfgDisk,        \* the files
  cfgRaw,         \* raw_config_data
  cfgParsed,      \* config, the parser
  sectionFiles,   \* file_section_map, as a set of files
  optionFiles,    \* file_option_map, as a set of files
  cfgPending,     \* updates_pending
  cfgBackup,      \* backup, None when cleared
  cfgWriting,     \* files that _do_save has yet to write, None when it is not at work
  cfgStrayed      \* one of the cases named below has happened

configVars == <<includeFirst, cfgDisk, cfgRaw, cfgParsed, sectionFiles, optionFiles, cfgPending,
                cfgBackup, cfgWriting, cfgStrayed>>

ConfigFiles == {0, 1}
Section == {"server", "extra"}
CfgOption == {"a", "b"}
Setting == {1, 2}
OptionLine(option, value, blanks) == [option |-> option, value |-> value, blanks |-> blanks]
ConfigLine == [option : CfgOption, value : Setting, blanks : BOOLEAN]
NoSections == [s \in Section |-> None]

ASSUME ConfigConstants ==
  None \notin Seq(ConfigLine) /\ None \notin [CfgOption -> Setting \cup {None}]

Places(file, s, o) == IF file[s] = None THEN {} ELSE {i \in DOMAIN file[s] : file[s][i].option = o}
(* The file that is read last decides. *)
Top(files) == CHOOSE f \in files : Cardinality(files) = 1 \/ f = IF includeFirst THEN 0 ELSE 1
FilesOf(raw, s) == {f \in ConfigFiles : raw[f][s] # None}
FilesWith(raw, s, o) == {f \in ConfigFiles : Places(raw[f], s, o) # {}}

(* _parse_file *)
Parse(raw) ==
  [s \in Section |->
     IF FilesOf(raw, s) = {} THEN None
     ELSE [o \in CfgOption |->
             IF FilesWith(raw, s, o) = {} THEN None
             ELSE LET f == Top(FilesWith(raw, s, o))
                  IN raw[f][s][CHOOSE i \in Places(raw[f], s, o) : TRUE].value]]

(* What read_file leaves. *)
Read(raw) ==
  /\ cfgRaw' = raw /\ cfgParsed' = Parse(raw) /\ cfgPending' = {}
  /\ sectionFiles' = [s \in Section |-> FilesOf(raw, s)]
  /\ optionFiles' = [s \in Section |-> [o \in CfgOption |-> FilesWith(raw, s, o)]]

TwoLines(blanks) == <<OptionLine("a", 1, FALSE), OptionLine("b", 1, blanks)>>
ConfigFileInit ==
  /\ includeFirst \in Among(BOOLEAN, "configfile")
  /\ cfgDisk \in Among({[f \in ConfigFiles |->
                           CASE f = 0 -> [NoSections EXCEPT !["server"] = <<OptionLine("a", 1,
                                                                            FALSE)>>]
                             [] f = 1 -> [s \in Section |-> included[s]]]
                        : included \in [server : {None, <<OptionLine("a", 2, FALSE)>>},
                                       extra : {None} \cup {TwoLines(b) : b \in BOOLEAN}]},
                       "configfile")
  /\ cfgRaw = cfgDisk /\ cfgParsed = Parse(cfgRaw) /\ cfgPending = {}
  /\ sectionFiles = [s \in Section |-> FilesOf(cfgRaw, s)]
  /\ optionFiles = [s \in Section |-> [o \in CfgOption |-> FilesWith(cfgRaw, s, o)]]
  /\ cfgBackup = None /\ cfgWriting = None /\ cfgStrayed = FALSE

FileContents == [Section -> {None} \cup UNION {[1..n -> ConfigLine] : n \in 0..3}]
ConfigFileTypeOK ==
  /\ DOMAIN cfgRaw = ConfigFiles /\ DOMAIN cfgDisk = ConfigFiles
  /\ \A f \in ConfigFiles : cfgRaw[f] \in FileContents /\ cfgDisk[f] \in FileContents
  /\ cfgPending \subseteq ConfigFiles /\ {includeFirst, cfgStrayed} \subseteq BOOLEAN
  /\ sectionFiles \in [Section -> SUBSET ConfigFiles]
  /\ optionFiles \in [Section -> [CfgOption -> SUBSET ConfigFiles]]
  /\ cfgWriting = None \/ cfgWriting \subseteq ConfigFiles
-----------------------------------------------------------------------------
(* Editing, under save_lock, which raises when the thread has it *)

Unlocked == cfgWriting = None /\ Idle("worker")
Edits == Unlocked /\ Spends("asks") /\ UNCHANGED <<pc, includeFirst, cfgDisk,
                                                   cfgWriting>> /\ PrinterStays

(* _find_section_info takes a line whose end is blank for indented, and so for *)
(* the continuation of the option before it, unless that one was, too.         *)
Continues(options, i) == options[i].blanks /\ \E j \in 1..(i - 1) : ~options[j].blanks
LastLine(options, i) ==
  CHOOSE k \in i..Len(options) :
    /\ \A j \in (i + 1)..k : Continues(options, j)
    /\ k = Len(options) \/ ~Continues(options, k + 1)
LineFound(file, s, o) == {i \in Places(file, s, o) : ~Continues(file[s], i)}

(* The lines of an option are replaced; those that follow are taken with them. *)
LinesReplaced(options, i, lines) ==
  SubSeq(options, 1, i - 1) \o lines \o SubSeq(options, LastLine(options, i) + 1, Len(options))
TakesMore(options, i) == LastLine(options, i) # i

(* Mutant: a new option goes to the first file. *)
FirstFile(s, o) == 0
(* The file that decides: of the option, of its section, the main file. *)
FileToEdit(s, o) ==
  IF optionFiles[s][o] # {} THEN Top(optionFiles[s][o])
  ELSE IF sectionFiles[s] # {} THEN Top(sectionFiles[s]) ELSE 0

(* A text that the parser refuses, for an option that is there twice, raises. *)
SetOption(s, o, v) ==
  LET f == FileToEdit(s, o)
      options == IF cfgRaw[f][s] = None THEN <<>> ELSE cfgRaw[f][s]
      at == LineFound(cfgRaw[f], s, o)
  IN /\ Edits
     /\ cfgParsed[s] # None => cfgParsed[s][o] # v
     /\ at # {} \/ Places(cfgRaw[f], s, o) = {}
     /\ Len(options) < 3
     /\ \E edited \in IF at = {} THEN {Append(options, OptionLine(o, v, FALSE))}
                      ELSE {LinesReplaced(options, i, <<OptionLine(o, v, FALSE)>>) : i \in at} :
          cfgRaw' = [cfgRaw EXCEPT ![f][s] = edited]
     /\ cfgStrayed' = \/ cfgStrayed
                      \/ \E i \in at : TakesMore(options, i)
                      \/ optionFiles[s][o] # {} /\ f \notin sectionFiles[s]
     /\ cfgPending' = cfgPending \cup {f}
     /\ sectionFiles' = IF optionFiles[s][o] = {} /\ sectionFiles[s] = {}
                        THEN [sectionFiles EXCEPT ![s] = {f}] ELSE sectionFiles
     /\ optionFiles' = IF optionFiles[s][o] = {} THEN [optionFiles EXCEPT ![s][o] = {f}]
                       ELSE optionFiles
     /\ cfgParsed' = [cfgParsed EXCEPT ![s] =
                        IF @ = None THEN [p \in CfgOption |-> IF p = o THEN v ELSE None]
                        ELSE [@ EXCEPT ![o] = v]]
     /\ UNCHANGED cfgBackup

(* Mutant: it is removed where it decides. *)
WhereItDecides(files) == {Top(files)}
(* It is removed from all files. *)
Everywhere(files) == files

(* remove_option: one that is not found in a file raises, and nothing changes. *)
RemoveOption(s, o) ==
  /\ Edits
  /\ optionFiles[s][o] # {}
  /\ \A f \in Everywhere(optionFiles[s][o]) : LineFound(cfgRaw[f], s, o) # {}
  /\ LET at(f) == CHOOSE i \in LineFound(cfgRaw[f], s, o) : TRUE IN
       /\ cfgRaw' = [f \in ConfigFiles |->
                       IF f \notin Everywhere(optionFiles[s][o]) THEN cfgRaw[f]
                       ELSE [cfgRaw[f] EXCEPT ![s] = LinesReplaced(@, at(f), <<>>)]]
       /\ cfgStrayed' = (cfgStrayed \/ \E f \in optionFiles[s][o] :
                                          TakesMore(cfgRaw[f][s], at(f)))
  /\ cfgPending' = cfgPending \cup optionFiles[s][o]
  /\ optionFiles' = [optionFiles EXCEPT ![s][o] = {}]
  /\ cfgParsed' = IF cfgParsed[s] = None THEN cfgParsed ELSE [cfgParsed EXCEPT ![s][o] = None]
  /\ UNCHANGED <<sectionFiles, cfgBackup>>

AddSection(s) ==
  /\ Edits /\ sectionFiles[s] = {} /\ cfgRaw[0][s] = None
  /\ cfgRaw' = [cfgRaw EXCEPT ![0][s] = <<>>]
  /\ cfgPending' = cfgPending \cup {0}
  /\ sectionFiles' = [sectionFiles EXCEPT ![s] = {0}]
  /\ cfgParsed' = [cfgParsed EXCEPT ![s] = [o \in CfgOption |-> None]]
  /\ UNCHANGED <<optionFiles, cfgBackup, cfgStrayed>>

(* remove_section leaves the files of its options recorded. *)
RemoveSection(s) ==
  /\ Edits /\ sectionFiles[s] # {} /\ \A f \in sectionFiles[s] : cfgRaw[f][s] # None
  /\ cfgRaw' = [f \in ConfigFiles |-> IF f \in sectionFiles[s] THEN [cfgRaw[f] EXCEPT ![s] = None]
                                      ELSE cfgRaw[f]]
  /\ cfgPending' = cfgPending \cup sectionFiles[s]
  /\ sectionFiles' = [sectionFiles EXCEPT ![s] = {}]
  /\ cfgParsed' = [cfgParsed EXCEPT ![s] = None]
  /\ UNCHANGED <<optionFiles, cfgBackup, cfgStrayed>>
-----------------------------------------------------------------------------
(* Transactions *)

(* Mutant: the parsed values stay. *)
WithoutValues(b) == [b EXCEPT !.parsed = cfgParsed]
(* All that cancel puts back. *)
PutBack(b) == b

BackupSource ==
  /\ Unlocked /\ cfgBackup = None /\ Spends("asks")
  /\ cfgBackup' = [raw |-> cfgRaw, sections |-> sectionFiles, options |-> optionFiles,
                   parsed |-> cfgParsed]
  /\ cfgStrayed' = (cfgStrayed \/ cfgPending # {})
  /\ UNCHANGED <<pc, includeFirst, cfgDisk, cfgRaw, cfgParsed, sectionFiles, optionFiles,
                 cfgPending,
                 cfgWriting>>
  /\ PrinterStays

CancelEdits ==
  /\ Unlocked /\ cfgBackup # None /\ cfgBackup' = None
  /\ IF cfgPending = {} THEN UNCHANGED <<cfgRaw, cfgParsed, sectionFiles, optionFiles>>
     ELSE LET b == PutBack(cfgBackup) IN
          /\ cfgRaw' = b.raw /\ cfgParsed' = b.parsed
          /\ sectionFiles' = b.sections /\ optionFiles' = b.options
  /\ cfgPending' = {}
  /\ UNCHANGED <<pc, left, includeFirst, cfgDisk, cfgWriting, cfgStrayed>> /\ PrinterStays

(* save: a thread writes the files, one by one; an error leaves what is pending. *)
SaveBegins ==
  /\ Unlocked /\ cfgPending # {} /\ Goes("worker", "saving")
  /\ cfgWriting' = cfgPending /\ cfgBackup' = None
  /\ UNCHANGED <<left, includeFirst, cfgDisk, cfgRaw, cfgParsed, sectionFiles, optionFiles,
                 cfgPending,
                 cfgStrayed>>
  /\ PrinterStays

FileSaved ==
  /\ pc["worker"] = "saving"
  /\ IF cfgWriting = {}
     THEN /\ Goes("worker", "idle") /\ cfgWriting' = None /\ cfgPending' = {}
          /\ UNCHANGED <<left, cfgDisk>>
     ELSE \/ \E f \in cfgWriting :
               /\ cfgDisk' = [cfgDisk EXCEPT ![f] = cfgRaw[f]]
               /\ cfgWriting' = cfgWriting \ {f}
               /\ UNCHANGED <<pc, left, cfgPending>>
          \/ \E f \in cfgWriting :
               /\ Spends("failures") /\ cfgDisk' = [cfgDisk EXCEPT ![f] = NoSections]
               /\ Goes("worker", "idle") /\ cfgWriting' = None /\ UNCHANGED cfgPending
  /\ UNCHANGED <<includeFirst, cfgRaw, cfgParsed, sectionFiles, optionFiles, cfgBackup, cfgStrayed>>
  /\ PrinterStays

(* _do_revert reads the files again, in a thread. *)
Reverts ==
  /\ Unlocked /\ cfgPending # {} /\ Spends("asks") /\ Goes("worker", "reverting")
  /\ cfgBackup' = None
  /\ cfgRaw' = [f \in ConfigFiles |-> NoSections] /\ cfgParsed' = NoSections
  /\ UNCHANGED <<includeFirst, cfgDisk, sectionFiles, optionFiles, cfgPending, cfgWriting,
                 cfgStrayed>>
  /\ PrinterStays

Reverted ==
  /\ pc["worker"] = "reverting" /\ Goes("worker", "idle")
  /\ Read(cfgDisk)
  /\ UNCHANGED <<left, includeFirst, cfgDisk, cfgBackup, cfgWriting, cfgStrayed>> /\ PrinterStays

ConfigFileNext ==
  \/ \E s \in Section :
       \/ AddSection(s) \/ RemoveSection(s)
       \/ \E o \in CfgOption : RemoveOption(s, o) \/ \E v \in Setting : SetOption(s, o, v)
  \/ BackupSource \/ CancelEdits \/ SaveBegins \/ FileSaved \/ Reverts \/ Reverted

ConfigFileWorks(t) == t = "worker" /\ (FileSaved \/ Reverted)

(* What is parsed is what the edited files say, and what is not pending is saved, *)
(* but where a line that ends in blanks was taken for the continuation of an       *)
(* option that is edited (confighelper.py:916), an option was set whose section      *)
(* had been removed from its file (805) or a transaction began with changes           *)
(* pending (590).                                                                      *)
ConfigMatchesFiles ==
  Unlocked /\ ~cfgStrayed =>
    /\ cfgParsed = Parse(cfgRaw)
    /\ \A s \in Section : sectionFiles[s] = FilesOf(cfgRaw, s)
    /\ \A f \in ConfigFiles \ cfgPending : cfgDisk[f] = cfgRaw[f]
=============================================================================

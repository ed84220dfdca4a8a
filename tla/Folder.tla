------------------------------- MODULE Folder -------------------------------
(***************************************************************************)
(* The notebook folder: what the disk thread does to the files of          *)
(* notebooks (folder.cpp), and what is left of it when the process dies.   *)
(*                                                                         *)
(* A text is known by the number of the save that first wrote it, a file   *)
(* also by the time of its last write, which several writes may share: the *)
(* clock that stamps files ticks.  Every job of the disk thread that a     *)
(* reader could see halfway is several steps: a save truncates the         *)
(* notebook before it writes it, a stored result moves three files.        *)
(* The queue of the disk thread is left out: two jobs that are posted are  *)
(* posted by different threads, and either may be first.                   *)
(***************************************************************************)
EXTENDS Integers

CONSTANTS
    Names,      \* paths of notebooks, relative to the workspace
    Targets,    \* those that a MOVE may name as its destination
    MaxWrites,  \* bound on saves and results
    MaxClock,   \* bound on the ticks of the clock
    MaxFaults   \* bound on failed saves and on crashes

ASSUME FolderAssumption ==
    /\ Names # {} /\ Targets \subseteq Names
    /\ MaxWrites \in Nat \ {0} /\ MaxClock \in Nat \ {0} /\ MaxFaults \in Nat

VARIABLES
    file,       \* the notebook under each name
    bak,        \* its .bak, while a result replaces it
    temp,       \* the file an evaluation's result is written to
    eval,       \* the evaluation whose result is to be stored
    disk,       \* the job the disk thread is in the middle of
    texts,      \* the number of saves and results so far
    clock,      \* the time of the last write
    kept,       \* ghost: the text that was stored under the name and not taken away, 0 if none
    faults      \* failed saves and crashes so far

folderVars == <<file, bak, temp, eval, disk, texts, clock, kept, faults>>

Codes == 0..MaxWrites
Times == 0..MaxClock

(* A file: its text, its time (0: the file does not exist), whether it was written to its end, *)
(* and how it came under its name; a result that replaces a moved notebook counts as moved.   *)
Files == [code: Codes, time: Times, whole: BOOLEAN, by: {"save", "result", "move"}]
NoFile == [code |-> 0, time |-> 0, whole |-> FALSE, by |-> "save"]
Exists(f) == f.time # 0

Resting == [op |-> "none", name |-> CHOOSE n \in Names: TRUE, stage |-> 0]
Jobs == [op: {"none", "save", "store"}, name: Names, stage: 0..3]
AtRest == disk.op = "none"

NoEval == [name |-> CHOOSE n \in Names: TRUE, code |-> 0]
Evals == [name: Names, code: Codes]
Evaluating == eval.code # 0

FolderTypeOK ==
    /\ file \in [Names -> Files] /\ bak \in [Names -> Files] /\ temp \in Files
    /\ eval \in Evals
    /\ disk \in Jobs
    /\ texts \in Codes /\ clock \in Times
    /\ kept \in [Names -> Codes]
    /\ faults \in 0..MaxFaults

(* The workspace the server is started on: some notebooks, saved at time 1.  How many saves, *)
(* results and faults there may still be is open.                                            *)
FolderInit ==
    /\ file \in [Names -> {NoFile, [code |-> 1, time |-> 1, whole |-> TRUE, by |-> "save"]}]
    /\ bak = [n \in Names |-> NoFile]
    /\ temp = NoFile
    /\ eval = NoEval
    /\ disk = Resting
    /\ texts \in Codes \ {0} /\ clock = 1
    /\ kept = [n \in Names |-> file[n].code]
    /\ faults \in 0..MaxFaults

-----------------------------------------------------------------------------
(* What is written now has the time of the write before, or a later one. *)
Stamps == {t \in {clock, clock + 1} : t <= MaxClock}

(* PUT of a notebook: opening the stream truncates the file. *)
SaveBegin(n) ==
    /\ AtRest /\ texts < MaxWrites
    /\ texts' = texts + 1
    /\ clock' \in Stamps
    /\ file' = [file EXCEPT ![n] =
                  [code |-> texts + 1, time |-> clock', whole |-> FALSE, by |-> "save"]]
    /\ kept' = [kept EXCEPT ![n] = 0]
    /\ disk' = [op |-> "save", name |-> n, stage |-> 0]
    /\ UNCHANGED <<bak, temp, eval, faults>>

(* ... the cells are written and the stream is closed. *)
SaveEnd(n) ==
    /\ disk.op = "save" /\ disk.name = n
    /\ clock' \in Stamps
    /\ file' = [file EXCEPT ![n].whole = TRUE, ![n].time = clock']
    /\ kept' = [kept EXCEPT ![n] = file[n].code]
    /\ disk' = Resting
    /\ UNCHANGED <<bak, temp, eval, texts, faults>>

(* ... or something throws: the notebook is removed, and nobody is told. *)
SaveFails(n) ==
    /\ disk.op = "save" /\ disk.name = n /\ faults < MaxFaults
    /\ faults' = faults + 1
    /\ file' = [file EXCEPT ![n] = NoFile]
    /\ disk' = Resting
    /\ UNCHANGED <<bak, temp, eval, texts, clock, kept>>

(* MOVE: what the destination held is replaced, and the time goes with the file. *)
Move(n, m) ==
    /\ AtRest /\ Exists(file[n]) /\ m \in Targets \ {n}
    /\ file' = [file EXCEPT ![m] = [file[n] EXCEPT !.by = "move"], ![n] = NoFile]
    /\ kept' = [kept EXCEPT ![m] = IF file[n].whole THEN file[n].code ELSE 0, ![n] = 0]
    /\ UNCHANGED <<bak, temp, eval, disk, texts, clock, faults>>

Remove(n) ==
    /\ AtRest /\ Exists(file[n])
    /\ file' = [file EXCEPT ![n] = NoFile]
    /\ kept' = [kept EXCEPT ![n] = 0]
    /\ UNCHANGED <<bak, temp, eval, disk, texts, clock, faults>>

-----------------------------------------------------------------------------
(* PUT of a result: the text is read, a pool evaluates its cells and writes *)
(* them with their outputs to a file of its own.                            *)
ResultLoad(n) ==
    /\ AtRest /\ ~Evaluating /\ Exists(file[n]) /\ texts < MaxWrites
    /\ texts' = texts + 1
    /\ eval' = [name |-> n, code |-> file[n].code]
    /\ UNCHANGED <<file, bak, temp, disk, clock, kept, faults>>

(* That file is closed on the disk thread.  If the notebook is gone, its backup fails and the *)
(* new file is left where it is.                                                              *)
ResultClose ==
    /\ AtRest /\ Evaluating
    /\ clock' \in Stamps
    /\ IF Exists(file[eval.name])
         THEN /\ temp' = [code |-> eval.code, time |-> clock', whole |-> TRUE, by |-> "result"]
              /\ disk' = [op |-> "store", name |-> eval.name, stage |-> 1]
         ELSE UNCHANGED <<temp, disk>>
    /\ eval' = NoEval
    /\ UNCHANGED <<file, bak, texts, kept, faults>>

(* Defect: the notebook is removed, not kept as a backup. *)
BackupNone(n) ==
    /\ disk.op = "store" /\ disk.name = n /\ disk.stage = 1
    /\ file' = [file EXCEPT ![n] = NoFile]
    /\ disk' = [disk EXCEPT !.stage = 2]
    /\ UNCHANGED <<bak, temp, eval, texts, clock, kept, faults>>

(* The three calls that put the result in the notebook's place. *)
Backup(n) ==
    /\ disk.op = "store" /\ disk.name = n /\ disk.stage = 1
    /\ bak' = [bak EXCEPT ![n] = file[n]]
    /\ file' = [file EXCEPT ![n] = NoFile]
    /\ disk' = [disk EXCEPT !.stage = 2]
    /\ UNCHANGED <<temp, eval, texts, clock, kept, faults>>

Replace(n) ==
    /\ disk.op = "store" /\ disk.name = n /\ disk.stage = 2
    /\ file' = [file EXCEPT ![n] = IF bak[n].by = "move" THEN [temp EXCEPT !.by = "move"] ELSE temp]
    /\ temp' = NoFile
    /\ kept' = [kept EXCEPT ![n] = temp.code]
    /\ disk' = [disk EXCEPT !.stage = 3]
    /\ UNCHANGED <<bak, eval, texts, clock, faults>>

Discard(n) ==
    /\ disk.op = "store" /\ disk.name = n /\ disk.stage = 3
    /\ bak' = [bak EXCEPT ![n] = NoFile]
    /\ disk' = Resting
    /\ UNCHANGED <<file, temp, eval, texts, clock, kept, faults>>

(* The process dies: files stay as they are, in the middle of a job as well. *)
Die ==
    /\ faults < MaxFaults
    /\ faults' = faults + 1
    /\ temp' = NoFile
    /\ eval' = NoEval
    /\ disk' = Resting
    /\ UNCHANGED <<file, bak, texts, clock, kept>>

FolderNext ==
    \/ \E n \in Names:
         \/ SaveBegin(n) \/ SaveEnd(n) \/ SaveFails(n) \/ Remove(n)
         \/ \E m \in Names: Move(n, m)
         \/ ResultLoad(n) \/ Backup(n) \/ Replace(n) \/ Discard(n)
    \/ ResultClose \/ Die

(* The folder by itself, whoever it serves. *)
FolderSpec == FolderInit /\ [][FolderNext]_folderVars

-----------------------------------------------------------------------------
(* The text that was stored under a name and that no save, move or removal took away since is  *)
(* still in the folder, under its name or as its backup, after a crash between any two renames *)
(* as well (Folder::File::~File).  In-place saves are excepted: the text is given up when one  *)
(* begins.  And so are results: one that was computed from an older text takes the place of    *)
(* what was saved meanwhile, and what is kept is the older text (folder.cpp:613).              *)
Holds(f, c) == f.whole /\ f.code = c
TextSurvives == \A n \in Names: kept[n] # 0 => Holds(file[n], kept[n]) \/ Holds(bak[n], kept[n])

(* What it rests on: how far a save or a store has come, and what it has left by then. *)
Storing == disk.op = "store" /\ disk.stage \in {1, 2}

SaveStages == disk.op = "save" => kept[disk.name] = 0 /\ Exists(file[disk.name])

StoreStages ==
    /\ disk.op = "store" => disk.stage \in 1..3
    /\ Storing => Exists(temp) /\ temp.whole /\ temp.by = "result"
    /\ disk.op = "store" /\ disk.stage = 1 => Exists(file[disk.name])
    /\ disk.op = "store" /\ disk.stage = 2 =>
         /\ kept[disk.name] # 0 => Holds(bak[disk.name], kept[disk.name])
         /\ ~Exists(file[disk.name]) /\ Exists(bak[disk.name])
    /\ disk.op = "store" /\ disk.stage = 3 => Holds(file[disk.name], kept[disk.name])

KeptWhole == \A n \in Names: kept[n] # 0 /\ Exists(file[n]) => Holds(file[n], kept[n])

(* No time is later than the clock, which has ticked. *)
Timely ==
    /\ clock # 0
    /\ \A n \in Names: file[n].time <= clock /\ bak[n].time <= clock
    /\ temp.time <= clock

FolderInv == FolderTypeOK /\ TextSurvives /\ SaveStages /\ StoreStages /\ KeptWhole /\ Timely

=============================================================================

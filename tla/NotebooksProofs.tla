--------------------------- MODULE NotebooksProofs ---------------------------
(* What the folder keeps through crashes, that runs are current, and what the timers and the  *)
(* plugin know, whoever saves, renames, deletes or stores meanwhile, for any number of        *)
(* notebooks, of writes, and of ticks of the clock that stamps them.                          *)
EXTENDS Notebooks, TLAPS

-----------------------------------------------------------------------------
(* The folder by itself (Folder). *)
LEMMA NamesChosen == (CHOOSE n \in Names: TRUE) \in Names
  BY FolderAssumption

(* What is put into variables has its type. *)
LEMMA Values ==
    /\ NoFile \in Files /\ ~Exists(NoFile) /\ NoFile.whole = FALSE /\ NoFile.by = "save"
    /\ NoFile.time = 0 /\ NoFile.code = 0
    /\ Resting \in Jobs /\ Resting.op = "none"
    /\ NoEval \in Evals /\ NoEval.code = 0
  BY NamesChosen, FolderAssumption
     DEF NoFile, Resting, Jobs, NoEval, Evals, Files, Codes, Times, Exists

(* The fields of what the variables hold. *)
LEMMA Fields ==
    ASSUME FolderTypeOK
    PROVE  /\ \A n \in Names:
                /\ file[n] \in Files /\ file[n].code \in Codes /\ file[n].time \in Times
                /\ file[n].whole \in BOOLEAN
                /\ bak[n] \in Files /\ bak[n].whole \in BOOLEAN /\ bak[n].time \in Times
                /\ bak[n].code \in Codes
                /\ kept[n] \in Codes
           /\ temp \in Files /\ temp.code \in Codes /\ temp.time \in Times /\ temp.whole \in BOOLEAN
           /\ eval.name \in Names /\ eval.code \in Codes
           /\ disk.op \in {"none", "save", "store"} /\ disk.name \in Names /\ disk.stage \in 0..3
           /\ clock \in Nat /\ clock <= MaxClock /\ texts \in Nat /\ texts <= MaxWrites
  BY FolderAssumption DEF FolderTypeOK, Files, Evals, Jobs, Codes, Times

(* What is written has a time, no earlier than the clock was. *)
LEMMA Stamped == ASSUME FolderTypeOK, NEW t \in Stamps PROVE t \in Times /\ t >= clock
  BY Fields, FolderAssumption DEF Stamps, Times

LEMMA TickedOnce == ASSUME FolderInv, NEW t \in Stamps PROVE t # 0
  BY Stamped, Fields, FolderAssumption DEF FolderInv, Timely, Times

LEMMA FolderInitInv == FolderInit => FolderInv
  <1> DEFINE First == [code |-> 1, time |-> 1, whole |-> TRUE, by |-> "save"]
  <1> SUFFICES ASSUME FolderInit PROVE FolderInv
    OBVIOUS
  <1>1. \A n \in Names: (file[n] = NoFile \/ file[n] = First) /\ kept[n] = file[n].code
    BY DEF FolderInit
  <1>2. First \in Files /\ First.code = 1 /\ First.time = 1 /\ First.whole = TRUE
    BY FolderAssumption DEF Files, Codes, Times
  <1>3. FolderTypeOK
    <2>1. file \in [Names -> Files]
      BY <1>2, Values DEF FolderInit
    <2>2. bak \in [Names -> Files]
      BY Values DEF FolderInit
    <2>3. clock \in Times /\ texts \in Codes /\ faults \in 0..MaxFaults
      BY FolderAssumption DEF FolderInit, Times, Codes
    <2>4. kept \in [Names -> Codes]
      BY <1>1, <1>2, Values DEF FolderInit, Files
    <2> QED
      BY <2>1, <2>2, <2>3, <2>4, Values DEF FolderInit, FolderTypeOK
  <1>4. \A n \in Names: /\ kept[n] # 0 => Holds(file[n], kept[n])
                        /\ file[n].time <= 1
    <2> TAKE n \in Names
    <2>1. CASE file[n] = NoFile
      BY <1>1, <2>1, Values
    <2>2. CASE file[n] = First
      BY <1>1, <1>2, <2>2 DEF Holds
    <2> QED
      BY <1>1, <2>1, <2>2
  <1>5. SaveStages /\ StoreStages
    BY Values DEF FolderInit, SaveStages, StoreStages, Storing
  <1>6. Timely
    BY <1>4, Values DEF FolderInit, Timely
  <1> QED
    BY <1>3, <1>4, <1>5, <1>6 DEF FolderInv, TextSurvives, KeptWhole

(* Every step keeps what the variables are. *)
LEMMA TypeStep == FolderInv /\ [FolderNext]_folderVars => FolderTypeOK'
  <1> SUFFICES ASSUME FolderInv, [FolderNext]_folderVars PROVE FolderTypeOK'
    OBVIOUS
  <1>0. FolderTypeOK
    BY DEF FolderInv
  <1> USE <1>0
  <1>z. 0 \in Codes
    BY FolderAssumption DEF Codes
  <1>1. ASSUME NEW n \in Names, SaveBegin(n) PROVE FolderTypeOK'
    <2>1. clock' \in Times
      BY <1>1, Stamped DEF SaveBegin
    <2>2. texts + 1 \in Codes
      BY <1>1, Fields, FolderAssumption DEF SaveBegin, Codes
    <2>3. [code |-> texts + 1, time |-> clock', whole |-> FALSE, by |-> "save"] \in Files
      BY <2>1, <2>2 DEF Files
    <2>4. disk' \in Jobs
      BY <1>1 DEF SaveBegin, Jobs
    <2> QED
      BY <1>1, <1>z, <2>1, <2>2, <2>3, <2>4 DEF SaveBegin, FolderTypeOK
  <1>2. ASSUME NEW n \in Names, SaveEnd(n) PROVE FolderTypeOK'
    <2>0. clock' \in Times
      BY <1>2, Stamped DEF SaveEnd
    <2>1. [file[n] EXCEPT !.whole = TRUE, !.time = clock'] \in Files
      BY <2>0, Fields DEF Files
    <2>2. file' = [file EXCEPT ![n] = [file[n] EXCEPT !.whole = TRUE, !.time = clock']]
      BY <1>2, Fields DEF SaveEnd, Files, FolderTypeOK
    <2>3. kept' \in [Names -> Codes]
      BY <1>2, Fields DEF SaveEnd, FolderTypeOK
    <2> QED
      BY <1>2, <2>0, <2>1, <2>2, <2>3, Values DEF SaveEnd, FolderTypeOK
  <1>3. ASSUME NEW n \in Names, SaveFails(n) PROVE FolderTypeOK'
    <2>1. faults' \in 0..MaxFaults
      BY <1>3, FolderAssumption DEF SaveFails, FolderTypeOK
    <2> QED
      BY <1>3, <2>1, Values DEF SaveFails, FolderTypeOK
  <1>4. ASSUME NEW n \in Names, Remove(n) PROVE FolderTypeOK'
    BY <1>4, <1>z, Values DEF Remove, FolderTypeOK
  <1>5. ASSUME NEW n \in Names, NEW m \in Names, Move(n, m) PROVE FolderTypeOK'
    <2>0. [file[n] EXCEPT !.by = "move"] \in Files
      BY Fields DEF Files
    <2>1. file' \in [Names -> Files]
      BY <1>5, <2>0, Values DEF Move, FolderTypeOK
    <2>2. kept' \in [Names -> Codes]
      BY <1>5, <1>z, Fields DEF Move, FolderTypeOK
    <2> QED
      BY <1>5, <2>1, <2>2 DEF Move, FolderTypeOK
  <1>6. ASSUME NEW n \in Names, ResultLoad(n) PROVE FolderTypeOK'
    <2>1. eval' \in Evals
      BY <1>6, Fields DEF ResultLoad, Evals
    <2>2. texts' \in Codes
      BY <1>6, Fields, FolderAssumption DEF ResultLoad, Codes
    <2> QED
      BY <1>6, <2>1, <2>2 DEF ResultLoad, FolderTypeOK
  <1>7. ASSUME NEW n \in Names, Backup(n) PROVE FolderTypeOK'
    <2>1. disk' \in Jobs
      BY <1>7, Fields DEF Backup, Jobs, FolderTypeOK
    <2> QED
      BY <1>7, <2>1, Values, Fields DEF Backup, FolderTypeOK
  <1>8. ASSUME NEW n \in Names, Replace(n) PROVE FolderTypeOK'
    <2>1. disk' \in Jobs
      BY <1>8, Fields DEF Replace, Jobs, FolderTypeOK
    <2>2. [temp EXCEPT !.by = "move"] \in Files
      BY Fields DEF Files
    <2>3. file' \in [Names -> Files]
      BY <1>8, <2>2, Fields DEF Replace, FolderTypeOK
    <2>4. kept' \in [Names -> Codes]
      BY <1>8, Fields DEF Replace, FolderTypeOK
    <2> QED
      BY <1>8, <2>1, <2>3, <2>4, Values DEF Replace, FolderTypeOK
  <1>9. ASSUME NEW n \in Names, Discard(n) PROVE FolderTypeOK'
    BY <1>9, Values DEF Discard, FolderTypeOK
  <1>10. ASSUME ResultClose PROVE FolderTypeOK'
    <2>1. clock' \in Times
      BY <1>10, Stamped DEF ResultClose
    <2>2. [code |-> eval.code, time |-> clock', whole |-> TRUE, by |-> "result"] \in Files
      BY <2>1, Fields DEF Files
    <2>3. [op |-> "store", name |-> eval.name, stage |-> 1] \in Jobs
      BY Fields DEF Jobs
    <2> QED
      BY <1>10, <2>1, <2>2, <2>3, Values DEF ResultClose, FolderTypeOK
  <1>11. ASSUME Die PROVE FolderTypeOK'
    <2>1. faults' \in 0..MaxFaults
      BY <1>11, FolderAssumption DEF Die, FolderTypeOK
    <2> QED
      BY <1>11, <2>1, Values DEF Die, FolderTypeOK
  <1>12. CASE UNCHANGED folderVars
    BY <1>12 DEF folderVars, FolderTypeOK
  <1> QED
    BY <1>1, <1>2, <1>3, <1>4, <1>5, <1>6, <1>7, <1>8, <1>9, <1>10, <1>11, <1>12
       DEF FolderNext

(* No step takes the clock back, or gives a time that is later than the clock. *)
LEMMA TimelyStep == FolderInv /\ [FolderNext]_folderVars => Timely'
  <1> SUFFICES ASSUME FolderInv, [FolderNext]_folderVars PROVE Timely'
    OBVIOUS
  <1>0. FolderTypeOK /\ file \in [Names -> Files] /\ bak \in [Names -> Files] /\ clock \in Nat
    BY Fields DEF FolderInv, FolderTypeOK
  <1>1. clock' \in Nat /\ clock <= clock'
    <2>1. clock' \in Nat
      BY TypeStep, FolderAssumption DEF FolderTypeOK, Times
    <2>2. clock' \in Stamps \/ clock' = clock
      BY DEF FolderNext, SaveBegin, SaveEnd, SaveFails, Move, Remove, ResultLoad, ResultClose,
             Backup, Replace, Discard, Die, folderVars
    <2> QED
      BY <2>1, <2>2, <1>0, Stamped
  <1>2. /\ \A n \in Names: file[n].time \in Nat /\ file[n].time <= clock
        /\ \A n \in Names: bak[n].time \in Nat /\ bak[n].time <= clock
        /\ temp.time \in Nat /\ temp.time <= clock
    BY <1>0, Fields, FolderAssumption DEF FolderInv, Timely, Times
  <1> DEFINE Old(f) == f.time \in Nat /\ f.time <= clock
  <1>3. /\ \A f: Old(f) => f.time <= clock'
        /\ Old(NoFile) /\ \A n \in Names: Old(file[n]) /\ Old(bak[n])
        /\ Old(temp)
    BY <1>0, <1>1, <1>2, Values
  <1>4. \A n \in Names: file'[n].time <= clock'
    <2> SUFFICES ASSUME NEW b \in Names PROVE file'[b].time <= clock'
      OBVIOUS
    <2>1. ASSUME NEW n \in Names, SaveBegin(n) \/ SaveEnd(n) PROVE file'[b].time <= clock'
      <3>1. file'[n].time = clock' /\ (b # n => file'[b] = file[b])
        BY <2>1, <1>0 DEF SaveBegin, SaveEnd, Files
      <3> QED
        BY <3>1, <1>1, <1>3
    <2>2. ASSUME NEW n \in Names, NEW m \in Names, Move(n, m) PROVE file'[b].time <= clock'
      <3>1. \/ file'[b] = file[b] \/ file'[b] = NoFile
            \/ file'[b].time = file[n].time
        BY <2>2, <1>0 DEF Move, Files
      <3> QED
        BY <3>1, <1>1, <1>2, <1>3
    <2>3. ASSUME NEW n \in Names, SaveFails(n) \/ Remove(n) \/ Backup(n)
          PROVE  file'[b].time <= clock'
      <3>1. file'[b] = file[b] \/ file'[b] = NoFile
        BY <2>3, <1>0 DEF SaveFails, Remove, Backup
      <3> QED
        BY <3>1, <1>3
    <2>4. ASSUME NEW n \in Names, Replace(n) PROVE file'[b].time <= clock'
      <3>1. temp \in Files
        BY <1>0, Fields
      <3>2. file'[b] = file[b] \/ file'[b].time = temp.time
        BY <2>4, <3>1, <1>0 DEF Replace, Files
      <3> QED
        BY <3>2, <1>1, <1>2, <1>3
    <2>5. CASE file' = file
      BY <2>5, <1>3
    <2> QED
      BY <2>1, <2>2, <2>3, <2>4, <2>5
         DEF FolderNext, ResultLoad, ResultClose, Discard, Die, folderVars
  <1>5. \A n \in Names: bak'[n].time <= clock'
    <2> SUFFICES ASSUME NEW b \in Names PROVE bak'[b].time <= clock'
      OBVIOUS
    <2>1. ASSUME NEW n \in Names, Backup(n) \/ Discard(n) PROVE bak'[b].time <= clock'
      <3>1. bak'[b] = bak[b] \/ bak'[b] = file[b] \/ bak'[b] = NoFile
        BY <2>1, <1>0 DEF Backup, Discard
      <3> QED
        BY <3>1, <1>3
    <2>2. CASE bak' = bak
      BY <2>2, <1>3
    <2> QED
      BY <2>1, <2>2 DEF FolderNext, SaveBegin, SaveEnd, SaveFails, Move, Remove, ResultLoad,
                        ResultClose, Replace, Die, folderVars
  <1>6. temp'.time <= clock'
    <2>1. CASE ResultClose
      <3>1. CASE Exists(file[eval.name])
        <4>1. temp'.time = clock'
          BY <2>1, <3>1 DEF ResultClose
        <4> QED
          BY <4>1, <1>1
      <3>2. CASE ~Exists(file[eval.name])
        BY <2>1, <3>2, <1>3 DEF ResultClose
      <3> QED
        BY <3>1, <3>2
    <2>2. CASE temp' = temp \/ temp' = NoFile
      BY <2>2, <1>3
    <2> QED
      BY <2>1, <2>2 DEF FolderNext, SaveBegin, SaveEnd, SaveFails, Move, Remove, ResultLoad,
                        Backup, Replace, Discard, Die, folderVars
  <1> QED
    BY <1>0, <1>1, <1>4, <1>5, <1>6 DEF Timely, FolderInv

(* Every step keeps what is true of the stages of a job and of the texts that are kept. *)
LEMMA ChangeStep == FolderInv /\ [FolderNext]_folderVars
                      => (TextSurvives /\ SaveStages /\ StoreStages /\ KeptWhole)'
  <1> DEFINE Rest == TextSurvives /\ SaveStages /\ StoreStages /\ KeptWhole
  <1> SUFFICES ASSUME FolderInv, [FolderNext]_folderVars PROVE Rest'
    OBVIOUS
  <1>0. FolderTypeOK /\ FolderTypeOK'
    BY TypeStep DEF FolderInv
  <1>f. /\ file \in [Names -> Files] /\ bak \in [Names -> Files] /\ kept \in [Names -> Codes]
        /\ Rest
    BY <1>0 DEF FolderInv, FolderTypeOK
  <1>F. /\ temp \in Files /\ eval.name \in Names
        /\ disk \in Jobs /\ disk.name \in Names
        /\ disk.op \in {"none", "save", "store"} /\ disk.stage \in 0..3
    BY <1>0, Fields, FolderAssumption DEF FolderTypeOK
  <1>c. clock \in Nat /\ clock' \in Nat /\ texts \in Nat /\ clock >= 0
    BY <1>0, Fields, FolderAssumption DEF FolderTypeOK, Times
  <1>1. ASSUME NEW n \in Names, SaveBegin(n) PROVE Rest'
    <2>1. /\ \A m \in Names \ {n}: file'[m] = file[m] /\ kept'[m] = kept[m]
          /\ file'[n].time = clock'
          /\ kept'[n] = 0 /\ bak' = bak /\ temp' = temp
          /\ disk' = [op |-> "save", name |-> n, stage |-> 0]
      BY <1>1, <1>f DEF SaveBegin
    <2>2. Exists(file'[n])
      BY <2>1, <1>1, <1>0, TickedOnce DEF SaveBegin, FolderInv, Exists
    <2>3. TextSurvives' /\ KeptWhole'
      BY <2>1, <1>f DEF TextSurvives, KeptWhole
    <2>4. SaveStages' /\ StoreStages'
      BY <2>1, <2>2 DEF SaveStages, StoreStages, Storing
    <2> QED
      BY <2>3, <2>4
  <1>2. ASSUME NEW n \in Names, SaveEnd(n) PROVE Rest'
    <2>1. /\ \A m \in Names \ {n}: file'[m] = file[m] /\ kept'[m] = kept[m]
          /\ file'[n].whole = TRUE /\ kept'[n] = file[n].code
          /\ file'[n].code = file[n].code
          /\ bak' = bak /\ temp' = temp
          /\ disk' = Resting
      BY <1>2, <1>f DEF SaveEnd, Files
    <2>2. TextSurvives' /\ KeptWhole'
      BY <2>1, <1>f DEF TextSurvives, KeptWhole, Holds
    <2>3. SaveStages' /\ StoreStages'
      BY <2>1, Values DEF SaveStages, StoreStages, Storing
    <2> QED
      BY <2>2, <2>3
  <1>3. ASSUME NEW n \in Names, SaveFails(n) \/ Remove(n) PROVE Rest'
    <2>1. /\ \A m \in Names \ {n}: file'[m] = file[m] /\ kept'[m] = kept[m]
          /\ file'[n] = NoFile /\ kept'[n] = 0
          /\ bak' = bak /\ temp' = temp
          /\ disk'.op = "none"
      <3>1. CASE SaveFails(n)
        BY <3>1, <1>f, Values DEF SaveFails, SaveStages
      <3>2. CASE Remove(n)
        BY <3>2, <1>f DEF Remove, AtRest
      <3> QED
        BY <1>3, <3>1, <3>2
    <2>2. TextSurvives' /\ KeptWhole'
      BY <2>1, <1>f DEF TextSurvives, KeptWhole
    <2>3. SaveStages' /\ StoreStages'
      BY <2>1 DEF SaveStages, StoreStages, Storing
    <2> QED
      BY <2>2, <2>3
  <1>4. ASSUME NEW n \in Names, NEW m \in Names, Move(n, m) PROVE Rest'
    <2>0. n # m /\ m \in Names
      BY <1>4 DEF Move
    <2>1. /\ \A k \in Names \ {n, m}: file'[k] = file[k] /\ kept'[k] = kept[k]
          /\ file'[n] = NoFile /\ kept'[n] = 0
          /\ file'[m].whole = file[n].whole /\ file'[m].code = file[n].code
          /\ kept'[m] = (IF file[n].whole THEN file[n].code ELSE 0)
          /\ bak' = bak /\ temp' = temp
          /\ disk'.op = "none"
      BY <1>4, <2>0, <1>f DEF Move, AtRest, Files
    <2>2. TextSurvives'
      BY <2>1, <1>f DEF TextSurvives, Holds
    <2>3. KeptWhole'
      BY <2>1, <1>f DEF KeptWhole, Holds
    <2>4. SaveStages' /\ StoreStages'
      BY <2>1 DEF SaveStages, StoreStages, Storing
    <2> QED
      BY <2>2, <2>3, <2>4
  <1>5. ASSUME NEW n \in Names, ResultLoad(n) PROVE Rest'
    BY <1>5, <1>f DEF ResultLoad, TextSurvives, KeptWhole, SaveStages, StoreStages, Storing
  <1>6. ASSUME NEW n \in Names, Backup(n) PROVE Rest'
    <2>1. /\ \A m \in Names \ {n}: file'[m] = file[m] /\ bak'[m] = bak[m]
          /\ file'[n] = NoFile /\ bak'[n] = file[n]
          /\ kept' = kept /\ temp' = temp
          /\ disk.op = "store" /\ disk.name = n /\ disk.stage = 1
          /\ disk'.op = "store" /\ disk'.name = n /\ disk'.stage = 2
      BY <1>6, <1>f, <1>F DEF Backup, Jobs
    <2>2. Exists(file[n])
      BY <2>1, <1>f DEF StoreStages
    <2>3. kept[n] # 0 => Holds(bak'[n], kept[n])
      BY <2>1, <2>2, <1>f DEF KeptWhole
    <2>4. TextSurvives' /\ KeptWhole'
      BY <2>1, <2>3, <1>f, Values DEF TextSurvives, KeptWhole
    <2>5. StoreStages'
      BY <2>1, <2>2, <2>3, <1>f, Values DEF StoreStages, Storing
    <2>6. SaveStages'
      BY <2>1 DEF SaveStages
    <2> QED
      BY <2>4, <2>5, <2>6
  <1>7. ASSUME NEW n \in Names, Replace(n) PROVE Rest'
    <2>1. /\ \A m \in Names \ {n}: file'[m] = file[m] /\ kept'[m] = kept[m]
          /\ file'[n].whole = temp.whole /\ file'[n].code = temp.code /\ kept'[n] = temp.code
          /\ bak' = bak
          /\ disk.op = "store" /\ disk.name = n /\ disk.stage = 2
          /\ disk'.op = "store" /\ disk'.name = n /\ disk'.stage = 3
      BY <1>7, <1>f, <1>F DEF Replace, Jobs, Files
    <2>2. Holds(file'[n], kept'[n])
      BY <2>1, <1>f DEF StoreStages, Storing, Holds
    <2>3. TextSurvives' /\ KeptWhole'
      BY <2>1, <2>2, <1>f DEF TextSurvives, KeptWhole
    <2>4. StoreStages' /\ SaveStages'
      BY <2>1, <2>2 DEF StoreStages, Storing, SaveStages
    <2> QED
      BY <2>3, <2>4
  <1>8. ASSUME NEW n \in Names, Discard(n) PROVE Rest'
    <2>1. /\ \A m \in Names \ {n}: bak'[m] = bak[m]
          /\ file' = file /\ kept' = kept /\ temp' = temp
          /\ disk.op = "store" /\ disk.name = n /\ disk.stage = 3
          /\ disk' = Resting
      BY <1>8, <1>f DEF Discard
    <2>2. Holds(file[n], kept[n])
      BY <2>1, <1>f DEF StoreStages
    <2>3. TextSurvives' /\ KeptWhole'
      BY <2>1, <2>2, <1>f DEF TextSurvives, KeptWhole
    <2>4. StoreStages' /\ SaveStages'
      BY <2>1, Values DEF StoreStages, Storing, SaveStages
    <2> QED
      BY <2>3, <2>4
  <1>9. ASSUME ResultClose PROVE Rest'
    <2>1. file' = file /\ bak' = bak /\ kept' = kept /\ disk.op = "none"
      BY <1>9 DEF ResultClose, AtRest
    <2>2. TextSurvives' /\ KeptWhole'
      BY <2>1, <1>f DEF TextSurvives, KeptWhole
    <2>3. StoreStages' /\ SaveStages'
      <3>1. CASE Exists(file[eval.name])
        <4>1. /\ temp' = [code |-> eval.code, time |-> clock', whole |-> TRUE, by |-> "result"]
              /\ disk' = [op |-> "store", name |-> eval.name, stage |-> 1]
          BY <1>9, <3>1 DEF ResultClose
        <4>2. temp'.whole /\ temp'.by = "result"
          BY <4>1
        <4>3. Exists(temp')
          BY <4>1, <1>9, <1>0, TickedOnce DEF ResultClose, FolderInv, Exists
        <4> QED
          BY <4>1, <4>2, <4>3, <2>1, <3>1 DEF StoreStages, Storing, SaveStages
      <3>2. CASE ~Exists(file[eval.name])
        BY <1>9, <2>1, <3>2 DEF ResultClose, StoreStages, Storing, SaveStages
      <3> QED
        BY <3>1, <3>2
    <2> QED
      BY <2>2, <2>3
  <1>10. ASSUME Die PROVE Rest'
    BY <1>10, <1>f, Values
       DEF Die, TextSurvives, KeptWhole, SaveStages, StoreStages, Storing
  <1>11. CASE UNCHANGED folderVars
    BY <1>11, <1>f DEF folderVars, TextSurvives, KeptWhole, SaveStages, StoreStages, Storing
  <1> QED
    BY <1>1, <1>2, <1>3, <1>4, <1>5, <1>6, <1>7, <1>8, <1>9, <1>10, <1>11 DEF FolderNext

LEMMA FolderInvStep == FolderInv /\ [FolderNext]_folderVars => FolderInv'
  BY TypeStep, ChangeStep, TimelyStep DEF FolderInv

(* The folder, whoever it serves, keeps its invariant. *)
THEOREM FolderSafe == FolderSpec => []FolderInv
  <1>1. FolderInit => FolderInv
    BY FolderInitInv
  <1>2. FolderInv /\ [FolderNext]_folderVars => FolderInv'
    BY FolderInvStep
  <1> QED
    BY <1>1, <1>2, PTL DEF FolderSpec

(* A text that was stored is in the folder, or in its backup, until somebody takes it away: *)
(* whatever fails, and wherever the process dies (Folder::File::~File).                     *)
THEOREM FolderKeeps == FolderSpec => []TextSurvives
  <1>1. FolderInv => TextSurvives
    BY DEF FolderInv
  <1> QED
    BY <1>1, FolderSafe, PTL

-----------------------------------------------------------------------------
(* The runners of its notebooks (Notebooks). *)
LEMMA BookNamed ==
    /\ \A r \in Runners: Book[r] \in Names /\ Book[r] \in Scheduled
    /\ Scheduled \subseteq Names
  BY NotebooksAssumption DEF Scheduled

LEMMA ToldRun == Told \subseteq Runners
  BY DEF Runners

(* What a runner can be doing, and the fields of it. *)
LEMMA Doing ==
    ASSUME NEW p \in Steps, NEW v \in Times
    PROVE  /\ Idle \in Run /\ Idle.pc = "idle" /\ Idle.ver = 0
           /\ [Idle EXCEPT !.pc = p] \in Run
           /\ [Idle EXCEPT !.pc = p].pc = p /\ [Idle EXCEPT !.pc = p].ver = 0
           /\ [Idle EXCEPT !.pc = p, !.ver = v] \in Run
           /\ [Idle EXCEPT !.pc = p, !.ver = v].pc = p
           /\ [Idle EXCEPT !.pc = p, !.ver = v].ver = v
  <1>1. 0 \in Times
    BY FolderAssumption DEF Times
  <1> QED
    BY <1>1, Values DEF Idle, Run, Steps

LEMMA RunFields ==
    ASSUME TypeOK
    PROVE  /\ \A r \in Runners:
                /\ run[r] \in Run /\ run[r].pc \in Steps /\ run[r].ver \in Times
                /\ run[r].text \in Files /\ run[r].text.code \in Codes
                /\ cached[r] \in Bytecode /\ cached[r].time \in Times /\ cached[r].code \in Codes
                /\ file[Book[r]] \in Files /\ file[Book[r]].time \in Times
                /\ file[Book[r]].code \in Codes
           /\ \A k \in Told: known[k] \in Times
  BY BookNamed DEF TypeOK, FolderTypeOK, Run, Bytecode, Files

-----------------------------------------------------------------------------
(* Every step is a step of the folder, or leaves it alone. *)
LEMMA NextFolder == Next => [FolderNext]_folderVars
  <1> SUFFICES ASSUME Next PROVE [FolderNext]_folderVars
    OBVIOUS
  <1>1. CASE Disk
    BY <1>1 DEF Disk, Saved, SaveThrows, Store, FolderNext
  <1>2. CASE Clients
    BY <1>2 DEF Clients, Save, Delete, Rename, FolderNext
  <1>3. ASSUME NEW r \in Runners, Wake(r) \/ Runs(r) PROVE UNCHANGED folderVars
    BY <1>3 DEF Wake, Runs, Look, Ask, Reuse, Request, Load, Compile, FallBack, Finish
  <1>4. CASE Begin \/ Change \/ Notice \/ EndWatcher \/ Signal
    BY <1>4 DEF Begin, Change, Notice, EndWatcher, Signal
  <1>5. CASE Ending
    BY <1>5 DEF Ending, PluginsEnd, TimerEnds, TimersEnd, WindowsEnd, MainEnds
  <1>6. CASE Crash
    BY <1>6 DEF Crash, FolderNext
  <1>7. CASE Ended
    BY <1>7 DEF Ended, vars, codeVars
  <1> QED
    BY <1>1, <1>2, <1>3, <1>4, <1>5, <1>6, <1>7 DEF Next, Step

(* The server, its runners and its crashes implement the folder by itself. *)
THEOREM ServesFolder == Spec => FolderSpec
  <1>1. Init => FolderInit
    BY DEF Init
  <1>2. [Next]_vars => [FolderNext]_folderVars
    BY NextFolder DEF vars, codeVars
  <1> QED
    BY <1>1, <1>2, PTL DEF Spec, FolderSpec

(* A stored text survives, whatever the server does and wherever it crashes (Folder::File). *)
THEOREM TextsSurvive == Spec => []TextSurvives
  BY ServesFolder, FolderKeeps, PTL

-----------------------------------------------------------------------------
LEMMA InitType == Init => TypeOK
  <1> SUFFICES ASSUME Init PROVE TypeOK
    OBVIOUS
  <1>1. FolderTypeOK
    BY FolderInitInv DEF Init, FolderInv
  <1>2. 0 \in Times /\ NoCode \in Bytecode
    BY FolderAssumption DEF Times, Codes, NoCode, Bytecode
  <1>3. \A k \in Told: file[Book[k]].time \in Times
    BY <1>1, BookNamed, ToldRun DEF FolderTypeOK, Files
  <1>4. known \in [Told -> Times]
    BY <1>3 DEF Init
  <1>5. Idle \in Run
    BY <1>2, Doing DEF Steps
  <1> QED
    BY <1>1, <1>2, <1>4, <1>5, NotebooksAssumption DEF Init, TypeOK, StartOf

(* What is remembered of what a name had is a time; and it grows. *)
LEMMA NowTyped ==
    ASSUME FolderTypeOK, NEW n \in Names
    PROVE  Now(n) \in Files /\ Now(n).time \in Times /\ Now(n).code \in Codes
  BY Fields DEF Now, FolderTypeOK, Files

LEMMA Remembers ==
    ASSUME TypeOK, Remember
    PROVE  /\ before' \in [Scheduled -> Times]
           /\ \A n \in Scheduled:
                \/ before'[n] = before[n] /\ Stays(n)
                \/ before'[n] >= before[n] /\ before'[n] >= Now(n).time
  <1>1. \A n \in Scheduled: Now(n).time \in Times /\ before[n] \in Times
    BY NowTyped, BookNamed DEF TypeOK
  <1>2. \A n \in Scheduled: Now(n).time \in Nat /\ before[n] \in Nat
    BY <1>1, FolderAssumption DEF Times
  <1> QED
    BY <1>1, <1>2 DEF Remember

LEMMA TypeKept == TypeOK /\ FolderInv /\ [Next]_vars => TypeOK'
  <1> SUFFICES ASSUME TypeOK, FolderInv, [Next]_vars PROVE TypeOK'
    OBVIOUS
  <1>0. FolderTypeOK'
    <2>1. [FolderNext]_folderVars
      BY NextFolder DEF vars, codeVars
    <2> QED
      BY <2>1, FolderInvStep DEF FolderInv
  <1>z. 0 \in Times /\ NoCode \in Bytecode
    BY FolderAssumption DEF Times, Codes, NoCode, Bytecode
  <1>t. /\ active \in SUBSET Runners /\ known \in [Told -> Times]
        /\ cached \in [Runners -> Bytecode] /\ run \in [Runners -> Run]
        /\ io \in {"serving", "plugins", "timers", "windows", "stopped", "gone"}
        /\ stop \in BOOLEAN /\ watching \in BOOLEAN /\ changes \in BOOLEAN /\ posted \in BOOLEAN
        /\ watcher \in {"starting", "watching", "ended"}
    BY DEF TypeOK
  <1>n. \A n \in Names: file[n].time \in Times /\ file'[n].time \in Times
    BY <1>0 DEF TypeOK, FolderTypeOK, Files
  <1>b. before' \in [Scheduled -> Times]
    <2>1. CASE Remember
      BY <2>1, Remembers
    <2>2. CASE Crash
      BY <2>2, <1>z DEF Crash, Fresh
    <2>3. CASE UNCHANGED vars
      BY <2>3 DEF vars, TypeOK
    <2> QED
      BY <2>1, <2>2, <2>3 DEF Next, Ended
  <1>1. ASSUME NEW n \in Names, Save(n) \/ SaveThrows(n) \/ Store(n) PROVE TypeOK'
    BY <1>1, <1>0, <1>b, <1>t DEF Save, SaveThrows, Store, runnerVars, serverVars, TypeOK
  <1>2. ASSUME NEW n \in Names, Saved(n) PROVE TypeOK'
    <2>1. known' \in [Told -> Times]
      BY <1>2, <1>n, <1>t DEF Saved, Updated
    <2> QED
      BY <1>2, <2>1, <1>0, <1>b, <1>t DEF Saved, serverVars, TypeOK
  <1>3. ASSUME NEW n \in Names, Delete(n) \/ (\E m \in Names: Rename(n, m)) PROVE TypeOK'
    <2>1. Removed(n) /\ UNCHANGED <<active, cached, run, serverVars>>
      BY <1>3 DEF Delete, Rename
    <2>2. known' \in [Told -> Times]
      BY <2>1, <1>z, <1>t DEF Removed
    <2> QED
      BY <2>1, <2>2, <1>0, <1>b, <1>t DEF serverVars, TypeOK
  <1>4. ASSUME NEW r \in Runners, Wake(r) PROVE TypeOK'
    <2>1. [Idle EXCEPT !.pc = IF r \in Told THEN "look" ELSE "ask"] \in Run
      BY <1>z, Doing DEF Steps
    <2>2. run' \in [Runners -> Run]
      BY <1>4, <2>1, <1>t DEF Wake, Go
    <2>3. posted' \in BOOLEAN
      BY <1>4, <1>t DEF Wake
    <2> QED
      BY <1>4, <2>2, <2>3, <1>0, <1>b, <1>t DEF Wake, TypeOK
  <1>5. ASSUME NEW r \in Runners, Runs(r) PROVE TypeOK'
    <2>1. Book[r] \in Names /\ file[Book[r]] \in Files /\ file[Book[r]].time \in Times
      BY BookNamed, RunFields
    <2>2. ASSUME r \in Told, known[r] # 0
          PROVE  [Idle EXCEPT !.pc = "have", !.ver = known[r]] \in Run
      <3>1. known[r] \in Times
        BY <2>2, <1>t
      <3> QED
        BY <3>1, Doing DEF Steps
    <2>3. /\ [Idle EXCEPT !.pc = "have", !.ver = file[Book[r]].time] \in Run
          /\ Idle \in Run
      BY <2>1, Doing DEF Steps
    <2>4. [Idle EXCEPT !.pc = "run", !.ver = run[r].ver] \in Run
      <3>1. run[r].ver \in Times
        BY RunFields
      <3> QED
        BY <3>1, Doing DEF Steps
    <2>5. [run[r] EXCEPT !.pc = "load"] \in Run
      BY <1>t DEF Run, Steps
    <2>6. [run[r] EXCEPT !.pc = "loaded", !.text = file[Book[r]]] \in Run
      BY <1>t, <2>1 DEF Run, Steps
    <2>7. [code |-> run[r].text.code, time |-> run[r].ver] \in Bytecode
      BY RunFields DEF Bytecode
    <2>8. run' \in [Runners -> Run] /\ cached' \in [Runners -> Bytecode]
          /\ UNCHANGED <<active, known, serverVars>>
      <3>1. CASE r \in Told /\ Look(r)
        <4>1. CASE known[r] # 0
          BY <3>1, <4>1, <2>2, <1>t DEF Look, Go
        <4>2. CASE known[r] = 0
          BY <3>1, <4>2, <2>3, <1>z, <1>t DEF Look, Go
        <4> QED
          BY <4>1, <4>2
      <3>2. CASE Ask(r)
        <4>1. CASE Exists(file[Book[r]])
          BY <3>2, <4>1, <2>3, <1>t DEF Ask, Go
        <4>2. CASE ~Exists(file[Book[r]])
          BY <3>2, <4>2, <2>3, <1>t DEF Ask, Go
        <4> QED
          BY <4>1, <4>2
      <3>3. CASE Reuse(r)
        BY <3>3, <2>4, <1>t DEF Reuse, Go
      <3>4. CASE Request(r)
        BY <3>4, <2>5, <1>t DEF Request, Go
      <3>5. CASE Load(r)
        BY <3>5, <2>6, <1>t DEF Load, Go
      <3>6. CASE Compile(r)
        BY <3>6, <2>4, <2>7, <1>t DEF Compile, Go
      <3>7. CASE FallBack(r)
        <4>1. CASE cached[r] # NoCode
          BY <3>7, <4>1, <2>4, <1>t DEF FallBack, Go
        <4>2. CASE cached[r] = NoCode
          BY <3>7, <4>2, <2>3, <1>t DEF FallBack, Go
        <4> QED
          BY <4>1, <4>2
      <3>8. CASE Finish(r)
        BY <3>8, <2>3, <1>t DEF Finish, Go
      <3> QED
        BY <1>5, <3>1, <3>2, <3>3, <3>4, <3>5, <3>6, <3>7, <3>8 DEF Runs
    <2> QED
      BY <2>8, <1>0, <1>b, <1>t DEF serverVars, TypeOK
  <1>6. CASE Begin \/ Change \/ Notice \/ EndWatcher \/ Signal
    BY <1>6, <1>0, <1>b, <1>t DEF Begin, Change, Notice, EndWatcher, Signal, runnerVars, TypeOK
  <1>7. CASE PluginsEnd \/ TimersEnd \/ WindowsEnd \/ MainEnds
    BY <1>7, <1>0, <1>b, <1>t DEF PluginsEnd, TimersEnd, WindowsEnd, MainEnds, runnerVars, TypeOK
  <1>8. CASE TimerEnds
    <2>1. [Idle EXCEPT !.pc = "ended"] \in Run
      BY <1>z, Doing DEF Steps
    <2> QED
      BY <1>8, <2>1, <1>0, <1>b, <1>t DEF TimerEnds, Go, serverVars, TypeOK
  <1>9. CASE Crash
    <2>1. known' \in [Told -> Times]
      BY <1>9, <1>n, BookNamed, ToldRun DEF Crash, Fresh
    <2>2. run' \in [Runners -> Run] /\ cached' \in [Runners -> Bytecode]
      BY <1>9, <1>z, Doing DEF Crash, Fresh, Steps
    <2> QED
      BY <1>9, <2>1, <2>2, <1>0, <1>b, <1>t DEF Crash, Fresh, StartOf, TypeOK
  <1>10. CASE UNCHANGED vars
    BY <1>10, <1>0, <1>b, <1>t DEF vars, codeVars, TypeOK
  <1> QED
    BY <1>1, <1>2, <1>3, <1>4, <1>5, <1>6, <1>7, <1>8, <1>9, <1>10
       DEF Next, Step, Disk, Clients, Ending, Ended

-----------------------------------------------------------------------------
(* What a step does to the notebook of a name.  A version that the name has had stays one; and *)
(* no such version is later than a younger notebook's, which is the notebook that was there.   *)
LEMMA HadStep ==
    ASSUME TypeOK, TypeOK', Remember, NEW n \in Scheduled, NEW t \in Nat, HasHad(n, t)
    PROVE  /\ HasHad(n, t)'
           /\ Latest(n, t)'
                => Latest(n, t) /\ Now(n)'.code = Now(n).code /\ Now(n)'.time = Now(n).time
  <1>1. /\ Now(n).time \in Nat /\ before[n] \in Nat
        /\ Now(n)'.time \in Nat /\ before'[n] \in Nat
    <2>1. FolderTypeOK => Now(n).time \in Times
      BY NowTyped, BookNamed
    <2>2. FolderTypeOK' => Now(n)'.time \in Times
      <3>1. \A m \in Names: file'[m] \in Files /\ bak'[m] \in Files
        BY DEF TypeOK, FolderTypeOK
      <3> QED
        BY <3>1, BookNamed DEF Now, Files
    <2> QED
      BY <2>1, <2>2, FolderAssumption DEF TypeOK, Times
  <1>2. CASE before'[n] = before[n] /\ Stays(n)
    BY <1>1, <1>2 DEF HasHad, Latest, Younger, Stays
  <1>3. CASE before'[n] >= before[n] /\ before'[n] >= Now(n).time
    BY <1>1, <1>3 DEF HasHad, Latest, Younger
  <1> QED
    BY <1>2, <1>3, Remembers

(* Steps that leave the folder alone leave what is remembered of it. *)
LEMMA Undisturbed ==
    ASSUME TypeOK, Remember, UNCHANGED folderVars
    PROVE  /\ before' = before
           /\ \A n \in Names: Now(n)' = Now(n)
           /\ \A n, t: HasHad(n, t)' <=> HasHad(n, t)
           /\ \A n, t: Latest(n, t)' <=> Latest(n, t)
  <1>1. \A n: Now(n)' = Now(n)
    BY DEF folderVars, Now
  <1>2. \A n \in Scheduled: Stays(n)
    <2>1. \A n \in Scheduled: Now(n).time \in Nat
      BY NowTyped, BookNamed, FolderAssumption DEF TypeOK, Times
    <2> QED
      BY <1>1, <2>1 DEF Stays
  <1>3. before' = before
    BY <1>2 DEF Remember, TypeOK
  <1> QED
    BY <1>1, <1>3 DEF HasHad, Latest, Younger

-----------------------------------------------------------------------------
(* The invariant of one runner. *)
RunnerInv(r) ==
    /\ HasHad(Book[r], cached[r].time) /\ HasHad(Book[r], run[r].ver)
    /\ cached[r] # NoCode /\ Latest(Book[r], cached[r].time) => cached[r].code = Now(Book[r]).code
    /\ At(r, "loaded") /\ Latest(Book[r], run[r].ver)
         => Exists(run[r].text) /\ run[r].text.code = Now(Book[r]).code
    /\ At(r, "run") /\ run[r].ver = Now(Book[r]).time /\ Compiles(Now(Book[r])) /\ Younger(Book[r])
         => cached[r].code = Now(Book[r]).code

LEMMA Runnerwise ==
    (NothingAhead /\ Honest /\ Loaded /\ RunsCurrent)
      <=> (\A k \in Told: HasHad(Book[k], known[k])) /\ (\A r \in Runners: RunnerInv(r))
  BY DEF NothingAhead, Honest, Loaded, RunsCurrent, RunnerInv

(* Whatever happens to its notebook, a runner that does not step keeps its invariant. *)
LEMMA RunnerRests ==
    ASSUME TypeOK, TypeOK', Remember,
           NEW r \in Runners, RunnerInv(r), cached'[r] = cached[r], run'[r] = run[r]
    PROVE  RunnerInv(r)'
  <1> DEFINE n == Book[r]
  <1>1. n \in Scheduled /\ cached[r].time \in Nat /\ run[r].ver \in Nat
    BY BookNamed, RunFields, FolderAssumption DEF Times
  <1>2. HasHad(n, cached[r].time) /\ HasHad(n, run[r].ver)
    BY DEF RunnerInv
  <1>3. /\ HasHad(n, cached[r].time)'
        /\ Latest(n, cached[r].time)'
             => Latest(n, cached[r].time) /\ Now(n)'.code = Now(n).code
    <2>1. HasHad(n, cached[r].time)'
            <=> cached'[r].time <= Now(n)'.time \/ cached'[r].time <= before'[n]
      BY DEF HasHad
    <2> QED
      BY <1>1, <1>2, HadStep DEF HasHad, Latest
  <1>4. /\ HasHad(n, run[r].ver)'
        /\ Latest(n, run[r].ver)'
             => /\ Latest(n, run[r].ver) /\ Now(n)'.code = Now(n).code
                /\ Now(n)'.time = Now(n).time
    BY <1>1, <1>2, HadStep DEF HasHad, Latest
  <1>5. Now(n)'.time \in Nat /\ Now(n).time \in Nat
    <2>1. Now(n)'.time \in Times
      <3>1. \A m \in Names: file'[m] \in Files /\ bak'[m] \in Files
        BY DEF TypeOK, FolderTypeOK
      <3> QED
        BY <3>1, BookNamed DEF Now, Files
    <2> QED
      BY <2>1, NowTyped, BookNamed, FolderAssumption DEF TypeOK, Times
  <1>6. (At(r, "run") /\ run[r].ver = Now(n).time /\ Compiles(Now(n)) /\ Younger(n))'
          => cached'[r].code = Now(n)'.code
    <2> SUFFICES ASSUME run'[r].pc = "run", run'[r].ver = Now(n)'.time,
                        Compiles(Now(n))', Younger(n)'
                 PROVE  cached'[r].code = Now(n)'.code
      BY DEF At
    <2>1. Latest(n, run[r].ver)'
      BY <1>1, <1>5 DEF Latest
    <2>2. /\ Latest(n, run[r].ver) /\ Now(n)'.code = Now(n).code
          /\ Now(n)'.time = Now(n).time
      BY <2>1, <1>4
    <2>3. Compiles(Now(n)) /\ Younger(n) /\ run[r].ver = Now(n).time /\ At(r, "run")
      BY <2>2 DEF Compiles, Exists, Latest, At
    <2> QED
      BY <2>2, <2>3 DEF RunnerInv
  <1> QED
    BY <1>3, <1>4, <1>6 DEF RunnerInv, At

(* What a runner's own step does, the folder being as it was. *)
LEMMA RunnerSteps ==
    ASSUME TypeOK, FolderInv, Remember, \A k \in Told: HasHad(Book[k], known[k]),
           NEW r \in Runners, RunnerInv(r), Wake(r) \/ Runs(r)
    PROVE  RunnerInv(r)'
  <1> DEFINE n == Book[r]
  <1>f. UNCHANGED folderVars
    BY DEF Wake, Runs, Look, Ask, Reuse, Request, Load, Compile, FallBack, Finish
  <1>u. /\ Now(n)' = Now(n) /\ before' = before
        /\ \A t: HasHad(n, t)' <=> HasHad(n, t)
        /\ \A t: Latest(n, t)' <=> Latest(n, t)
        /\ Younger(n)' <=> Younger(n)
    BY <1>f, Undisturbed, BookNamed DEF Younger
  <1>t. run \in [Runners -> Run] /\ cached \in [Runners -> Bytecode]
    BY DEF TypeOK
  <1>n. /\ cached[r].time \in Nat /\ run[r].ver \in Nat
        /\ n \in Names /\ Now(n).time \in Nat /\ before[n] \in Nat
        /\ (r \in Told => known[r] \in Nat)
    BY RunFields, NowTyped, BookNamed, FolderAssumption DEF Times, TypeOK
  <1>0. HasHad(n, 0)
    BY <1>n DEF HasHad
  <1>i. Idle.pc = "idle" /\ Idle.ver = 0 /\ NoCode.time = 0
    BY DEF Idle, NoCode
  <1>c. cached'[r] = cached[r] /\ run'[r].ver = run[r].ver
          => HasHad(n, cached[r].time)' /\ HasHad(n, run[r].ver)'
    BY <1>u DEF RunnerInv, HasHad
  (* At rest, the notebook is the file. *)
  <1>a. AtRest => Now(n) = file[n]
    BY DEF AtRest, Now
  (* A step to a version that the name has had, with the same bytecode, keeps the invariant, *)
  (* unless the step is one to run it.                                                       *)
  <1>s. ASSUME cached'[r] = cached[r], run'[r].ver \in Nat, HasHad(n, run'[r].ver),
               run'[r].pc \notin {"loaded", "run"}
        PROVE  RunnerInv(r)'
    <2>1. HasHad(n, cached[r].time)' /\ HasHad(n, run[r].ver)'
      BY <1>s, <1>u DEF RunnerInv, HasHad
    <2> QED
      BY <2>1, <1>s, <1>u DEF RunnerInv, At, Latest
  <1>1. CASE Wake(r)
    <2>1. run'[r] = [Idle EXCEPT !.pc = IF r \in Told THEN "look" ELSE "ask"]
          /\ cached' = cached
      BY <1>1, <1>t DEF Wake, Go
    <2>2. run'[r].pc \in {"look", "ask"} /\ run'[r].ver = 0
      BY <2>1 DEF Idle
    <2> QED
      BY <2>1, <2>2, <1>0, <1>s
  <1>2. CASE r \in Told /\ Look(r)
    <2>1. CASE known[r] # 0
      <3>1. run'[r] = [Idle EXCEPT !.pc = "have", !.ver = known[r]] /\ cached' = cached
        BY <1>2, <2>1, <1>t DEF Look, Go
      <3>2. run'[r].pc = "have" /\ run'[r].ver = known[r]
        BY <3>1 DEF Idle
      <3> QED
        BY <3>1, <3>2, <1>2, <1>n, <1>s
    <2>2. CASE known[r] = 0
      <3>1. run'[r] = Idle /\ cached'[r] = NoCode
        BY <1>2, <2>2, <1>t DEF Look, Go
      <3>2. HasHad(n, cached[r].time)' /\ HasHad(n, run[r].ver)'
        BY <3>1, <1>0, <1>i, <1>u DEF HasHad
      <3> QED
        BY <3>1, <3>2, <1>i DEF RunnerInv, At
    <2> QED
      BY <2>1, <2>2
  <1>3. CASE Ask(r)
    <2>1. AtRest /\ cached' = cached
      BY <1>3 DEF Ask
    <2>2. CASE Exists(file[n])
      <3>1. run'[r] = [Idle EXCEPT !.pc = "have", !.ver = file[n].time]
        BY <1>3, <2>2, <1>t DEF Ask, Go
      <3>2. run'[r].pc = "have" /\ run'[r].ver = Now(n).time
        BY <3>1, <2>1, <1>a DEF Idle
      <3>3. HasHad(n, Now(n).time)
        BY <1>n DEF HasHad
      <3> QED
        BY <2>1, <3>2, <3>3, <1>n, <1>s
    <2>3. CASE ~Exists(file[n])
      <3>1. run'[r] = Idle
        BY <1>3, <2>3, <1>t DEF Ask, Go
      <3> QED
        BY <2>1, <3>1, <1>i, <1>0, <1>s
    <2> QED
      BY <2>2, <2>3
  <1>4. CASE Request(r)
    <2>1. run'[r] = [run[r] EXCEPT !.pc = "load"] /\ cached' = cached
      BY <1>4, <1>t DEF Request, Go
    <2>2. run'[r].pc = "load" /\ run'[r].ver = run[r].ver
      BY <2>1, <1>t DEF Run
    <2> QED
      BY <2>1, <2>2, <1>n, <1>s DEF RunnerInv
  <1>5. CASE Finish(r)
    <2>1. run'[r] = Idle /\ cached' = cached
      BY <1>5, <1>t DEF Finish, Go
    <2> QED
      BY <2>1, <1>i, <1>0, <1>s
  <1>6. CASE Reuse(r)
    <2>1. run'[r] = [Idle EXCEPT !.pc = "run", !.ver = run[r].ver] /\ cached' = cached
          /\ ~IsOld(r)
      BY <1>6, <1>t DEF Reuse, Go
    <2>2. run'[r].pc = "run" /\ run'[r].ver = run[r].ver
      BY <2>1 DEF Idle
    <2>3. cached[r] # NoCode /\ cached[r].time >= run[r].ver
      BY <2>1, <1>n DEF IsOld
    <2>4. run[r].ver = Now(n).time /\ Younger(n) => cached[r].code = Now(n).code
      BY <2>3 DEF RunnerInv, Latest
    <2>5. cached[r] # NoCode /\ Latest(n, cached[r].time) => cached[r].code = Now(n).code
      BY DEF RunnerInv
    <2> QED
      BY <2>1, <2>2, <2>4, <2>5, <1>c, <1>u DEF RunnerInv, At, Latest
  <1>7. CASE Load(r)
    <2>1. run'[r] = [run[r] EXCEPT !.pc = "loaded", !.text = file[n]] /\ cached' = cached /\ AtRest
      BY <1>7, <1>t DEF Load, Go
    <2>2. run'[r].pc = "loaded" /\ run'[r].ver = run[r].ver /\ run'[r].text = Now(n)
      BY <2>1, <1>t, <1>a DEF Run
    <2>3. Younger(n) => Exists(Now(n))
      BY <1>n DEF Younger, Exists
    <2>5. cached[r] # NoCode /\ Latest(n, cached[r].time) => cached[r].code = Now(n).code
      BY DEF RunnerInv
    <2> QED
      BY <2>1, <2>2, <2>3, <2>5, <1>c, <1>u DEF RunnerInv, At, Latest
  <1>8. CASE Compile(r)
    <2>1. /\ run'[r] = [Idle EXCEPT !.pc = "run", !.ver = run[r].ver]
          /\ cached'[r] = [code |-> run[r].text.code, time |-> run[r].ver]
          /\ At(r, "loaded")
      BY <1>8, <1>t DEF Compile, Go
    <2>2. run'[r].pc = "run" /\ run'[r].ver = run[r].ver
          /\ cached'[r].code = run[r].text.code /\ cached'[r].time = run[r].ver
      BY <2>1 DEF Idle
    <2>3. Latest(n, run[r].ver) => run[r].text.code = Now(n).code
      BY <2>1 DEF RunnerInv
    <2>4. HasHad(n, cached[r].time)' /\ HasHad(n, run[r].ver)'
      BY <2>2, <1>u DEF RunnerInv, HasHad
    <2>5. run[r].ver = Now(n).time /\ Younger(n) => Latest(n, run[r].ver)
      BY <1>n DEF Latest
    <2> QED
      BY <2>2, <2>3, <2>4, <2>5, <1>u DEF RunnerInv, At, Latest
  <1>9. CASE FallBack(r)
    <2>1. cached' = cached /\ At(r, "loaded") /\ ~Compiles(run[r].text)
      BY <1>9 DEF FallBack
    <2>2. CASE cached[r] # NoCode
      <3>1. run'[r] = [Idle EXCEPT !.pc = "run", !.ver = run[r].ver]
        BY <1>9, <2>2, <1>t DEF FallBack, Go
      <3>2. run'[r].pc = "run" /\ run'[r].ver = run[r].ver
        BY <3>1 DEF Idle
      <3>3. ~(run[r].ver = Now(n).time /\ Compiles(Now(n)) /\ Younger(n))
        <4>1. run[r].ver = Now(n).time /\ Younger(n) => Latest(n, run[r].ver)
          BY <1>n DEF Latest
        <4> QED
          BY <2>1, <4>1 DEF RunnerInv, Compiles
      <3>5. cached[r] # NoCode /\ Latest(n, cached[r].time) => cached[r].code = Now(n).code
        BY DEF RunnerInv
      <3> QED
        BY <2>1, <3>2, <3>3, <3>5, <1>c, <1>u DEF RunnerInv, At, Latest
    <2>3. CASE cached[r] = NoCode
      <3>1. run'[r] = Idle
        BY <1>9, <2>3, <1>t DEF FallBack, Go
      <3> QED
        BY <2>1, <3>1, <1>i, <1>0, <1>s
    <2> QED
      BY <2>2, <2>3
  <1> QED
    BY <1>1, <1>2, <1>3, <1>4, <1>5, <1>6, <1>7, <1>8, <1>9 DEF Runs

(* When the process starts, nothing is cached and no job is halfway. *)
Started ==
    /\ cached = [r \in Runners |-> NoCode]
    /\ run = [r \in Runners |-> Idle]
    /\ known = [k \in Told |-> file[Book[k]].time]
    /\ disk = Resting
    /\ before = [n \in Scheduled |-> 0]

LEMMA RunnersStart ==
    FolderInv /\ Started
      => (\A k \in Told: HasHad(Book[k], known[k])) /\ (\A r \in Runners: RunnerInv(r))
  <1> SUFFICES ASSUME FolderInv, Started
               PROVE  /\ \A k \in Told: HasHad(Book[k], known[k])
                      /\ \A r \in Runners: RunnerInv(r)
    OBVIOUS
  <1>1. \A n \in Names: Now(n) = file[n] /\ Now(n).time \in Nat
    <2>1. disk.op = "none"
      BY Values DEF Started
    <2>2. \A n \in Names: file[n].time \in Times
      BY Fields DEF FolderInv
    <2>3. Times \subseteq Nat
      BY FolderAssumption DEF Times
    <2> QED
      BY <2>1, <2>2, <2>3 DEF Now
  <1>2. \A k \in Told: HasHad(Book[k], known[k])
    BY <1>1, BookNamed, ToldRun DEF Started, HasHad
  <1>3. Idle.pc = "idle" /\ Idle.ver = 0 /\ NoCode.time = 0
    BY DEF Idle, NoCode
  <1>4. \A n \in Names: HasHad(n, 0)
    <2>1. ASSUME NEW n \in Names PROVE 0 <= Now(n).time
      <3>1. Now(n).time \in Nat
        BY <1>1
      <3> QED
        BY <3>1
    <2> QED
      BY <2>1 DEF HasHad
  <1>5. \A r \in Runners: RunnerInv(r)
    BY <1>3, <1>4, BookNamed DEF Started, RunnerInv, At
  <1> QED
    BY <1>2, <1>5

LEMMA RunnersRestart ==
    (FolderInv /\ Started)'
      => ((\A k \in Told: HasHad(Book[k], known[k])) /\ (\A r \in Runners: RunnerInv(r)))'
  BY RunnersStart, PTL

(* What the timers and the plugin are told is a version that their notebook has. *)
LEMMA KnownStep ==
    ASSUME TypeOK, TypeOK', Remember, Step, \A k \in Told: HasHad(Book[k], known[k])
    PROVE  (\A k \in Told: HasHad(Book[k], known[k]))'
  <1>1. \A k \in Told: known[k] \in Nat /\ Book[k] \in Scheduled /\ Book[k] \in Names
    BY RunFields, BookNamed, ToldRun, FolderAssumption DEF Times
  <1>2. \A k \in Told: known'[k] = known[k] => HasHad(Book[k], known[k])'
    BY <1>1, HadStep DEF HasHad
  <1>3. \A k \in Told: Now(Book[k])'.time \in Nat
    <2>1. \A m \in Names: file'[m] \in Files /\ bak'[m] \in Files
      BY DEF TypeOK, FolderTypeOK
    <2> QED
      BY <2>1, <1>1, FolderAssumption DEF Now, Files, Times
  <1>4. CASE known' = known
    BY <1>2, <1>4
  <1>5. ASSUME NEW n \in Names, Saved(n) PROVE (\A k \in Told: HasHad(Book[k], known[k]))'
    <2>1. /\ disk' = Resting
          /\ known' = [k \in Told |-> IF Book[k] = n THEN file'[n].time ELSE known[k]]
      BY <1>5 DEF Saved, SaveEnd, Updated
    <2>2. \A m: Now(m)' = file'[m]
      BY <2>1, Values DEF Now
    <2>3. ASSUME NEW k \in Told, Book[k] = n PROVE HasHad(Book[k], known[k])'
      BY <2>1, <2>2, <2>3, <1>3 DEF HasHad
    <2> QED
      BY <2>1, <2>3, <1>2
  <1>6. ASSUME NEW n \in Names, Removed(n) PROVE (\A k \in Told: HasHad(Book[k], known[k]))'
    <2>1. known' = [k \in Told |-> IF Book[k] = n THEN 0 ELSE known[k]]
      BY <1>6 DEF Removed
    <2>2. ASSUME NEW k \in Told, Book[k] = n PROVE HasHad(Book[k], known[k])'
      BY <2>1, <2>2, <1>3 DEF HasHad
    <2> QED
      BY <2>1, <2>2, <1>2
  <1>7. ASSUME NEW n \in Names, Save(n) \/ SaveThrows(n) \/ Store(n) PROVE known' = known
    BY <1>7 DEF Save, SaveThrows, Store, runnerVars
  <1>8. ASSUME NEW r \in Runners, Wake(r) \/ Runs(r) PROVE known' = known
    BY <1>8 DEF Wake, Runs, Look, Ask, Reuse, Request, Load, Compile, FallBack, Finish
  <1>9. ASSUME Begin \/ Change \/ Notice \/ EndWatcher \/ Signal \/ Ending PROVE known' = known
    BY <1>9 DEF Begin, Change, Notice, EndWatcher, Signal, runnerVars, Ending, PluginsEnd,
                TimerEnds, TimersEnd, WindowsEnd, MainEnds
  <1> QED
    BY <1>4, <1>5, <1>6, <1>7, <1>8, <1>9 DEF Step, Disk, Clients, Rename, Delete

LEMMA RunnersStep ==
    ASSUME TypeOK, TypeOK', FolderInv, Step, Remember,
           \A k \in Told: HasHad(Book[k], known[k]), NEW r \in Runners, RunnerInv(r)
    PROVE  RunnerInv(r)'
  <1>2. ASSUME cached'[r] = cached[r], run'[r] = run[r] PROVE RunnerInv(r)'
    BY <1>2, RunnerRests
  <1>t. run \in [Runners -> Run] /\ cached \in [Runners -> Bytecode]
    BY DEF TypeOK
  <1>3. CASE Disk \/ Clients
    BY <1>2, <1>3 DEF Disk, Clients, Save, Saved, SaveThrows, Rename, Delete, Store, runnerVars
  <1>4. ASSUME NEW q \in Runners, Wake(q) \/ Runs(q) PROVE RunnerInv(r)'
    <2>1. CASE q = r
      BY <1>4, <2>1, RunnerSteps
    <2>2. CASE q # r
      <3>1. cached'[r] = cached[r] /\ run'[r] = run[r]
        BY <1>4, <2>2, <1>t DEF Wake, Runs, Look, Ask, Reuse, Request, Load, Compile, FallBack,
                                Finish, Go
      <3> QED
        BY <3>1, <1>2
    <2> QED
      BY <2>1, <2>2
  <1>5. CASE Begin \/ Change \/ Notice \/ EndWatcher \/ Signal
    BY <1>2, <1>5 DEF Begin, Change, Notice, EndWatcher, Signal, runnerVars
  <1>6. CASE Ending
    <2>1. CASE TimerEnds
      <3>1. CASE r = "timer"
        <4>1. run'[r].pc = "ended" /\ run'[r].ver = 0 /\ cached' = cached
          BY <2>1, <3>1, <1>t DEF TimerEnds, Go, Idle
        <4>2. UNCHANGED folderVars
          BY <2>1 DEF TimerEnds
        <4>3. /\ Now(Book[r])' = Now(Book[r]) /\ before' = before
              /\ \A t: HasHad(Book[r], t)' <=> HasHad(Book[r], t)
              /\ Younger(Book[r])' <=> Younger(Book[r])
          BY <4>2, Undisturbed, BookNamed DEF Younger
        <4>4. Now(Book[r]).time \in Nat
          BY NowTyped, BookNamed, FolderAssumption DEF TypeOK, Times
        <4>5. HasHad(Book[r], cached[r].time)' /\ HasHad(Book[r], run[r].ver)'
          BY <4>1, <4>3, <4>4 DEF RunnerInv, HasHad
        <4> QED
          BY <4>1, <4>3, <4>5 DEF RunnerInv, At, Latest
      <3>2. CASE r # "timer"
        BY <2>1, <3>2, <1>2, <1>t DEF TimerEnds, Go
      <3> QED
        BY <3>1, <3>2
    <2>2. CASE PluginsEnd \/ TimersEnd \/ WindowsEnd \/ MainEnds
      BY <2>2, <1>2 DEF PluginsEnd, TimersEnd, WindowsEnd, MainEnds, runnerVars
    <2> QED
      BY <1>6, <2>1, <2>2 DEF Ending
  <1> QED
    BY <1>3, <1>4, <1>5, <1>6 DEF Step

-----------------------------------------------------------------------------
(* The timers and the plugin, one at a time. *)
Attends(k) ==
    ~(disk.op = "save" /\ disk.name = Book[k]) /\ Exists(Now(Book[k]))
        => \/ known[k] = Now(Book[k]).time
           \/ Now(Book[k]).by = "result" /\ known[k] # 0
           \/ Now(Book[k]).by = "move"

LEMMA AttendsStep ==
    ASSUME TypeOK, FolderInv, Step, NEW k \in Told, Attends(k)
    PROVE  Attends(k)'
  <1> DEFINE b == Book[k]
  <1>b. b \in Names /\ k \in Runners
    BY BookNamed, ToldRun
  <1>t. /\ file \in [Names -> Files] /\ bak \in [Names -> Files]
        /\ known \in [Told -> Times] /\ disk \in Jobs /\ temp \in Files
    BY DEF TypeOK, FolderTypeOK
  (* Of a notebook that stays as it is, as much is known as before. *)
  <1>s. ASSUME Now(b)' = Now(b), known'[k] = known[k], disk.op = "save" => disk.name # b
        PROVE  Attends(k)'
    BY <1>s DEF Attends, Exists
  <1>1. ASSUME UNCHANGED folderVars, known' = known PROVE Attends(k)'
    BY <1>1 DEF folderVars, Attends, Exists, Now
  <1>2. ASSUME NEW n \in Names, Save(n) PROVE Attends(k)'
    <2>1. /\ known' = known /\ disk' = [op |-> "save", name |-> n, stage |-> 0]
          /\ disk.op = "none"
      BY <1>2 DEF Save, SaveBegin, runnerVars, AtRest
    <2>2. CASE n = b
      BY <2>1, <2>2 DEF Attends
    <2>3. CASE n # b
      <3>1. file'[b] = file[b]
        BY <1>2, <2>3, <1>b, <1>t DEF Save, SaveBegin
      <3> QED
        BY <2>1, <3>1, <1>s DEF Now
    <2> QED
      BY <2>2, <2>3
  <1>3. ASSUME NEW n \in Names, Saved(n) PROVE Attends(k)'
    <2>1. /\ known'[k] = (IF b = n THEN file'[n].time ELSE known[k])
          /\ disk.op = "save" /\ disk.name = n /\ disk'.op = "none"
      BY <1>3, Values DEF Saved, SaveEnd, Updated
    <2>2. CASE n = b
      BY <2>1, <2>2 DEF Attends, Now
    <2>3. CASE n # b
      <3>1. file'[b] = file[b]
        BY <1>3, <2>3, <1>b, <1>t DEF Saved, SaveEnd
      <3> QED
        BY <2>1, <2>3, <3>1, <1>s DEF Now
    <2> QED
      BY <2>2, <2>3
  <1>4. ASSUME NEW n \in Names, SaveThrows(n) PROVE Attends(k)'
    <2>1. /\ known' = known
          /\ disk.op = "save" /\ disk.name = n /\ disk'.op = "none"
          /\ file' = [file EXCEPT ![n] = NoFile]
      BY <1>4, Values DEF SaveThrows, SaveFails, runnerVars
    <2>2. CASE n = b
      <3>1. file'[b] = NoFile
        BY <2>1, <2>2, <1>b, <1>t
      <3> QED
        BY <2>1, <3>1, Values DEF Attends, Now
    <2>3. CASE n # b
      <3>1. file'[b] = file[b]
        BY <2>1, <2>3, <1>b, <1>t
      <3> QED
        BY <2>1, <2>3, <3>1, <1>s DEF Now
    <2> QED
      BY <2>2, <2>3
  <1>5. ASSUME NEW n \in Names, Delete(n) PROVE Attends(k)'
    <2>1. /\ known'[k] = (IF b = n THEN 0 ELSE known[k])
          /\ disk' = disk /\ disk.op = "none"
          /\ file' = [file EXCEPT ![n] = NoFile]
      BY <1>5 DEF Delete, Removed, Remove, AtRest
    <2>2. CASE n = b
      <3>1. file'[b] = NoFile
        BY <2>1, <2>2, <1>b, <1>t
      <3> QED
        BY <2>1, <3>1, Values DEF Attends, Now
    <2>3. CASE n # b
      <3>1. file'[b] = file[b]
        BY <2>1, <2>3, <1>b, <1>t
      <3> QED
        BY <2>1, <2>3, <3>1, <1>s DEF Now
    <2> QED
      BY <2>2, <2>3
  <1>6. ASSUME NEW n \in Names, NEW m \in Names, Rename(n, m) PROVE Attends(k)'
    <2>1. /\ known'[k] = (IF b = n THEN 0 ELSE known[k])
          /\ disk' = disk /\ disk.op = "none" /\ m # n
          /\ file' = [file EXCEPT ![m] = [file[n] EXCEPT !.by = "move"], ![n] = NoFile]
      BY <1>6 DEF Rename, Removed, Move, AtRest
    <2>2. CASE n = b
      <3>1. file'[b] = NoFile
        BY <2>1, <2>2, <1>b, <1>t
      <3> QED
        BY <2>1, <3>1, Values DEF Attends, Now
    <2>3. CASE m = b
      <3>1. file'[b].by = "move"
        BY <2>1, <2>3, <1>b, <1>t DEF Files
      <3> QED
        BY <2>1, <3>1 DEF Attends, Now
    <2>4. CASE n # b /\ m # b
      <3>1. file'[b] = file[b]
        BY <2>1, <2>4, <1>b, <1>t
      <3> QED
        BY <2>1, <2>4, <3>1, <1>s DEF Now
    <2> QED
      BY <2>2, <2>3, <2>4
  <1>7. ASSUME NEW n \in Names, Store(n) PROVE Attends(k)'
    <2>0. known' = known
      BY <1>7 DEF Store, runnerVars
    <2>1. CASE ResultLoad(n)
      BY <2>0, <2>1 DEF ResultLoad, Attends, Exists, Now
    <2>2. CASE ResultClose
      <3>1. file' = file /\ bak' = bak /\ disk.op = "none"
        BY <2>2 DEF ResultClose, AtRest
      <3>2. disk' = disk \/ disk'.stage = 1
        <4>1. CASE Exists(file[eval.name])
          BY <2>2, <4>1 DEF ResultClose
        <4>2. CASE ~Exists(file[eval.name])
          BY <2>2, <4>2 DEF ResultClose
        <4> QED
          BY <4>1, <4>2
      <3> QED
        BY <2>0, <3>1, <3>2, <1>s DEF Now
    <2>3. CASE Backup(n)
      <3>1. /\ file' = [file EXCEPT ![n] = NoFile] /\ bak' = [bak EXCEPT ![n] = file[n]]
            /\ disk.op = "store" /\ disk.name = n /\ disk.stage = 1
            /\ disk'.name = n /\ disk'.op = "store" /\ disk'.stage = 2
        BY <2>3, <1>t DEF Backup, Jobs
      <3>2. Now(b)' = Now(b)
        BY <3>1, <1>b, <1>t DEF Now
      <3> QED
        BY <2>0, <3>1, <3>2, <1>s
    <2>4. CASE Replace(n)
      <3>1. /\ file' = [file EXCEPT ![n] =
                          IF bak[n].by = "move" THEN [temp EXCEPT !.by = "move"] ELSE temp]
            /\ disk.op = "store" /\ disk.name = n /\ disk.stage = 2
            /\ disk'.name = n /\ disk'.op = "store" /\ disk'.stage = 3
        BY <2>4, <1>t DEF Replace, Jobs
      <3>2. temp.by = "result" /\ Exists(bak[n])
        BY <3>1 DEF FolderInv, StoreStages, Storing
      <3>3. CASE n = b
        <4>1. Now(b) = bak[b]
          BY <3>1, <3>3 DEF Now
        <4>2. bak[b].by = "move" \/ known[k] # 0
          BY <3>1, <3>2, <3>3, <4>1 DEF Attends, Exists
        <4>3. file'[b].by = (IF bak[b].by = "move" THEN "move" ELSE "result")
          BY <3>1, <3>2, <3>3, <1>b, <1>t DEF Files
        <4> QED
          BY <2>0, <3>1, <4>2, <4>3 DEF Attends, Now
      <3>4. CASE n # b
        <4>1. file'[b] = file[b]
          BY <3>1, <3>4, <1>b, <1>t
        <4> QED
          BY <2>0, <3>1, <3>4, <4>1, <1>s DEF Now
      <3> QED
        BY <3>3, <3>4
    <2>5. CASE Discard(n)
      <3>1. file' = file /\ disk.op = "store" /\ disk.stage = 3 /\ disk'.op = "none"
        BY <2>5, Values DEF Discard
      <3> QED
        BY <2>0, <3>1, <1>s DEF Now
    <2> QED
      BY <1>7, <2>1, <2>2, <2>3, <2>4, <2>5 DEF Store
  <1>8. ASSUME NEW r \in Runners, Wake(r) \/ Runs(r) PROVE Attends(k)'
    BY <1>8, <1>1 DEF Wake, Runs, Look, Ask, Reuse, Request, Load, Compile, FallBack, Finish
  <1>9. CASE Begin \/ Change \/ Notice \/ EndWatcher \/ Signal \/ Ending
    BY <1>9, <1>1 DEF Begin, Change, Notice, EndWatcher, Signal, runnerVars, Ending, PluginsEnd,
                      TimerEnds, TimersEnd, WindowsEnd, MainEnds
  <1> QED
    BY <1>2, <1>3, <1>4, <1>5, <1>6, <1>7, <1>8, <1>9 DEF Step, Disk, Clients

LEMMA AttendsStart == FolderInv /\ Started => \A k \in Told: Attends(k)
  <1> SUFFICES ASSUME FolderInv, Started, NEW k \in Told PROVE Attends(k)
    OBVIOUS
  <1>1. disk.op = "none" /\ known[k] = file[Book[k]].time
    BY Values DEF Started
  <1> QED
    BY <1>1 DEF Attends, Now

LEMMA AttendsRestart == (FolderInv /\ Started)' => (\A k \in Told: Attends(k))'
  BY AttendsStart, PTL

-----------------------------------------------------------------------------
LEMMA Together ==
    NInv <=> /\ TypeOK /\ FolderInv
             /\ \A k \in Told: HasHad(Book[k], known[k]) /\ Attends(k)
             /\ \A r \in Runners: RunnerInv(r)
  BY Runnerwise DEF NInv, Attended, Attends

LEMMA TogetherNext ==
    NInv' <=> /\ TypeOK' /\ FolderInv'
              /\ (\A k \in Told: HasHad(Book[k], known[k]) /\ Attends(k))'
              /\ (\A r \in Runners: RunnerInv(r))'
  BY Together, PTL

LEMMA NInvInit == Init => NInv
  <1> SUFFICES ASSUME Init PROVE NInv
    OBVIOUS
  <1>1. FolderInv /\ TypeOK
    BY FolderInitInv, InitType DEF Init
  <1>2. Started
    BY DEF Init, FolderInit, Started
  <1> QED
    BY <1>1, <1>2, RunnersStart, AttendsStart, Together

LEMMA NInvStays == NInv /\ UNCHANGED vars => NInv'
  BY DEF NInv, TypeOK, FolderTypeOK, FolderInv, TextSurvives, SaveStages, StoreStages, KeptWhole,
         Timely, Storing, NothingAhead, Honest, Loaded, RunsCurrent, Attended, HasHad, Latest,
         Younger, Now, At, Compiles, Exists, Holds, vars, codeVars, folderVars

LEMMA NInvStep == NInv /\ [Next]_vars => NInv'
  <1> SUFFICES ASSUME NInv, [Next]_vars PROVE NInv'
    OBVIOUS
  <1>0. /\ TypeOK /\ FolderInv
        /\ \A k \in Told: HasHad(Book[k], known[k]) /\ Attends(k)
        /\ \A r \in Runners: RunnerInv(r)
    BY Together
  <1>1. TypeOK' /\ FolderInv'
    <2>1. [FolderNext]_folderVars
      BY NextFolder DEF vars, codeVars
    <2> QED
      BY <1>0, <2>1, TypeKept, FolderInvStep
  <1>2. CASE Crash
    <2>1. Started'
      BY <1>2 DEF Crash, Fresh, Die, Started
    <2> QED
      BY <1>1, <2>1, RunnersRestart, AttendsRestart, TogetherNext
  <1>3. CASE Step /\ Remember
    <2>1. (\A k \in Told: HasHad(Book[k], known[k]))'
      BY <1>0, <1>1, <1>3, KnownStep
    <2>2. \A k \in Told: Attends(k)'
      BY <1>0, <1>3, AttendsStep
    <2>3. \A r \in Runners: RunnerInv(r)'
      BY <1>0, <1>1, <1>3, RunnersStep
    <2> QED
      BY <1>1, <2>1, <2>2, <2>3, TogetherNext
  <1>4. CASE UNCHANGED vars
    BY <1>4, NInvStays
  <1> QED
    BY <1>2, <1>3, <1>4 DEF Next, Ended

(* The invariant of the server's notebooks. *)
THEOREM NotebooksSafe == Spec => []NInv
  <1>1. Init => NInv
    BY NInvInit
  <1>2. NInv /\ [Next]_vars => NInv'
    BY NInvStep
  <1> QED
    BY <1>1, <1>2, PTL DEF Spec

(* Bytecode of another text is never taken for that of the version that is run, although the  *)
(* version and the text are read at different moments by different threads: whoever saves,    *)
(* stores or renames what, as long as the notebook is younger than what its name had before   *)
(* (Cacher::cache).                                                                           *)
THEOREM CurrentRuns == Spec => []RunsCurrent
  <1>1. NInv => RunsCurrent
    BY DEF NInv
  <1> QED
    BY <1>1, NotebooksSafe, PTL

(* Between two jobs the timers and the plugin know their notebook's version, or that of the    *)
(* text whose result has replaced it; of a notebook that was renamed onto its name they may    *)
(* know nothing, until it is saved (Folder::save, move, Timers::updated, Plugin::updated).     *)
THEOREM ToldOfChanges == Spec => []Informed
  <1>1. NInv => Informed
    BY DEF NInv, Attended, Informed, AtRest, Now, Book_
  <1> QED
    BY <1>1, NotebooksSafe, PTL
=============================================================================

------------------------------- MODULE Archives -------------------------------
(* The native modules zip.so and gzip.so: an archive and a compressed file that scripts read  *)
(* and write through tasks.  A task is made at the call, where it opens its file; threads of  *)
(* the I/O pool take its steps, and the script's thread ends it and hears of it.  libzip and  *)
(* the compressor are external: an open archive keeps the directory and the file it was       *)
(* opened on, closing it writes a new file over the old, and a compressor may keep what it    *)
(* was given until it is closed.  What fails at the call throws and changes nothing.          *)
EXTENDS Integers, Sequences, FiniteSets

CONSTANTS
    Entries,     \* the names of an archive's entries
    Texts,       \* what they may have in them; the text 0 is empty
    Requests,    \* the entries that scripts write: functions from names to texts or ByPath
    ByPath,      \* the text is in a file of its own, which is read when the archive is closed
    Pieces,      \* how many pieces of 16 KB a script compresses
    MaxTasks,    \* bounds the tasks of a script
    MaxRemovals, \* bounds how often those files are removed
    Other,       \* a file that is no archive
    None         \* no file

VARIABLES
    threads,     \* the threads of the I/O pool
    archive,     \* what is under the archive's name
    source,      \* what is in the file of ByPath
    zipped,      \* the compressed file: the pieces that can be got from it, and whether it ends
    work,         \* the tasks
    removals,
    due       \* ghost: what the calls made of the archive, if nobody wrote at the same time

archivesVars == <<threads, archive, source, zipped, work, removals, due>>

Is(a) == a \notin {None, Other}

(* Zipping tasks open and close an archive, the others a compressed file. *)
Task(kind, opened, todo) ==
    [kind |-> kind, at |-> "going", opened |-> opened, left |-> todo, edits |-> <<>>,
     got |-> <<>>, append |-> FALSE, pos |-> 0, size |-> 0, held |-> FALSE,
     want |-> opened, alone |-> TRUE]

Going(k) == work[k].at \in {"going", "ending"}
Writing(kinds) == {k \in DOMAIN work : work[k].kind \in kinds /\ Going(k)}

Begin(t) == Len(work) < MaxTasks /\ work' = Append(work, t)

(* A thread is busy with a task from its last step until it lets go of it. *)
Free == Cardinality({k \in DOMAIN work : work[k].held}) < threads

(* After its last step a task is the script's to end. *)
Stepped(t, last) ==
    IF last THEN [t EXCEPT !.at = "ending", !.held = TRUE] ELSE t

-----------------------------------------------------------------------------
(* zip: a truncated archive is opened as an empty one, and so is one to be created. *)
Opened(truncate) == IF truncate \/ archive = None THEN <<>> ELSE archive

ReadZip(names) ==
    /\ archive # None
    /\ LET asked == IF Is(archive)
                    THEN {n \in DOMAIN archive : names = {} \/ n \in names} ELSE {}
       IN Begin([Task("read", archive, asked) EXCEPT !.want = [n \in asked |-> archive[n]]])
    /\ UNCHANGED <<threads, archive, source, zipped, removals, due>>

RemoveZip(names) ==
    /\ archive # None
    /\ Begin(Task("remove", archive, names))
    /\ UNCHANGED <<threads, archive, source, zipped, removals, due>>

\* Defect: appending truncates, writing anew does not.
Swapped(append) == append
Truncates(append) == ~append

(* (To append to what is no archive uses an archive that is not there.) *)
WriteZip(entries, append) ==
    /\ append => archive # Other
    /\ ByPath \in {entries[n] : n \in DOMAIN entries} => source # None
    /\ Begin([Task("write", Opened(Truncates(append)), DOMAIN entries)
                EXCEPT !.want = entries, !.append = append])
    /\ UNCHANGED <<threads, archive, source, zipped, removals, due>>

(* An entry that is empty is not among those read. *)
ReadEntry(k) ==
    LET t == work[k]
        Next(rest, got) == work' = [work EXCEPT ![k] =
                                     Stepped([t EXCEPT !.left = rest, !.got = got], rest = {})]
    IN /\ t.kind = "read" /\ t.at = "going" /\ Free
       /\ IF t.left = {} THEN Next({}, t.got)
          ELSE \E n \in t.left :
                 Next(t.left \ {n},
                      IF t.opened[n] = 0 THEN t.got
                      ELSE [m \in DOMAIN t.got \cup {n} |-> t.opened[m]])
       /\ UNCHANGED <<threads, archive, source, zipped, removals, due>>

RemoveEntries(k) ==
    /\ work[k].kind = "remove" /\ work[k].at = "going" /\ Free
    /\ work' = [work EXCEPT ![k] = Stepped(@, TRUE)]
    /\ UNCHANGED <<threads, archive, source, zipped, removals, due>>

\* Defect: the last entry is not added.
NoneBut(rest) == Cardinality(rest) <= 1
NoneLeft(rest) == rest = {}

WriteEntry(k) ==
    LET t == work[k] IN
    /\ t.kind = "write" /\ t.at = "going" /\ Free
    /\ IF t.left = {} THEN work' = [work EXCEPT ![k] = Stepped(t, TRUE)]
       ELSE \E n \in t.left :
              work' = [work EXCEPT ![k] =
                        Stepped([t EXCEPT !.left = @ \ {n},
                                          !.edits = [m \in DOMAIN @ \cup {n} |-> t.want[m]]],
                                NoneLeft(t.left \ {n}))]
    /\ UNCHANGED <<threads, archive, source, zipped, removals, due>>

-----------------------------------------------------------------------------
(* zip_close: the entries that stay, and those added; an archive without any is removed, and  *)
(* one without a change is not written.  What comes by a path is read now; if it is gone the  *)
(* archive stays as it was, but the task ends as if it were written.                          *)
Current(what) == IF what = ByPath THEN source ELSE what

Result(t) ==
    LET gone == IF t.kind = "remove" THEN t.left ELSE {}
        stay == DOMAIN t.opened \ gone
    IN [n \in stay \cup DOMAIN t.edits |->
           IF n \in DOMAIN t.edits THEN Current(t.edits[n]) ELSE t.opened[n]]

Changes(t) ==
    \/ t.kind = "write" /\ (Truncates(t.append) \/ t.want # <<>>)
    \/ t.kind = "remove" /\ t.left \cap DOMAIN t.opened # {}

Fails(t) == source = None /\ \E n \in DOMAIN t.edits : t.edits[n] = ByPath

Closed(t) ==
    IF ~Is(t.opened) \/ ~Changes(t) \/ Fails(t) THEN archive
    ELSE IF DOMAIN Result(t) = {} THEN None ELSE Result(t)

(* What the call means for an archive, one call after the other. *)
Meaning(t, a) ==
    LET old == IF a = None \/ (t.kind = "write" /\ ~t.append) THEN <<>> ELSE a
        kept == IF t.kind = "remove" THEN DOMAIN old \ t.left ELSE DOMAIN old
        new == IF t.kind = "write" THEN DOMAIN t.want ELSE {}
    IN IF t.kind = "remove" /\ a = Other THEN a
       ELSE IF kept \cup new = {} THEN None
       ELSE [n \in kept \cup new |-> IF n \in new THEN Current(t.want[n]) ELSE old[n]]

(* Whoever else is writing overwrites this, or is overwritten. *)
Crossed(k) ==
    [j \in DOMAIN work |->
        IF j = k THEN [work[k] EXCEPT !.at = "told"]
        ELSE IF work[j].kind \in {"remove", "write"} /\ Going(j)
        THEN [work[j] EXCEPT !.alone = FALSE] ELSE work[j]]

EndZip(k) ==
    LET t == work[k] IN
    /\ t.kind \in {"remove", "write"} /\ t.at = "ending"
    /\ archive' = Closed(t)
    /\ due' = IF ~t.alone THEN archive' ELSE IF Fails(t) THEN due ELSE Meaning(t, due)
    /\ work' = Crossed(k)
    /\ UNCHANGED <<threads, source, zipped, removals>>

-----------------------------------------------------------------------------
(* gzip: the file is emptied at the call.  What is compressed gets there when the compressor  *)
(* sees fit, all of it and the end of the file when the task is destroyed: by the script's    *)
(* thread when it has ended it, or by the thread that took the last step, if later.           *)
Written(n) == [k \in 1 .. n |-> k]
File(text, ends, sure) == [text |-> text, ends |-> ends, sure |-> sure]

Squeezers == Writing({"squeeze"})

(* Several may write the same file, or read it while it is written: then anything may happen. *)
Squeeze(size) ==
    /\ Len(work) < MaxTasks
    /\ work' = Append([k \in DOMAIN work |-> [work[k] EXCEPT !.alone = @ /\ work[k].kind # "expand"]],
                     [Task("squeeze", <<>>, {}) EXCEPT !.size = size])
    /\ zipped' = File(<<>>, FALSE, Squeezers = {}
                      /\ ~\E k \in DOMAIN work : work[k].kind = "squeeze" /\ work[k].held)
    /\ UNCHANGED <<threads, archive, source, removals, due>>

SqueezeStep(k) ==
    LET t == work[k]
        pos == IF t.pos < t.size THEN t.pos + 1 ELSE t.pos
    IN /\ t.kind = "squeeze" /\ t.at = "going" /\ Free
       /\ \E n \in Len(zipped.text) .. pos :
            zipped' = [zipped EXCEPT !.text = IF zipped.sure THEN Written(n) ELSE @]
       /\ work' = [work EXCEPT ![k] = Stepped([t EXCEPT !.pos = pos], pos = t.size)]
       /\ UNCHANGED <<threads, archive, source, removals, due>>

\* Defect: a compressor is not closed with its task.
Unclosed(t) == zipped
Destroyed(t) == File(Written(t.pos), TRUE, zipped.sure)

Drop(t, gone) == zipped' = IF t.kind = "squeeze" /\ gone THEN Destroyed(t) ELSE zipped

EndOther(k) ==
    /\ work[k].kind \in {"read", "squeeze", "expand"} /\ work[k].at = "ending"
    /\ work' = [work EXCEPT ![k].at = "told"]
    /\ Drop(work[k], ~work[k].held)
    /\ UNCHANGED <<threads, archive, source, removals, due>>

LetGo(k) ==
    /\ work[k].held
    /\ work' = [work EXCEPT ![k].held = FALSE]
    /\ Drop(work[k], work[k].at = "told")
    /\ UNCHANGED <<threads, archive, source, removals, due>>

(* A file that stops early is read as if it were all there. *)
Expand ==
    /\ zipped # None
    /\ Begin([Task("expand", <<>>, {}) EXCEPT
                !.alone = zipped.sure /\ Squeezers = {},
                !.want = IF \E k \in DOMAIN work : work[k].kind = "squeeze"
                         THEN LET last == CHOOSE k \in DOMAIN work :
                                     /\ work[k].kind = "squeeze"
                                     /\ \A j \in DOMAIN work : work[j].kind = "squeeze" => j <= k
                              IN Written(work[last].size)
                         ELSE zipped.text])
    /\ UNCHANGED <<threads, archive, source, zipped, removals, due>>

Lesser(a, b) == IF a < b THEN a ELSE b

\* Defect: the last piece, which is short, is not kept.
ShortDropped(text, pos) == SubSeq(text, 1, Lesser(pos, Len(text) - 1))
Inflated(text, pos) == SubSeq(text, 1, Lesser(pos, Len(text)))

ExpandStep(k) ==
    LET t == work[k]
        pos == IF t.pos < Len(zipped.text) THEN t.pos + 1 ELSE t.pos
        end == pos >= Len(zipped.text)
    IN /\ t.kind = "expand" /\ t.at = "going" /\ Free
       /\ work' = [work EXCEPT ![k] =
                    Stepped([t EXCEPT !.pos = pos, !.got = Inflated(zipped.text, pos)], end)]
       /\ UNCHANGED <<threads, archive, source, zipped, removals, due>>

-----------------------------------------------------------------------------
RemoveSource ==
    /\ removals < MaxRemovals /\ removals' = removals + 1
    /\ source # None /\ source' = None
    /\ UNCHANGED <<threads, archive, zipped, work, due>>

ArchivesInit ==
    /\ threads \in {1, 2}
    /\ archive \in {None, Other} \cup [Entries -> Texts] /\ due = archive
    /\ source \in Texts \ {0}
    /\ zipped \in {None, File(Written(2), TRUE, TRUE)}
    /\ work = <<>> /\ removals = 0

ArchivesNext ==
    \/ \E names \in SUBSET Entries : ReadZip(names)
    \/ \E names \in SUBSET Entries \ {{}} : RemoveZip(names)
    \/ \E entries \in Requests, append \in BOOLEAN : WriteZip(entries, append)
    \/ \E n \in Pieces : Squeeze(n)
    \/ Expand
    \/ \E k \in DOMAIN work :
         \/ ReadEntry(k)
         \/ RemoveEntries(k)
         \/ WriteEntry(k)
         \/ SqueezeStep(k)
         \/ ExpandStep(k)
         \/ EndZip(k)
         \/ EndOther(k)
         \/ LetGo(k)
    \/ RemoveSource

-----------------------------------------------------------------------------
(* An archive that nobody wrote at the same time is what the calls made of it, one after the  *)
(* other; and what is read from it is all that was asked for and there at the call, without   *)
(* what was empty (the tasks of zip.cpp).  A call that adds a file which is gone when the     *)
(* archive is closed makes nothing of it, not even of its other entries, though its promise   *)
(* resolves as if all were written (zip.cpp:212): against zip.yml:101, and excepted here.     *)
ArchiveWhole ==
    /\ archive = due
    /\ \A k \in DOMAIN work :
         LET t == work[k] IN
         (t.kind = "read" /\ t.at = "told") =>
            t.got = [n \in {m \in DOMAIN t.want : t.want[m] # 0} |-> t.want[n]]

(* A script that was told that its text is in the file gets all of it back, when one thread   *)
(* takes the steps and nobody else writes.  (With two, the one may still hold the compressor  *)
(* while the other reads.)                                                                    *)
CompressedWhole ==
    \A k \in DOMAIN work :
        LET t == work[k] IN
        (t.kind = "expand" /\ t.at = "told" /\ t.alone /\ threads = 1) => t.got = t.want
=============================================================================

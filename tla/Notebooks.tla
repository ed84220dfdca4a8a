------------------------------ MODULE Notebooks ------------------------------
(***************************************************************************)
(* Who runs notebooks inside the server, and how they learn that one has   *)
(* changed: the timer thread (timers.cpp), a plugin that watches a         *)
(* directory (plugin.cpp, ext/inotify) and application requests            *)
(* (router.cpp).  Each keeps bytecode of its own, by the version it was    *)
(* compiled for (cacher.cpp); the timers and the plugin are told versions  *)
(* by the folder, an application request asks the disk for it.  The signal *)
(* handler on the I/O thread ends them (server.cpp).                       *)
(***************************************************************************)
EXTENDS Folder

CONSTANTS
    Book,      \* the notebook of each runner
    Setups,    \* which runners a server may be configured, or requested, to have
    Broken,    \* texts that do not compile
    Fetching   \* runners whose notebook waits for the I/O thread

Told == {"timer", "plugin"}
Runners == Told \cup {"app"}
Scheduled == {Book[r] : r \in Runners}

ASSUME NotebooksAssumption ==
    /\ Book \in [Runners -> Names] /\ Setups \subseteq SUBSET Runners
    /\ Broken \subseteq Codes
    /\ Fetching \subseteq Runners

VARIABLES
    active,    \* the runners there are
    known,     \* the version the timers and the plugin know of their notebook, 0 if none
    cached,    \* each runner's bytecode: the text, and the version it is kept under
    run,       \* what each runner is doing
    io,        \* the I/O thread: serving, or how far the signal's handler has come
    stop,      \* Timers::stop
    watcher,   \* the thread that reads inotify's events
    watching,  \* the flag that keeps it going
    changes,   \* a changed file whose event it has not read
    posted,    \* an event is posted to the plugin's own thread
    before     \* ghost: the greatest time of what a name of theirs has had and has no more

codeVars == <<folderVars, active, known, cached, run, io, stop, watcher, watching, changes, posted>>
vars == <<codeVars, before>>
runnerVars == <<active, known, cached, run>>
serverVars == <<io, stop, watcher, watching, changes, posted>>

Steps == {"idle", "look", "ask", "have", "load", "loaded", "run", "ended"}
Run == [pc: Steps, ver: Times, text: Files]
Bytecode == [code: Codes, time: Times]
NoCode == [code |-> 0, time |-> 0]

TypeOK ==
    /\ FolderTypeOK
    /\ active \in SUBSET Runners
    /\ known \in [Told -> Times]
    /\ cached \in [Runners -> Bytecode]
    /\ run \in [Runners -> Run]
    /\ io \in {"serving", "plugins", "timers", "windows", "stopped", "gone"}
    /\ stop \in BOOLEAN
    /\ watcher \in {"starting", "watching", "ended"} /\ watching \in BOOLEAN
    /\ changes \in BOOLEAN /\ posted \in BOOLEAN
    /\ before \in [Scheduled -> Times]

Idle == [pc |-> "idle", ver |-> 0, text |-> NoFile]

(* Without a plugin there is no watcher to end. *)
StartOf(on) == IF "plugin" \in on THEN "starting" ELSE "ended"

(* Starting the server: what is remembered of notebooks is read from the folder. *)
Fresh(k) ==
    /\ known' = k
    /\ UNCHANGED active
    /\ cached' = [r \in Runners |-> NoCode]
    /\ run' = [r \in Runners |-> Idle]
    /\ io' = "serving" /\ stop' = FALSE
    /\ watcher' = StartOf(active) /\ watching' = FALSE /\ changes' = FALSE /\ posted' = FALSE
    /\ before' = [n \in Scheduled |-> 0]

Init ==
    /\ FolderInit
    /\ active \in Setups
    /\ known = [k \in Told |-> file[Book[k]].time]
    /\ cached = [r \in Runners |-> NoCode]
    /\ run = [r \in Runners |-> Idle]
    /\ io = "serving" /\ stop = FALSE
    /\ watcher = StartOf(active) /\ watching = FALSE /\ changes = FALSE /\ posted = FALSE
    /\ before = [n \in Scheduled |-> 0]

Running == io # "gone"
Serving == io = "serving"

-----------------------------------------------------------------------------
(* Being told.  Both take a mutex, which a runner holds while it looks its version up. *)
(* Defect: the lock is held until the notebook has been compiled. *)
LookingLong(r) == run[r].pc \in {"look", "have", "load", "loaded"}

Looking(r) == run[r].pc = "look"
Unlocked(n) == \A k \in Told: Book[k] = n => ~Looking(k)

(* Defect: a timer or plugin is told the version when the notebook is opened only. *)
UpdatedOnce(n) ==
    /\ Unlocked(n)
    /\ known' = [k \in Told |-> IF Book[k] = n /\ known[k] = 0 THEN file'[n].time ELSE known[k]]

Updated(n) ==
    /\ Unlocked(n)
    /\ known' = [k \in Told |-> IF Book[k] = n THEN file'[n].time ELSE known[k]]

Removed(n) ==
    /\ Unlocked(n)
    /\ known' = [k \in Told |-> IF Book[k] = n THEN 0 ELSE known[k]]

(* Requests about the folder, on the disk thread, with those who are told in the same job. *)
Save(n) == SaveBegin(n) /\ Running /\ UNCHANGED <<runnerVars, serverVars>>
Saved(n) == SaveEnd(n) /\ Updated(n) /\ UNCHANGED <<active, cached, run, serverVars>>
SaveThrows(n) == SaveFails(n) /\ UNCHANGED <<runnerVars, serverVars>>
Rename(n, m) == Move(n, m) /\ Running /\ Removed(n) /\ UNCHANGED <<active, cached, run, serverVars>>
Delete(n) == Remove(n) /\ Running /\ Removed(n) /\ UNCHANGED <<active, cached, run, serverVars>>

(* A stored result tells nobody. *)
Store(n) ==
    /\ \/ ResultLoad(n) /\ Running
       \/ eval.name = n /\ ResultClose /\ Running
       \/ Backup(n)
       \/ Replace(n)
       \/ Discard(n)
    /\ UNCHANGED <<runnerVars, serverVars>>

-----------------------------------------------------------------------------
(* A runner has the version to run: of what it was told, or, for an application, of the disk. *)
Go(r, step) == run' = [run EXCEPT ![r] = step]
At(r, pc) == run[r].pc = pc

(* Defect: the timer's thread does not look at its flag. *)
WakeStopped(r) ==
    /\ r \in active /\ At(r, "idle") /\ Running
    /\ \/ r = "timer" /\ UNCHANGED posted
       \/ r = "plugin" /\ posted /\ posted' = FALSE
       \/ r = "app" /\ Serving /\ UNCHANGED posted
    /\ Go(r, [Idle EXCEPT !.pc = IF r \in Told THEN "look" ELSE "ask"])
    /\ UNCHANGED <<folderVars, active, known, cached, io, stop, watcher, watching, changes>>

(* The minute of a timer; an event, on the plugin's thread; a request.  The lock is taken. *)
Wake(r) ==
    /\ r \in active /\ At(r, "idle") /\ Running
    /\ \/ r = "timer" /\ ~stop /\ UNCHANGED posted
       \/ r = "plugin" /\ posted /\ posted' = FALSE
       \/ r = "app" /\ Serving /\ UNCHANGED posted
    /\ Go(r, [Idle EXCEPT !.pc = IF r \in Told THEN "look" ELSE "ask"])
    /\ UNCHANGED <<folderVars, active, known, cached, io, stop, watcher, watching, changes>>

(* The version is copied and the lock given up.  Without a version, the bytecode is dropped. *)
Look(r) ==
    /\ At(r, "look")
    /\ IF known[r] # 0
         THEN Go(r, [Idle EXCEPT !.pc = "have", !.ver = known[r]]) /\ UNCHANGED cached
         ELSE Go(r, Idle) /\ cached' = [cached EXCEPT ![r] = NoCode]
    /\ UNCHANGED <<folderVars, active, known, serverVars>>

(* The disk thread looks for the application of a request; without one there is no more to it. *)
Ask(r) ==
    /\ At(r, "ask") /\ AtRest
    /\ LET f == file[Book[r]]
       IN Go(r, IF Exists(f) THEN [Idle EXCEPT !.pc = "have", !.ver = f.time] ELSE Idle)
    /\ UNCHANGED <<folderVars, active, known, cached, serverVars>>

-----------------------------------------------------------------------------
(* Cacher::cache.  Bytecode that is not older than the version is run as it is. *)
(* Defect: bytecode is kept for ever. *)
IsOldNever(r) == cached[r] = NoCode

IsOld(r) == cached[r] = NoCode \/ cached[r].time < run[r].ver

Reuse(r) ==
    /\ At(r, "have") /\ ~IsOld(r)
    /\ Go(r, [Idle EXCEPT !.pc = "run", !.ver = run[r].ver])
    /\ UNCHANGED <<folderVars, active, known, cached, serverVars>>

(* Otherwise the text is read by the disk thread, while the runner waits. *)
Request(r) ==
    /\ At(r, "have") /\ IsOld(r)
    /\ Go(r, [run[r] EXCEPT !.pc = "load"])
    /\ UNCHANGED <<folderVars, active, known, cached, serverVars>>

Load(r) ==
    /\ At(r, "load") /\ AtRest
    /\ Go(r, [run[r] EXCEPT !.pc = "loaded", !.text = file[Book[r]]])
    /\ UNCHANGED <<folderVars, active, known, cached, serverVars>>

(* What was read is compiled, and kept under the version that was asked for. *)
Compiles(f) == Exists(f) /\ f.code \notin Broken

(* Defect: ... under the version that is known by then. *)
CompileLate(r) ==
    /\ At(r, "loaded") /\ Compiles(run[r].text)
    /\ cached' = [cached EXCEPT ![r] =
         [code |-> run[r].text.code, time |-> IF r \in Told THEN known[r] ELSE run[r].ver]]
    /\ Go(r, [Idle EXCEPT !.pc = "run", !.ver = run[r].ver])
    /\ UNCHANGED <<folderVars, active, known, serverVars>>

Compile(r) ==
    /\ At(r, "loaded") /\ Compiles(run[r].text)
    /\ cached' = [cached EXCEPT ![r] = [code |-> run[r].text.code, time |-> run[r].ver]]
    /\ Go(r, [Idle EXCEPT !.pc = "run", !.ver = run[r].ver])
    /\ UNCHANGED <<folderVars, active, known, serverVars>>

(* If it does not compile, or is gone, older bytecode is run, if there is any. *)
FallBack(r) ==
    /\ At(r, "loaded") /\ ~Compiles(run[r].text)
    /\ Go(r, IF cached[r] # NoCode THEN [Idle EXCEPT !.pc = "run", !.ver = run[r].ver] ELSE Idle)
    /\ UNCHANGED <<folderVars, active, known, cached, serverVars>>

(* The cells have run.  A fetch among them ends only as long as the I/O thread serves. *)
Finish(r) ==
    /\ At(r, "run") /\ (r \in Fetching => Serving)
    /\ Go(r, Idle)
    /\ UNCHANGED <<folderVars, active, known, cached, serverVars>>

-----------------------------------------------------------------------------
(* The watcher's thread sets its flag itself, when it starts. *)
Begin ==
    /\ watcher = "starting"
    /\ watcher' = "watching" /\ watching' = TRUE
    /\ UNCHANGED <<folderVars, runnerVars, io, stop, changes, posted>>

Change ==
    /\ "plugin" \in active /\ ~changes /\ Running
    /\ changes' = TRUE
    /\ UNCHANGED <<folderVars, runnerVars, io, stop, watcher, watching, posted>>

(* An event is read: the notebook is to run; or its file is gone again, and the thread returns. *)
Notice ==
    /\ watcher = "watching" /\ changes
    /\ changes' = FALSE
    /\ \/ posted' = TRUE /\ UNCHANGED watcher
       \/ watcher' = "ended" /\ UNCHANGED posted
    /\ UNCHANGED <<folderVars, runnerVars, io, stop, watching>>

EndWatcher ==
    /\ watcher = "watching" /\ ~watching
    /\ watcher' = "ended"
    /\ UNCHANGED <<folderVars, runnerVars, io, stop, watching, changes, posted>>

-----------------------------------------------------------------------------
(* The signal's handler, which keeps the I/O thread: it joins the watcher and the plugin's *)
(* thread, then the timer's, then ends the windows and stops serving.                      *)
Signal ==
    /\ Serving
    /\ io' = "plugins" /\ watching' = FALSE
    /\ UNCHANGED <<folderVars, runnerVars, stop, watcher, changes, posted>>

PluginsEnd ==
    /\ io = "plugins" /\ watcher = "ended" /\ At("plugin", "idle") /\ ~posted
    /\ io' = "timers" /\ stop' = TRUE
    /\ UNCHANGED <<folderVars, runnerVars, watcher, watching, changes, posted>>

(* The timer's thread, back at its wait, finds the flag. *)
TimerEnds ==
    /\ stop /\ At("timer", "idle")
    /\ Go("timer", [Idle EXCEPT !.pc = "ended"])
    /\ UNCHANGED <<folderVars, active, known, cached, serverVars>>

TimersEnd ==
    /\ io = "timers" /\ At("timer", "ended")
    /\ io' = "windows"
    /\ UNCHANGED <<folderVars, runnerVars, stop, watcher, watching, changes, posted>>

WindowsEnd ==
    /\ io = "windows"
    /\ io' = "stopped"
    /\ UNCHANGED <<folderVars, runnerVars, stop, watcher, watching, changes, posted>>

(* main() joins the pool of applications and results, then the disk thread. *)
MainEnds ==
    /\ io = "stopped" /\ At("app", "idle") /\ ~Evaluating /\ AtRest
    /\ io' = "gone"
    /\ UNCHANGED <<folderVars, runnerVars, stop, watcher, watching, changes, posted>>

(* The process dies, or has ended, and is started again on the folder as it is. *)
Crash == Running /\ Die /\ Fresh([k \in Told |-> file[Book[k]].time])

(* Nothing runs any more. *)
Ended == ~Running /\ UNCHANGED vars

Disk == \E n \in Names: Saved(n) \/ SaveThrows(n) \/ Store(n)
Clients == \E n \in Names: Save(n) \/ Delete(n) \/ (\E m \in Names: Rename(n, m))
Runs(r) ==
    \/ r \in Told /\ Look(r)
    \/ r = "app" /\ Ask(r)
    \/ Reuse(r) \/ Request(r) \/ Load(r) \/ Compile(r) \/ FallBack(r) \/ Finish(r)
Ending == PluginsEnd \/ TimerEnds \/ TimersEnd \/ WindowsEnd \/ MainEnds

Step ==
    \/ Disk \/ Clients
    \/ \E r \in Runners: Wake(r) \/ Runs(r)
    \/ Begin \/ Change \/ Notice \/ EndWatcher
    \/ Signal \/ Ending

(* The notebook of a name, also while its result is being put in its place; and the time of one *)
(* whose text is replaced, or taken away, or that is replaced by an older file.                 *)
Now(n) == IF disk.op = "store" /\ disk.stage = 2 /\ disk.name = n THEN bak[n] ELSE file[n]
Stays(n) == Now(n)'.code = Now(n).code /\ Now(n)'.time >= Now(n).time
Remember ==
    before' = [n \in Scheduled |->
                 IF Stays(n) \/ Now(n).time <= before[n] THEN before[n] ELSE Now(n).time]

Next ==
    \/ Step /\ Remember
    \/ Crash \/ Ended

Spec == Init /\ [][Next]_vars

(* Threads are scheduled, a mutex that is given up again and again is got, a minute comes, and *)
(* the watcher gets to the end of the events there are, where it looks at its flag.  Requests, *)
(* changes, signals and crashes need not come.                                                 *)
Fairness ==
    /\ SF_codeVars(\E n \in Names: Saved(n)) /\ WF_codeVars(\E n \in Names: Store(n))
    /\ \A r \in Runners: WF_codeVars(Runs(r))
    /\ WF_codeVars(\E r \in Told: Wake(r))
    /\ WF_codeVars(Begin \/ EndWatcher)
    /\ WF_codeVars(Ending)

FairSpec == Spec /\ Fairness

-----------------------------------------------------------------------------
Book_(r) == file[Book[r]]

(* The notebook can be told from what its name had before: it is younger.  Two texts may be of *)
(* one tick of the clock that stamps files, and a file that is moved keeps its time.           *)
Younger(n) == Now(n).time > before[n]

(* What a runner runs is the text its notebook has, whenever the version it set out with is  *)
(* still the notebook's and the text compiles: bytecode of another text is never taken for   *)
(* it, although the version and the text are read at different moments, by different threads *)
(* (Cacher::cache).  A notebook that is not younger than what its name had before is         *)
(* excepted: bytecode is compiled again for a later time only (cacher.cpp:20), so of two     *)
(* texts stored in one tick, or of one and an older file renamed onto it, the first may be   *)
(* run for ever, against timers.md:85 and applications.md:187.                               *)
RunsCurrent ==
    \A r \in Runners:
        At(r, "run") /\ run[r].ver = Now(Book[r]).time /\ Compiles(Now(Book[r])) /\ Younger(Book[r])
            => cached[r].code = Now(Book[r]).code

(* Whenever the disk thread is between two jobs, the timers and the plugin know the version  *)
(* of their notebook (Folder::save, move, remove with Timers and Plugin).  Two jobs announce *)
(* nothing: a stored result, after which they know an earlier version (folder.cpp:613), and  *)
(* a rename onto the notebook's name, of which only those of the old name are told           *)
(* (folder.cpp:751).                                                                         *)
Informed ==
    AtRest => \A k \in Told:
        Exists(Book_(k)) => \/ known[k] = Book_(k).time
                            \/ Book_(k).by = "result" /\ known[k] # 0
                            \/ Book_(k).by = "move"

(* "... the timer stops executing it until a valid notebook with that configured name exists  *)
(* again" (timers.md:87): then its version is known.  The code says so to nobody when the     *)
(* notebook comes by a rename (folder.cpp:751), and the timer stays stopped until a save.     *)
Resumed == AtRest => \A k \in Told: Exists(Book_(k)) => known[k] # 0

(* Why runs are current.  Nothing is known, kept or being run under a version that the name has *)
(* not had yet; and a text that was compiled, or is about to be, for a version no older than    *)
(* the notebook's is the notebook's, if that is younger than what was there before.             *)
HasHad(n, t) == t <= Now(n).time \/ t <= before[n]

NothingAhead ==
    /\ \A k \in Told: HasHad(Book[k], known[k])
    /\ \A r \in Runners: HasHad(Book[r], cached[r].time) /\ HasHad(Book[r], run[r].ver)

Latest(n, t) == t >= Now(n).time /\ Younger(n)

Honest ==
    \A r \in Runners:
        cached[r] # NoCode /\ Latest(Book[r], cached[r].time) => cached[r].code = Now(Book[r]).code

Loaded ==
    \A r \in Runners:
        At(r, "loaded") /\ Latest(Book[r], run[r].ver)
            => Exists(run[r].text) /\ run[r].text.code = Now(Book[r]).code

(* Why the timers and the plugin are informed: what is true between two jobs is true of every  *)
(* notebook but the one that is being written.                                                 *)
Attended ==
    \A k \in Told:
        ~(disk.op = "save" /\ disk.name = Book[k]) /\ Exists(Now(Book[k]))
            => \/ known[k] = Now(Book[k]).time
               \/ Now(Book[k]).by = "result" /\ known[k] # 0
               \/ Now(Book[k]).by = "move"

NInv == TypeOK /\ FolderInv /\ NothingAhead /\ Honest /\ Loaded /\ RunsCurrent /\ Attended

(* When the workspace is left alone, runs are of the texts in it from some moment on, of those *)
(* that are younger than what was there before: of an application's always, of the others'     *)
(* if they have been told of it.                                                               *)
EventuallyCurrent ==
    <>[](\A r \in Runners:
        (/\ At(r, "run") /\ Compiles(Book_(r)) /\ Younger(Book[r])
         /\ r = "app" \/ known[r] = Book_(r).time)
            => cached[r].code = Book_(r).code)

(* A runner that waits for the disk thread is answered and finishes: the disk thread is never *)
(* kept from its job by a lock that the runner holds (Timers::run, Timers::updated).          *)
RunsFinish == \A r \in Runners: At(r, "load") ~> At(r, "idle")

(* After a signal the server ends (or has been killed and started again), once the watcher has *)
(* seen its flag cleared, if no notebook waits for the I/O thread (Server::main).              *)
ShutdownEnds ==
    (io = "plugins" /\ ~watching /\ watcher # "starting") ~> (io \in {"gone", "serving"})
=============================================================================

------------------------------ MODULE Databases ------------------------------
(* The LMDB environment that the server and its kernels share: the transactions of noto:db   *)
(* (Database, Handle), the Storage objects of scripts, the storage requests of the router,   *)
(* and the file that is made once under the environment's lock (DB::data).  LMDB itself is   *)
(* outside: one writer at a time, whose lock a death gives up; readers of what was committed *)
(* when they began, one at a time for each thread.                                           *)
EXTENDS Integers, Sequences, FiniteSets

CONSTANTS
    Scripts,     \* threads that run scripts
    Server,      \* the server's disk thread, which does what storage requests ask for
    Home,        \* the process of each thread
    Storage,     \* a database of the Storage API
    Plays,       \* what is run: the calls a thread makes at each depth, the databases that a
                 \* Database object stands for, the keys
    Half,        \* numbers in keys are -Half..Half-1
    Base,        \* the number of values of a byte
    Secret,      \* what the candidates for the file may be
    None,        \* no thread, no file, no view, no bound
    Missing,     \* the state of a database there is not
    MaxDeaths    \* bounds how many processes die

(* Keys are numbers [type |-> "number", n |-> ...] and strings [type |-> "string", s |-> ...], *)
(* which are not empty and do not begin with a zero.                                          *)
IsKey(k) ==
    \/ k.type = "number" /\ k \in [type : {"number"}, n : (-Half)..(Half - 1)]
    \/ /\ k.type = "string" /\ k \in [type : {"string"}, s : Seq(Nat)]
       /\ k.s # <<>> /\ k.s[1] # 0

Operations ==
    {"rw", "ro", "drop", "set", "remove", "clear", "read", "put", "erase", "wipe", "each", "data"}

ASSUME DatabasesAssumption ==
    /\ Half \in Nat \ {0} /\ Base \in Nat \ {0} /\ Base * Base = 2 * Half
    /\ MaxDeaths \in Nat
    /\ None \notin Scripts \cup Server \cup Secret
    /\ \A p \in Plays :
         /\ DOMAIN p = {"calls", "user", "keys"} /\ Storage \notin p.user
         /\ p.calls \in [Scripts \cup Server -> Seq(SUBSET Operations)]
         /\ \A k \in p.keys : IsKey(k)

VARIABLES
    play,        \* which of them it is
    disk,        \* what is committed: the keys of each database, or Missing
    lock,        \* the thread whose write transaction it is
    stack,       \* the calls a thread is in, the inmost last
    kept,        \* the depths of the calls whose handles are open
    file,        \* the file, or None
    temporary,   \* the file it is written to first
    known,       \* what the last DB::data of a thread returned
    deaths

vars == <<play, disk, lock, stack, kept, file, temporary, known, deaths>>

Thread == Scripts \cup Server
Process == {Home[t] : t \in Thread}
User == play.user
Names == {Storage} \cup UNION {p.user : p \in Plays}

-----------------------------------------------------------------------------
(* A number is stored as a zero and its bytes, the highest first; two of them here.            *)
Bytes(u) == <<0, u \div Base, u % Base>>

(* Defect: the sign bit is left as it is. *)
EncodeSigned(k) == IF k.type = "number" THEN Bytes(k.n % (2 * Half)) ELSE k.s

(* The two's complement of the number with its sign bit turned over; strings as they are. *)
Encode(k) == IF k.type = "number" THEN Bytes(((k.n % (2 * Half)) + Half) % (2 * Half)) ELSE k.s

(* What does not begin with a zero (nor ends with one, as objects do) is a string. *)
Decode(b) ==
    IF b[1] = 0 THEN [type |-> "number", n |-> b[2] * Base + b[3] - Half]
    ELSE [type |-> "string", s |-> b]

ASSUME MissingAssumption ==
    \A p \in Plays : \A s \in SUBSET {Encode(k) : k \in p.keys} : Missing # s

(* How LMDB orders its keys. *)
Less(a, b) ==
    \E i \in 1..Len(b) :
        /\ \A j \in 1..(i - 1) : j <= Len(a) /\ a[j] = b[j]
        /\ i > Len(a) \/ a[i] < b[i]

-----------------------------------------------------------------------------
(* A call waits for the lock; opens its databases for reading; runs the script's function;   *)
(* or writes and renames the file.  Of a transaction it has the view, of a Handle.each the   *)
(* cursor.  raced tells that its databases were dropped while it was about to open them.     *)
Call(c) == [call |-> c, at |-> "waits", view |-> None, cursor |-> None, raced |-> FALSE]

Uses(c) == IF c \in {"rw", "ro", "drop"} THEN User ELSE {Storage}
Top(t) == stack[t][Len(stack[t])]
In(t, at) == stack[t] # <<>> /\ Top(t).at = at
Calls(t, c) == In(t, "waits") /\ Top(t).call = c

Down(s) == SubSeq(s, 1, Len(s) - 1)
Pop(t) == [stack EXCEPT ![t] = Down(@)]
Change(t, f) == [stack EXCEPT ![t][Len(stack[t])] = f]

(* Defect: only one of the databases that are missing is made. *)
OpenedOne(d, names) ==
    LET none == {n \in names : d[n] = Missing}
    IN IF none = {} THEN d ELSE [d EXCEPT ![CHOOSE n \in none : TRUE] = {}]

(* DB::open, for writing and in the first step of opening for reading *)
Opened(d, names) == [n \in Names |-> IF n \in names /\ d[n] = Missing THEN {} ELSE d[n]]

Dropped(d, names) == [n \in Names |-> IF n \in names THEN Missing ELSE d[n]]

(* Who was about to open a database that is gone now. *)
Raced(s, d) ==
    [t \in Thread |->
        IF s[t] # <<>> /\ s[t][Len(s[t])].at = "opens"
           /\ \E n \in Uses(s[t][Len(s[t])].call) : d[n] = Missing
        THEN [s[t] EXCEPT ![Len(s[t])].raced = TRUE] ELSE s[t]]

(* Defect: the handles of a call that is over are left as they are. *)
ClosedNone(levels, level) == levels

(* The end of Database::tx: the handles it made are closed, whoever keeps them. *)
Closed(levels, level) == levels \ {level}

-----------------------------------------------------------------------------
Init ==
    /\ play \in Plays
    /\ disk = [n \in Names |-> Missing] /\ lock = None
    /\ stack = [t \in Thread |-> <<>>] /\ kept = [t \in Thread |-> {}]
    /\ file = None /\ temporary = None /\ known = [t \in Thread |-> None] /\ deaths = 0

(* A script calls, perhaps from within the function of a transaction; a request comes in. *)
May(t, c) ==
    /\ stack[t] = <<>> \/ In(t, "runs")
    /\ LET calls == play.calls[t]
       IN Len(stack[t]) < Len(calls) /\ c \in calls[Len(stack[t]) + 1]

Begin(t) ==
    /\ \E c \in {"rw", "ro", "drop", "set", "remove", "clear", "read", "put", "erase", "wipe"} :
         May(t, c) /\ stack' = [stack EXCEPT ![t] = Append(@, Call(c))]
    /\ UNCHANGED <<play, disk, lock, kept, file, temporary, known, deaths>>

(* Database::rw begins: its databases are made when they are missing. *)
BeginWrite(t) ==
    /\ Calls(t, "rw") /\ lock = None /\ lock' = t
    /\ stack' = Change(t, [Top(t) EXCEPT !.at = "runs", !.view = Opened(disk, User)])
    /\ kept' = [kept EXCEPT ![t] = @ \cup {Len(stack[t])}]
    /\ UNCHANGED <<play, disk, file, temporary, known, deaths>>

(* Opening for reading, first with a write transaction, which makes what is missing. *)
Prepare(t) ==
    /\ Calls(t, "ro") \/ Calls(t, "read")
    /\ lock = None /\ disk' = Opened(disk, Uses(Top(t).call))
    /\ stack' = Change(t, [Top(t) EXCEPT !.at = "opens"])
    /\ UNCHANGED <<play, lock, kept, file, temporary, known, deaths>>

Reads(t) == \E i \in 1..(Len(stack[t]) - 1) : stack[t][i].call = "ro"

(* Then, with another transaction, to read.  It throws if they have gone meanwhile, or if    *)
(* the thread has a transaction of that kind already.                                        *)
Open(t) ==
    /\ In(t, "opens")
    /\ IF Top(t).call = "ro" /\ ~Reads(t) /\ \A n \in User : disk[n] # Missing
       THEN /\ stack' = Change(t, [Top(t) EXCEPT !.at = "runs", !.view = disk, !.raced = FALSE])
            /\ kept' = [kept EXCEPT ![t] = @ \cup {Len(stack[t])}]
       ELSE stack' = Pop(t) /\ UNCHANGED kept
    /\ UNCHANGED <<play, disk, lock, file, temporary, known, deaths>>

(* What a call in one transaction of its own leaves: Database::drop, Storage and the router's *)
(* requests, which do not make a database.                                                    *)
After(c, d, k) ==
    LET made == Opened(d, {Storage})
    IN CASE c = "drop" -> Dropped(d, User)
         [] c \in {"clear", "wipe"} -> Dropped(d, {Storage})
         [] c = "set" -> [made EXCEPT ![Storage] = @ \cup {k}]
         [] c = "remove" -> [made EXCEPT ![Storage] = @ \ {k}]
         [] c = "put" /\ d[Storage] # Missing -> [d EXCEPT ![Storage] = @ \cup {k}]
         [] c = "erase" /\ d[Storage] # Missing -> [d EXCEPT ![Storage] = @ \ {k}]
         [] OTHER -> d

Once(t) ==
    /\ lock = None
    /\ \E c \in {"drop", "set", "remove", "clear", "put", "erase", "wipe"}, k \in play.keys :
         Calls(t, c) /\ disk' = After(c, disk, Encode(k))
    /\ stack' = Raced(Pop(t), disk')
    /\ UNCHANGED <<play, lock, kept, file, temporary, known, deaths>>

(* A key that is deleted is not owed any more, nor is one that is shown. *)
Disowned(c, k) == [c EXCEPT !.owed = @ \ {k}]
Shown(c, k) == [Disowned(c, k) EXCEPT !.last = k]

(* Handle::set and Handle::del. *)
Use(t) ==
    /\ In(t, "runs") /\ Top(t).call = "rw"
    /\ \E n \in User, k \in play.keys :
         LET f == Top(t)
             gone == Encode(k) \in f.view[n]
         IN stack' = Change(t,
                [f EXCEPT !.view[n] = IF gone THEN @ \ {Encode(k)} ELSE @ \cup {Encode(k)},
                          !.cursor = IF @ # None /\ gone /\ @.db = n
                                     THEN Disowned(@, k) ELSE @])
    /\ UNCHANGED <<play, disk, lock, kept, file, temporary, known, deaths>>

(* Numbers in their order, then the strings in that of their bytes. *)
Before(a, b) ==
    IF a.type = "number" THEN b.type = "number" => a.n < b.n
    ELSE b.type = "string" /\ Less(a.s, b.s)

(* Handle::each, map and reduce: from the first key that is not before lo to the last that   *)
(* is not after hi.  owed are the keys it has to show unless they are deleted before.        *)
Each(t) ==
    /\ In(t, "runs") /\ Top(t).cursor = None /\ May(t, "each")
    /\ \E n \in User, lo, hi \in play.keys \cup {None} :
         stack' = Change(t, [Top(t) EXCEPT !.cursor =
             [db |-> n, lo |-> lo, hi |-> hi, last |-> None, over |-> FALSE,
              owed |-> {k \in play.keys :
                          /\ Encode(k) \in Top(t).view[n]
                          /\ lo = None \/ ~Before(k, lo)
                          /\ hi = None \/ ~Before(hi, k)}]])
    /\ UNCHANGED <<play, disk, lock, kept, file, temporary, known, deaths>>

(* Defect: the last key is left out. *)
AheadShort(c, view) ==
    {b \in view :
       /\ c.last = None \/ Less(Encode(c.last), b)
       /\ c.lo = None \/ ~Less(b, Encode(c.lo))
       /\ c.hi = None \/ Less(b, Encode(c.hi))}

Ahead(c, view) ==
    {b \in view :
       /\ c.last = None \/ Less(Encode(c.last), b)
       /\ c.lo = None \/ ~Less(b, Encode(c.lo))
       /\ c.hi = None \/ ~Less(Encode(c.hi), b)}

(* The function is called with the next key; or there is none left. *)
Show(t) ==
    /\ In(t, "runs") /\ Top(t).cursor # None /\ ~Top(t).cursor.over
    /\ LET c == Top(t).cursor
           next == Ahead(c, Top(t).view[c.db])
           k == Decode(CHOOSE x \in next : \A y \in next : ~Less(y, x))
       IN stack' = Change(t, [Top(t) EXCEPT !.cursor =
              IF next = {} THEN [c EXCEPT !.over = TRUE]
              ELSE Shown(c, k)])
    /\ UNCHANGED <<play, disk, lock, kept, file, temporary, known, deaths>>

(* It has come to its end, or the function returned false or threw. *)
Stop(t) ==
    /\ In(t, "runs") /\ Top(t).cursor # None
    /\ stack' = Change(t, [Top(t) EXCEPT !.cursor = None])
    /\ UNCHANGED <<play, disk, lock, kept, file, temporary, known, deaths>>

InStep(d) == \A m, n \in User : d[m] = d[n]

(* Defect: what was written before the function threw is committed. *)
OutcomeAlways(f, threw) == IF f.call = "rw" THEN f.view ELSE disk

(* Database::tx: only a function that returns has its writes committed. *)
Outcome(f, threw) == IF f.call = "rw" /\ ~threw THEN f.view ELSE disk

(* The function returns or throws.  Our scripts return when their databases are in step. *)
Finish(t) ==
    /\ In(t, "runs")
    /\ \E threw \in BOOLEAN :
         /\ ~threw => Top(t).cursor = None /\ InStep(Top(t).view)
         /\ disk' = Outcome(Top(t), threw)
    /\ lock' = IF Top(t).call = "rw" THEN None ELSE lock
    /\ kept' = [kept EXCEPT ![t] = Closed(@, Len(stack[t]))]
    /\ stack' = Pop(t)
    /\ UNCHANGED <<play, file, temporary, known, deaths>>

-----------------------------------------------------------------------------
(* DB::data: the file is read, and made under the lock if it is not there. *)
Read(t) ==
    /\ May(t, "data")
    /\ IF file # None THEN known' = [known EXCEPT ![t] = file] /\ UNCHANGED stack
       ELSE stack' = [stack EXCEPT ![t] = Append(@, Call("data"))] /\ UNCHANGED known
    /\ UNCHANGED <<play, disk, lock, kept, file, temporary, deaths>>

(* Defect: the file is not looked for again once the lock is held. *)
ReadAgainNot(t) ==
    /\ Calls(t, "data") /\ lock = None /\ lock' = t
    /\ stack' = Change(t, [Top(t) EXCEPT !.at = "writes"])
    /\ UNCHANGED <<play, disk, kept, file, temporary, known, deaths>>

ReadAgain(t) ==
    /\ Calls(t, "data") /\ lock = None
    /\ IF file # None
       THEN /\ known' = [known EXCEPT ![t] = file] /\ stack' = Pop(t) /\ UNCHANGED lock
       ELSE /\ lock' = t /\ stack' = Change(t, [Top(t) EXCEPT !.at = "writes"])
            /\ UNCHANGED known
    /\ UNCHANGED <<play, disk, kept, file, temporary, deaths>>

Write(t) ==
    /\ In(t, "writes") /\ temporary' \in Secret
    /\ stack' = Change(t, [Top(t) EXCEPT !.at = "renames"])
    /\ UNCHANGED <<play, disk, lock, kept, file, known, deaths>>

Rename(t) ==
    /\ In(t, "renames") /\ file' = temporary /\ temporary' = None
    /\ known' = [known EXCEPT ![t] = temporary]
    /\ lock' = None /\ stack' = Pop(t)
    /\ UNCHANGED <<play, disk, kept, deaths>>

(* Defect: the transaction that stands for the lock is not ended on the way out. *)
FailHeld(t) ==
    /\ In(t, "writes") \/ In(t, "renames")
    /\ temporary' = None /\ stack' = Pop(t)
    /\ UNCHANGED <<play, disk, lock, kept, file, known, deaths>>

Fail(t) ==
    /\ In(t, "writes") \/ In(t, "renames")
    /\ temporary' = None /\ lock' = None /\ stack' = Pop(t)
    /\ UNCHANGED <<play, disk, kept, file, known, deaths>>

(* A process dies.  Its transactions are as if they had not been; its files stay. *)
Die(p) ==
    /\ deaths < MaxDeaths /\ deaths' = deaths + 1
    /\ LET its == {t \in Thread : Home[t] = p}
       IN /\ lock' = IF lock \in its THEN None ELSE lock
          /\ stack' = [t \in Thread |-> IF t \in its THEN <<>> ELSE stack[t]]
          /\ kept' = [t \in Thread |-> IF t \in its THEN {} ELSE kept[t]]
          /\ known' = [t \in Thread |-> IF t \in its THEN None ELSE known[t]]
    /\ UNCHANGED <<play, disk, file, temporary>>

Step(t) ==
    \/ Begin(t) \/ BeginWrite(t) \/ Prepare(t) \/ Open(t) \/ Once(t)
    \/ Use(t) \/ Each(t) \/ Show(t) \/ Stop(t) \/ Finish(t)
    \/ Read(t) \/ ReadAgain(t) \/ Write(t) \/ Rename(t) \/ Fail(t)

Next == (\E t \in Thread : Step(t)) \/ \E p \in Process : Die(p)

Spec == Init /\ [][Next]_vars

(* Functions of scripts end; who waits for the lock gets it some time if it is freed again   *)
(* and again; the rest of a call does not wait for anybody.                                  *)
Fairness ==
    /\ \A t \in Server : SF_vars(Once(t))
    /\ \A t \in Scripts : WF_vars(Finish(t) \/ Write(t) \/ Rename(t))

FairSpec == Spec /\ Fairness

-----------------------------------------------------------------------------
TypeOK ==
    /\ play \in Plays
    /\ LET States == {Missing} \cup SUBSET {Encode(k) : k \in play.keys}
       IN /\ disk \in [Names -> States] /\ lock \in Thread \cup {None}
          /\ \A t \in Thread : \A i \in DOMAIN stack[t] :
               /\ stack[t][i].at \in {"waits", "opens", "runs", "writes", "renames"}
               /\ stack[t][i].view \in [Names -> States] \cup {None}
    /\ \A t \in Thread : kept[t] \subseteq 1..Len(play.calls[t])
    /\ {file, temporary} \subseteq Secret \cup {None}
    /\ known \in [Thread -> Secret \cup {None}] /\ deaths \in 0..MaxDeaths

Writing(f) == f.at \in {"writes", "renames"} \/ (f.call = "rw" /\ f.at = "runs")

(* The lock is held by the thread that is in a write transaction, which is in one only, and   *)
(* by nobody else; and no handle is open but those of functions that still run: a handle that *)
(* a script keeps never reaches a transaction that is over (Database::tx, Handle::set).       *)
Owned ==
    /\ TypeOK
    /\ \A t \in Thread :
         /\ Cardinality({i \in DOMAIN stack[t] : Writing(stack[t][i])})
              = (IF lock = t THEN 1 ELSE 0)
         /\ \A level \in kept[t] : level \in DOMAIN stack[t] /\ stack[t][level].at = "runs"

(* Between the transaction that makes the databases and the one that reads them they can only *)
(* be missing if somebody dropped them just then.                                             *)
ReadersOpen ==
    \A t \in Thread :
        In(t, "opens") /\ ~Top(t).raced => \A n \in Uses(Top(t).call) : disk[n] # Missing

(* Databases that scripts change together are in step in what is committed, and whoever reads *)
(* them sees them in step, though functions throw and processes die between two changes, and  *)
(* others drop or make the databases meanwhile, which is the only way that a reader does not  *)
(* find them (Database::tx, DB::open).                                                        *)
Together ==
    /\ InStep(disk)
    /\ \A t \in Thread : \A i \in DOMAIN stack[t] :
         stack[t][i].call = "ro" /\ stack[t][i].at = "runs" => InStep(stack[t][i].view)
    /\ ReadersOpen

(* Handle.each shows the keys in their order, numbers before strings, and when it has come to *)
(* its end it has shown every key within its bounds that was there all the time, although its *)
(* function deleted and added keys as it went.                                                *)
EachShows ==
    \A t \in Thread :
        In(t, "runs") /\ Top(t).cursor # None =>
            LET c == Top(t).cursor
            IN /\ c.over => c.owed = {}
               /\ c.last # None => \A k \in c.owed : Before(c.last, k)

(* Whatever processes make the file at the same time, or die while they make it, everyone who *)
(* has its content has the same, and it stays that (DB::data).                                *)
OneSecret == \A t \in Thread : known[t] # None => known[t] = file

(* A script that opens a transaction within one of its own waits for itself. *)
SelfLocked == \E t \in Thread : lock = t /\ In(t, "waits")

(* A request for storage is answered, unless a script holds the lock and waits for itself.    *)
Answered ==
    \A t \in Server : stack[t] # <<>> ~> (stack[t] = <<>> \/ SelfLocked)
=============================================================================

------------------------------- MODULE Worker -------------------------------
(***************************************************************************)
(* The asynchronous runtime of a script thread: class Worker of            *)
(* lib/notojs/global.cpp, the Task class of sdk/engine.hpp, and the three  *)
(* kinds of threads that meet in it.                                       *)
(*                                                                         *)
(*   - The script (JS) thread evaluates code, issues fetch() requests and  *)
(*     native tasks, and then runs Worker::wait, which settles the         *)
(*     promises of whatever is ready and sleeps on a condition variable    *)
(*     while nothing is.                                                   *)
(*   - The I/O thread runs the io_context: the completion handlers of      *)
(*     resolve, connect, handshake, write and read, and the timers'        *)
(*     callbacks, one at a time.                                           *)
(*   - The sync pool runs the steps of tasks and the lookups of cached     *)
(*     responses.                                                          *)
(*                                                                         *)
(* A handler is one step: it runs on one thread, and what it shares with   *)
(* the script thread (result and buffer) it writes under the mutex or in   *)
(* an order that keeps the connection unready until its last write.  The   *)
(* lookup of a cached response is the exception, and is several steps.     *)
(*                                                                         *)
(* Time is counted in ticks, TicksPerMs of them to a millisecond, because  *)
(* the code rounds what a request has used down to whole milliseconds.     *)
(***************************************************************************)
EXTENDS Integers

CONSTANTS
  Conns,            \* the requests the script may issue, each at most once
  Tasks,            \* the native tasks the script may start, each at most once
  Modes,            \* the cache modes requests may use: sets of flag bits
  Bypasses,         \* whether a request carries an Authorization or a Cookie header
  Schemes,          \* the URL schemes of requests and redirect targets
  Redirects,        \* the redirect modes requests may use
  Replies,          \* the headers of final responses, see Headers
  Entries,          \* what sys:httpdata holds for the URL when the program starts
  Timeouts,         \* the timeouts scripts ask for, in milliseconds
  DefaultTimeout,   \* the timeout of a request that asks for none
  WithHeaders,      \* whether a request's config has a "headers" member
  TicksPerMs,       \* the resolution of the clock
  MaxRedirects,     \* bound: the redirects one request meets
  EndlessRedirects, \* whether the bound only stops the counting
  MaxSteps          \* bound: how often a task's step() returns Again

ASSUME TimeAssumption ==
  /\ Timeouts \subseteq Nat \ {0}
  /\ DefaultTimeout \in Nat \ {0}
  /\ TicksPerMs \in Nat \ {0}
  /\ MaxRedirects \in Nat
  /\ MaxSteps \in Nat

ASSUME ChoiceAssumption ==
  /\ Modes \subseteq SUBSET {1, 2, 4, 8, 16}
  /\ Bypasses \subseteq BOOLEAN
  /\ WithHeaders \subseteq BOOLEAN
  /\ EndlessRedirects \in BOOLEAN
  /\ Schemes \subseteq {"http", "https"}
  /\ Redirects \subseteq {"follow", "error", "manual"}
  /\ Replies \subseteq {"fresh", "expired", "dated", "tagged", "bare", "failed"}
  /\ Entries \subseteq {"none", "fresh", "expired", "dated", "tagged", "bare"}

VARIABLES
  pc,      \* where the script thread is
  mu,      \* Worker::mu: the script thread has it, or it is free
  queue,   \* Worker::queue: the connections not yet settled
  con,     \* the Connection objects
  task,    \* the Task objects
  signal,  \* tasks whose last step has cleared `thread` and not yet notified
  ioc,     \* the I/O thread: idle, or blocked in the TLS shutdown of a request
  store,   \* the entry of the URL in the sys:httpdata database
  dangled  \* what has been touched after it was freed

vars == <<pc, mu, queue, con, task, signal, ioc, store, dangled>>
-----------------------------------------------------------------------------
(* The flag bits of Request_::CacheAction.  fetch is read | 0x16, which     *)
(* holds the bits of check and of write.                                    *)
CacheRead  == {1}
CacheWrite == {2}
CacheCheck == {1, 4}
CacheForce == {2, 8}
CacheFetch == {1, 2, 4, 16}

(* What a response says about caching: a Date and an expiry to come; a Date *)
(* and an expiry gone by; a Date only; an ETag without a Date; nothing; and *)
(* a response whose status is not 2xx.                                      *)
Headers == {"fresh", "expired", "dated", "tagged", "bare", "failed"}

(* The stages of a request: the job on the sync pool ("lookup", "decide"),  *)
(* the posted notification of a direct hit, the outstanding operation of    *)
(* the I/O thread.  "done" has been notified; "gone" was touched after the  *)
(* object was freed.                                                        *)
LookupPhases == {"lookup", "decide", "posted"}
NetPhases    == {"resolve", "connect", "handshake", "write", "header", "body"}
Phases       == {"unused", "done", "gone"} \cup LookupPhases \cup NetPhases

(* Connection::result: index 0 is "empty", index 1 the two errors, index 2  *)
(* the rest.                                                                *)
Errors    == {"timeout", "error"}
Responses == {"cached", "network", "notmodified"}
Results   == {"empty"} \cup Errors \cup Responses

Connection ==
  [phase    : Phases,
   result   : Results,
   headers  : Headers,                     \* of the response in result
   buffer   : BOOLEAN,                     \* buffer is allocated
   cache    : SUBSET {1, 2, 4, 8, 16},     \* Request_::cache
   bypass   : BOOLEAN,                     \* the request must not read the cache
   scheme   : {"http", "https"},
   redirect : {"follow", "error", "manual"},
   hops     : 0 .. MaxRedirects,           \* Request_::redirects
   stream   : {"none", "tcp", "raw", "tls"}, \* raw: TLS before its handshake is over
   closed   : BOOLEAN,                     \* the timer closed the stream
   timer    : {"null", "idle", "armed", "due"}, \* due: expired, its callback is queued
   match    : BOOLEAN,                     \* clock is the one the timer's callback captured
   late     : BOOLEAN,                     \* the callback of an older wait is queued
   budget   : Nat,                         \* Request_::timeout, in milliseconds
   elapsed  : Nat,                         \* ticks since clock
   asked    : Nat,                         \* ghost: the timeout the script asked for
   age      : Nat,                         \* ghost: ticks spent, up to asked
   outcome  : Results \cup {"revalidated"}] \* what its promise was settled with

Blank ==
  [phase |-> "unused", result |-> "empty", headers |-> "bare", buffer |-> FALSE,
   cache |-> {}, bypass |-> FALSE, scheme |-> "http", redirect |-> "follow",
   hops |-> 0, stream |-> "none", closed |-> FALSE, timer |-> "null",
   match |-> FALSE, late |-> FALSE, budget |-> 0, elapsed |-> 0, asked |-> 0,
   age |-> 0, outcome |-> "empty"]

Init ==
  /\ pc = "script"
  /\ mu = "free"
  /\ queue = {}
  /\ con = [c \in Conns |-> Blank]
  /\ task = [t \in Tasks |-> [at |-> "unused", left |-> 0]]
  /\ signal = {}
  /\ ioc = "idle"
  /\ store \in Entries
  /\ dangled = {}
-----------------------------------------------------------------------------
(* Time: Connection::timeout, Connection::success.                          *)

(* timeout(): clock is now, the wait is restarted, and an expired callback  *)
(* that is still queued keeps the old clock.                                *)
Arm(r) == [r EXCEPT !.late = @ \/ r.timer = "due",
                    !.timer = "armed", !.match = TRUE, !.elapsed = 0]

Used(r) == r.elapsed \div TicksPerMs

(* Defective: a millisecond too generous.                                   *)
TimedOutLate(r) == r.budget + 1 < Used(r)

TimedOut(r) == r.budget < Used(r)

(* success() returns true: what was used is taken off, and clock moves on   *)
(* while the timer keeps running.                                           *)
Spend(r) == [r EXCEPT !.budget = @ - Used(r), !.elapsed = 0, !.match = FALSE]

(* timer->cancel() cannot recall a callback that is already queued.         *)
Cancel(r) == [r EXCEPT !.timer = IF @ = "armed" THEN "idle" ELSE @]

(* send(): the cache is consulted on the sync pool if the mode reads it and *)
(* the headers allow it; otherwise a new timer is armed and the host name   *)
(* is resolved.                                                             *)
LooksUp(r) == CacheRead \subseteq r.cache /\ ~r.bypass
Network(r) == [Arm(r) EXCEPT !.phase = "resolve"]
Send(r) == IF LooksUp(r) THEN [r EXCEPT !.phase = "lookup"] ELSE Network(r)

(* notify(): under the mutex, and the sleeping script thread is woken.  The *)
(* defective variant does not lock it.                                      *)
WakeUnlocked == pc' = IF pc = "asleep" THEN "woken" ELSE pc

Wake ==
  /\ mu = "free"
  /\ pc' = IF pc = "asleep" THEN "woken" ELSE pc

Notify(c, r) ==
  /\ Wake
  /\ con' = [con EXCEPT ![c] = [r EXCEPT !.phase = "done"]]
  /\ UNCHANGED <<mu, queue, task, signal, ioc, store, dangled>>

Advance(c, r) ==
  /\ con' = [con EXCEPT ![c] = r]
  /\ UNCHANGED <<pc, mu, queue, task, signal, ioc, store, dangled>>
-----------------------------------------------------------------------------
(* The script thread.                                                       *)

(* Request::set_config reads "timeout" only when there are no "headers".    *)
Limit(asked, headers) == IF headers THEN DefaultTimeout ELSE asked

Fetch(c, m, b, s, d, a, h) ==
  /\ pc = "script"
  /\ con[c].phase = "unused"
  /\ queue' = queue \cup {c}
  /\ con' = [con EXCEPT ![c] =
       Send([Blank EXCEPT !.cache = m, !.bypass = b, !.scheme = s, !.redirect = d,
                          !.asked = a, !.budget = Limit(a, h)])]
  /\ UNCHANGED <<pc, mu, task, signal, ioc, store, dangled>>

StartTask(t, n) ==
  /\ pc = "script"
  /\ mu = "free"
  /\ task[t].at = "unused"
  /\ task' = [task EXCEPT ![t] = [at |-> "stepping", left |-> n]]
  /\ UNCHANGED <<pc, mu, queue, con, signal, ioc, store, dangled>>

(* What Worker::wait looks for.                                             *)
Ripe(r) ==
  \/ r.result \in Errors
  \/ r.result \in Responses /\ ~r.buffer

Ready(c) == c \in queue /\ Ripe(con[c])
Finished(t) == task[t].at = "cleared"
Running(t)  == task[t].at \in {"stepping", "cleared"}

Lock ==
  /\ pc \in {"script", "woken"}
  /\ mu = "free"
  /\ mu' = "script"
  /\ pc' = "scan"
  /\ UNCHANGED <<queue, con, task, signal, ioc, store, dangled>>

(* failed() and success(ctx): the promise is settled.  A 304 of a request   *)
(* that may read the cache is replaced by the entry, read again; another    *)
(* 2xx response of the network is written to the cache.                     *)
Writes(r) ==
  /\ CacheWrite \subseteq r.cache
  /\ CacheForce \subseteq r.cache \/ r.headers \notin {"dated", "bare"}
  /\ r.headers # "failed"
  /\ r.timer # "null"

Outcome(r) ==
  IF r.result = "notmodified" /\ r.cache \cap CacheCheck # {} /\ store # "none"
  THEN "revalidated" ELSE r.result

(* Erasing the connection destroys its timer, which cannot recall an        *)
(* expired callback either.                                                 *)
Erased(r) ==
  [Blank EXCEPT !.phase = r.phase, !.cache = r.cache, !.bypass = r.bypass,
                !.headers = r.headers, !.outcome = Outcome(r),
                !.late = r.late \/ r.timer = "due"]

Settle(c) ==
  /\ pc \in {"scan", "settle"}
  /\ Ready(c)
  /\ pc' = "settle"
  /\ queue' = queue \ {c}
  /\ con' = [con EXCEPT ![c] = Erased(@)]
  /\ \/ /\ con[c].result = "network"
        /\ Writes(con[c])
        /\ store' = con[c].headers
     \/ /\ ~(con[c].result = "network" /\ Writes(con[c]))
        /\ store' = store
  /\ UNCHANGED <<mu, task, signal, ioc, dangled>>

(* Task::end.  Tasks are looked at only when no connection was ready.       *)
EndTask(t) ==
  /\ pc \in {"scan", "end"}
  /\ pc = "scan" => \A c \in Conns : ~Ready(c)
  /\ Finished(t)
  /\ pc' = "end"
  /\ task' = [task EXCEPT ![t].at = "ended"]
  /\ UNCHANGED <<mu, queue, con, signal, ioc, store, dangled>>

(* The round is over: unlock, and run the jobs it made ready.  It has       *)
(* settled whatever was ready when it began; what another thread makes      *)
(* ready without the mutex may be behind it in the list.                    *)
EndRound ==
  /\ pc \in {"settle", "end"}
  /\ pc = "settle" => \A c \in Conns : Ready(c) => con[c].phase \in {"decide", "posted"}
  /\ pc = "end" => \A t \in Tasks : Finished(t) => t \in signal
  /\ pc' = "script"
  /\ mu' = "free"
  /\ UNCHANGED <<queue, con, task, signal, ioc, store, dangled>>

(* Defective: the running tasks are forgotten.                              *)
IdleConnections == queue = {}

Idle == queue = {} /\ \A t \in Tasks : ~Running(t)

(* Nothing is ready.  Finding that out and going to sleep are two steps,    *)
(* with the mutex held in between.                                          *)
Doze ==
  /\ pc = "scan"
  /\ ~Idle
  /\ \A c \in Conns : ~Ready(c)
  /\ \A t \in Tasks : ~Finished(t)
  /\ pc' = "doze"
  /\ UNCHANGED <<mu, queue, con, task, signal, ioc, store, dangled>>

Sleep ==
  /\ pc = "doze"
  /\ pc' = "asleep"
  /\ mu' = "free"
  /\ UNCHANGED <<queue, con, task, signal, ioc, store, dangled>>

SpuriousWakeup ==
  /\ pc = "asleep"
  /\ pc' = "woken"
  /\ UNCHANGED <<mu, queue, con, task, signal, ioc, store, dangled>>

(* wait() returns; the thread may later evaluate other code.                *)
Return ==
  /\ pc = "scan"
  /\ Idle
  /\ pc' = "returned"
  /\ mu' = "free"
  /\ UNCHANGED <<queue, con, task, signal, ioc, store, dangled>>

Evaluate ==
  /\ pc = "returned"
  /\ pc' = "script"
  /\ UNCHANGED <<mu, queue, con, task, signal, ioc, store, dangled>>
-----------------------------------------------------------------------------
(* The sync pool.                                                           *)

(* Task::run: a step that returns Again is posted again; the last one       *)
(* clears `thread` first, and locks and notifies after that.                *)
StepAgain(t) ==
  /\ task[t].at = "stepping"
  /\ task[t].left > 0
  /\ task' = [task EXCEPT ![t].left = @ - 1]
  /\ UNCHANGED <<pc, mu, queue, con, signal, ioc, store, dangled>>

StepLast(t) ==
  /\ task[t].at = "stepping"
  /\ task[t].left = 0
  /\ task' = [task EXCEPT ![t].at = "cleared"]
  /\ signal' = signal \cup {t}
  /\ UNCHANGED <<pc, mu, queue, con, ioc, store, dangled>>

NotifyTask(t) ==
  /\ t \in signal
  /\ Wake
  /\ signal' = signal \ {t}
  /\ UNCHANGED <<mu, queue, con, task, ioc, store, dangled>>

(* get_cache: on a hit, result holds the response before anything is        *)
(* decided about it.                                                        *)
Lookup(c) ==
  /\ c \in queue
  /\ con[c].phase = "lookup"
  /\ IF store = "none"
     THEN Advance(c, Network([con[c] EXCEPT !.result = "empty"]))
     ELSE Advance(c, [con[c] EXCEPT !.result = "cached", !.headers = store,
                                    !.phase = "decide"])

(* Whether a cached response has to be revalidated.                         *)
Stale(r) ==
  /\ CacheCheck \subseteq r.cache
  /\ \/ r.headers \in {"expired", "dated", "tagged"}
     \/ r.headers = "fresh" /\ CacheFetch \subseteq r.cache

(* Defective: the stale response stays in result.                           *)
DecideKeeping(c) ==
  /\ c \in queue
  /\ con[c].phase = "decide"
  /\ IF Stale(con[c])
     THEN Advance(c, Network(con[c]))
     ELSE Advance(c, [con[c] EXCEPT !.phase = "posted", !.timer = "null",
                                    !.late = @ \/ con[c].timer = "due"])

Decide(c) ==
  /\ c \in queue
  /\ con[c].phase = "decide"
  /\ IF Stale(con[c])
     THEN Advance(c, Network([con[c] EXCEPT !.result = "empty"]))
     ELSE Advance(c, [con[c] EXCEPT !.phase = "posted", !.timer = "null",
                                    !.late = @ \/ con[c].timer = "due"])
-----------------------------------------------------------------------------
(* The I/O thread.                                                          *)

Handler(c, p) == ioc = "idle" /\ c \in queue /\ con[c].phase = p

NotifyHit(c) ==
  /\ Handler(c, "posted")
  /\ Notify(c, [con[c] EXCEPT !.buffer = FALSE])

(* The operation of a phase failed, or it took too long whatever it         *)
(* returned.  The handshake's handler does not ask how long it took.        *)
Fail(c) ==
  /\ \E p \in NetPhases : Handler(c, p)
  /\ IF con[c].phase # "handshake" /\ TimedOut(con[c])
     THEN Notify(c, [Cancel(con[c]) EXCEPT !.result = "timeout"])
     ELSE Notify(c, [(IF con[c].phase = "handshake" THEN con[c] ELSE Spend(con[c]))
                     EXCEPT !.result = "error"])

InTime(c, p) == Handler(c, p) /\ ~TimedOut(con[c])

(* http() or https(): a new stream, and the connect operation.              *)
Resolved(c) ==
  /\ InTime(c, "resolve")
  /\ Advance(c, [Arm(Spend(con[c])) EXCEPT
       !.phase = "connect", !.closed = FALSE,
       !.stream = IF con[c].scheme = "http" THEN "tcp" ELSE "raw"])

(* SSL_set_tlsext_host_name fails.                                          *)
NoHostName(c) ==
  /\ InTime(c, "resolve")
  /\ con[c].scheme = "https"
  /\ Notify(c, [Spend(con[c]) EXCEPT !.stream = "raw", !.closed = FALSE,
                                     !.result = "error"])

Writing(r) == [Arm(r) EXCEPT !.phase = "write"]

Connected(c) ==
  /\ InTime(c, "connect")
  /\ Advance(c, IF con[c].stream = "tcp"
                THEN Writing(Spend(con[c]))
                ELSE [Spend(con[c]) EXCEPT !.phase = "handshake"])

Shaken(c) ==
  /\ Handler(c, "handshake")
  /\ Advance(c, [Writing(con[c]) EXCEPT !.stream = "tls"])

(* Defective: result holds the response, and the buffer is still to come.   *)
WrittenUnbuffered(c) ==
  /\ InTime(c, "write")
  /\ Advance(c, [Arm(Spend(con[c])) EXCEPT !.phase = "header", !.result = "network"])

(* read(): the buffer is allocated before result holds a response.          *)
Written(c) ==
  /\ InTime(c, "write")
  /\ Advance(c, [Arm(Spend(con[c])) EXCEPT !.phase = "header", !.buffer = TRUE,
                                           !.result = "network"])

Reading(r) == [Arm(r) EXCEPT !.phase = "body"]

Answered(c, h) ==
  /\ InTime(c, "header")
  /\ Advance(c, [Reading(Spend(con[c])) EXCEPT !.headers = h])

NotModified(c) ==
  /\ InTime(c, "header")
  /\ Advance(c, [Reading(Spend(con[c])) EXCEPT !.result = "notmodified"])

(* A 3xx answer: followed to a URL of either scheme, refused (also when its *)
(* location is missing or bad), or handed to the script.                    *)
MeetsRedirect(c) ==
  /\ InTime(c, "header")
  /\ con[c].hops < MaxRedirects \/ EndlessRedirects

Follow(c, s) ==
  /\ MeetsRedirect(c)
  /\ con[c].redirect = "follow"
  /\ Advance(c, Send([Spend(con[c]) EXCEPT !.scheme = s,
                        !.hops = IF @ < MaxRedirects THEN @ + 1 ELSE @]))

Refuse(c) ==
  /\ MeetsRedirect(c)
  /\ con[c].redirect \in {"follow", "error"}
  /\ Notify(c, [Spend(con[c]) EXCEPT !.result = "error"])

HandOver(c) ==
  /\ MeetsRedirect(c)
  /\ con[c].redirect = "manual"
  /\ Advance(c, [Reading(Spend(con[c])) EXCEPT !.headers = "failed"])

Received(c) ==
  /\ InTime(c, "body")
  /\ Notify(c, [Spend(con[c]) EXCEPT !.buffer = FALSE])

(* The timer expires when the request's time is used up; a wait that a      *)
(* later clock has outdated may expire at any time.                         *)
Expire(c) ==
  /\ c \in queue
  /\ con[c].timer = "armed"
  /\ con[c].match => con[c].elapsed >= con[c].budget * TicksPerMs
  /\ Advance(c, [con[c] EXCEPT !.timer = "due"])

(* Defective: the callback does not ask whether clock has moved.            *)
RungAlways(r) ==
  [r EXCEPT !.timer = "idle", !.budget = 0, !.closed = @ \/ r.stream = "tcp"]

(* Defective: only the time is taken off, and no stream is closed.          *)
RungOpen(r) == [r EXCEPT !.timer = "idle", !.budget = IF r.match THEN 0 ELSE @]

(* Its callback: if clock has not moved, a TCP stream is closed, and a TLS  *)
(* stream is shut down synchronously, which waits for the peer once its     *)
(* handshake is over and fails before that.                                 *)
Rung(r) ==
  IF r.match
  THEN [r EXCEPT !.timer = "idle", !.budget = 0, !.closed = @ \/ r.stream = "tcp"]
  ELSE [r EXCEPT !.timer = "idle"]

Alarm(c) ==
  /\ ioc = "idle"
  /\ c \in queue
  /\ con[c].timer = "due"
  /\ con' = [con EXCEPT ![c] = Rung(@)]
  /\ ioc' = IF con[c].match /\ con[c].stream = "tls" THEN "blocked" ELSE "idle"
  /\ UNCHANGED <<pc, mu, queue, task, signal, store, dangled>>

LateAlarm(c) ==
  /\ ioc = "idle"
  /\ c \in queue
  /\ con[c].late
  /\ Advance(c, [con[c] EXCEPT !.late = FALSE])

(* A handler or job reaches the connection after the script thread has      *)
(* erased it.  What that does to the rest of the process is not modelled.   *)
UseAfterErase(c) ==
  /\ c \notin queue
  /\ \/ /\ con[c].phase \in LookupPhases \cup NetPhases
        /\ con' = [con EXCEPT ![c].phase = "gone"]
        /\ dangled' = dangled \cup {<<c, "job">>}
     \/ /\ ioc = "idle"
        /\ con[c].late
        /\ con' = [con EXCEPT ![c].late = FALSE]
        /\ dangled' = dangled \cup {<<c, "timer">>}
  /\ UNCHANGED <<pc, mu, queue, task, signal, ioc, store>>
-----------------------------------------------------------------------------
(* The environment.                                                         *)

PeerAnswersShutdown ==
  /\ ioc = "blocked"
  /\ ioc' = "idle"
  /\ UNCHANGED <<pc, mu, queue, con, task, signal, store, dangled>>

Tick(c) ==
  /\ c \in queue
  /\ con[c].phase \in NetPhases
  /\ ~TimedOut(con[c])
  /\ Advance(c, [con[c] EXCEPT !.elapsed = @ + 1,
                   !.age = IF @ < con[c].asked * TicksPerMs THEN @ + 1 ELSE @])

(* Time passes for the entry, set_packages drops it, or another worker      *)
(* thread stores a response.                                                *)
Age   == store = "fresh" /\ store' = "expired"
Prune == store # "none" /\ store' = "none"
Other == \E h \in Replies \ {"failed"} : store' = h

StoreChanges ==
  /\ Age \/ Prune \/ Other
  /\ UNCHANGED <<pc, mu, queue, con, task, signal, ioc, dangled>>
-----------------------------------------------------------------------------
Script ==
  \/ Lock \/ EndRound \/ Doze \/ Sleep \/ Return
  \/ \E c \in Conns : Settle(c)
  \/ \E t \in Tasks : EndTask(t)

Issue ==
  \/ \E c \in Conns, m \in Modes, b \in Bypasses, s \in Schemes, d \in Redirects,
        a \in Timeouts, h \in WithHeaders : Fetch(c, m, b, s, d, a, h)
  \/ \E t \in Tasks, n \in 0 .. MaxSteps : StartTask(t, n)

Pool(t) == StepAgain(t) \/ StepLast(t) \/ NotifyTask(t)
CacheJob(c) == Lookup(c) \/ Decide(c)

Io(c) ==
  \/ NotifyHit(c) \/ Fail(c) \/ Resolved(c) \/ NoHostName(c) \/ Connected(c)
  \/ Shaken(c) \/ Written(c) \/ NotModified(c) \/ Refuse(c) \/ HandOver(c) \/ Received(c)
  \/ \E h \in Replies : Answered(c, h)
  \/ \E s \in Schemes : Follow(c, s)

Timer(c) == Expire(c) \/ Alarm(c) \/ LateAlarm(c)

Next ==
  \/ Script \/ Issue \/ SpuriousWakeup \/ Evaluate
  \/ PeerAnswersShutdown \/ StoreChanges
  \/ \E t \in Tasks : Pool(t)
  \/ \E c \in Conns : CacheJob(c) \/ Io(c) \/ Timer(c) \/ UseAfterErase(c) \/ Tick(c)

Spec == Init /\ [][Next]_vars
-----------------------------------------------------------------------------
(* Fairness.  The script thread, the pool and the timers run; time passes;  *)
(* a thread that keeps asking for the mutex gets it although others take    *)
(* it in between (hence SF for what notifies); the resolver always answers, *)
(* the kernel gives up on a TCP connect, and an operation on a closed       *)
(* stream is aborted.  A peer need never answer anything.                   *)
Aborted(c) ==
  /\ con[c].phase \in {"resolve", "connect"} \/ con[c].closed
  /\ Fail(c)

Fairness ==
  /\ WF_vars(Script)
  /\ \A t \in Tasks : /\ WF_vars(StepAgain(t) \/ StepLast(t))
                      /\ SF_vars(NotifyTask(t))
  /\ \A c \in Conns : /\ WF_vars(CacheJob(c))
                      /\ SF_vars(NotifyHit(c))
                      /\ SF_vars(Aborted(c))
                      /\ WF_vars(Timer(c))
                      /\ WF_vars(Tick(c))

LiveSpec == Spec /\ Fairness
-----------------------------------------------------------------------------
(* Every variable has values of its type.                                   *)
TypeOK ==
  /\ pc \in {"script", "scan", "settle", "end", "doze", "asleep", "woken", "returned"}
  /\ mu \in {"free", "script"}
  /\ queue \subseteq Conns
  /\ con \in [Conns -> Connection]
  /\ task \in [Tasks -> [at : {"unused", "stepping", "cleared", "ended"}, left : 0 .. MaxSteps]]
  /\ signal \subseteq Tasks
  /\ ioc \in {"idle", "blocked"}
  /\ store \in Headers \cup {"none"}
  /\ dangled \subseteq Conns \X {"job", "timer"}

(* No wakeup is lost: when Worker::wait sleeps, or has found nothing ready  *)
(* and is about to sleep, whatever became ready in the meantime still has   *)
(* its notify_one to come.                                                  *)
NoLostWakeup ==
  pc \in {"doze", "asleep"} =>
    /\ \A c \in Conns : Ready(c) => con[c].phase \in {"decide", "posted"}
    /\ \A t \in Tasks : Finished(t) => t \in signal

(* A connection that was not looked up in the cache is settled and erased   *)
(* only after its last handler: no operation of another thread is left that *)
(* would write to the erased object.                                        *)
SettledIsFinal ==
  \A c \in Conns \ queue : ~LooksUp(con[c]) => con[c].phase \in {"unused", "done"}

(* The timer closes a stream, and a request is rejected with "Request timed *)
(* out", only when the request has had all the time its script asked for,   *)
(* over all its phases and redirects.                                       *)
NoEarlyTimeout ==
  \A c \in queue : con[c].closed \/ con[c].result = "timeout"
     => con[c].age = con[c].asked * TicksPerMs

(* A connection in the queue has a handler, job or notification to come, or *)
(* has had its last: nothing settles it while an operation of the network   *)
(* is outstanding, and only a lookup leaves it ready before its time.       *)
Sound(r) ==
  /\ r.phase \notin {"unused", "gone"}
  /\ r.phase \in NetPhases \cup {"lookup"} => ~Ripe(r)
  /\ r.phase \in {"header", "body"} => r.buffer
  /\ r.phase \in LookupPhases => LooksUp(r)

(* The time a request has had covers what its budget has lost, up to what   *)
(* was rounded away when the budget was last counted down.                  *)
Timely(r) ==
  LET limit == r.asked * TicksPerMs
  IN  /\ r.budget <= r.asked
      /\ r.age <= limit
      /\ r.age = limit \/ r.age >= limit - r.budget * TicksPerMs + r.elapsed
      /\ r.timer = "due" /\ r.match => r.elapsed >= r.budget * TicksPerMs
      /\ r.closed \/ r.result = "timeout" => r.age = limit

MutexInv == mu = "script" <=> pc \in {"scan", "settle", "end", "doze"}

(* The inductive invariant: who holds the mutex, what a queued connection   *)
(* is in the middle of and how long it has been, and the two invariants the *)
(* rest supports, SettledIsFinal and NoLostWakeup.                          *)
IInv ==
  /\ MutexInv
  /\ \A c \in queue : Sound(con[c])
  /\ WithHeaders \subseteq {FALSE} => \A c \in queue : Timely(con[c])
  /\ SettledIsFinal
  /\ NoLostWakeup

(* The worker is an AsyncOps: an operation is pending while another thread  *)
(* works on it, and completed by its last notification.  This is about      *)
(* requests that do not look up the cache.                                  *)
ConnStage(c) ==
  CASE con[c].phase = "unused" -> "idle"
    [] con[c].phase # "unused" /\ c \notin queue -> "settled"
    [] con[c].phase = "done" /\ c \in queue -> "completed"
    [] OTHER -> "pending"

TaskStage(t) ==
  CASE task[t].at = "unused"   -> "idle"
    [] task[t].at = "stepping" -> "pending"
    [] task[t].at = "cleared"  -> "completed"
    [] OTHER -> "settled"

Async == INSTANCE AsyncOps WITH
  Ops    <- Conns \cup Tasks,
  op     <- [o \in Conns \cup Tasks |-> IF o \in Conns THEN ConnStage(o) ELSE TaskStage(o)],
  script <- IF pc = "returned" THEN "returned" ELSE "running"

AsyncSpec == Async!Spec

(* Whatever is issued is settled: Worker::wait always returns, also when    *)
(* peers stay silent, if no request is made or redirected to https.         *)
WaitReturns ==
  [](\A c \in Conns : con[c].scheme = "http") => (pc # "returned" ~> pc = "returned")

(* The timeout applies to every phase of a request, also to the handshake   *)
(* of an https request: it ends, if only because its time is over.          *)
HandshakeEnds == \A c \in Conns : con[c].phase = "handshake" ~> con[c].phase # "handshake"

(* A request in a checking mode is not answered with an expired entry.      *)
StaleIsRevalidated ==
  \A c \in Conns : con[c].outcome = "cached" /\ CacheCheck \subseteq con[c].cache
     => con[c].headers # "expired"
=============================================================================

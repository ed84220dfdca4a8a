---------------------------- MODULE WorkerProofs ----------------------------
(***************************************************************************)
(* Proofs about Worker.  The I/O handlers transform one connection record  *)
(* and pass it to Advance or to Notify, so each fact is first proved of    *)
(* the transformers, then once of Advance and once of Notify, and then of  *)
(* every action.  The second part shows that Worker implements AsyncOps.   *)
(***************************************************************************)
EXTENDS Worker, TLAPS

(* Integer division rounds down: what success() takes off the budget is at  *)
(* most the time that has passed, and less than a millisecond below it.     *)
LEMMA DivBounds ==
  ASSUME NEW e \in Nat
  PROVE  /\ e \div TicksPerMs \in Nat
         /\ (e \div TicksPerMs) * TicksPerMs <= e
         /\ e < (e \div TicksPerMs) * TicksPerMs + TicksPerMs
BY TimeAssumption
-----------------------------------------------------------------------------
(* Types of the transformers.                                               *)

LEMMA BlankType == Blank \in Connection
<1>1. "unused" \in Phases /\ "empty" \in Results /\ "bare" \in Headers
  BY DEF Phases, Results, Headers
<1>2. 0 \in 0 .. MaxRedirects
  BY TimeAssumption
<1>3. QED
  BY <1>1, <1>2 DEF Blank, Connection

LEMMA ArmType == ASSUME NEW r \in Connection PROVE Arm(r) \in Connection
BY DEF Arm, Connection

LEMMA SpendType ==
  ASSUME NEW r \in Connection, ~TimedOut(r) PROVE Spend(r) \in Connection
<1>1. r.budget \in Nat /\ r.elapsed \in Nat
  BY DEF Connection
<1>2. r.budget - Used(r) \in Nat
  BY <1>1, DivBounds DEF TimedOut, Used
<1>3. QED
  BY <1>2, Zenon DEF Spend, Connection

LEMMA CancelType == ASSUME NEW r \in Connection PROVE Cancel(r) \in Connection
BY DEF Cancel, Connection

LEMMA NetworkType == ASSUME NEW r \in Connection PROVE Network(r) \in Connection
<1>1. "resolve" \in Phases
  BY DEF Phases, NetPhases
<1>2. QED
  BY <1>1, ArmType DEF Network, Connection

LEMMA SendType == ASSUME NEW r \in Connection PROVE Send(r) \in Connection
<1>1. "lookup" \in Phases
  BY DEF Phases, LookupPhases
<1>2. QED
  BY <1>1, NetworkType DEF Send, Connection

LEMMA WritingType == ASSUME NEW r \in Connection PROVE Writing(r) \in Connection
<1>1. "write" \in Phases
  BY DEF Phases, NetPhases
<1>2. QED
  BY <1>1, ArmType DEF Writing, Connection

LEMMA ReadingType == ASSUME NEW r \in Connection PROVE Reading(r) \in Connection
<1>1. "body" \in Phases
  BY DEF Phases, NetPhases
<1>2. QED
  BY <1>1, ArmType DEF Reading, Connection

LEMMA ErasedType ==
  ASSUME NEW r \in Connection PROVE Erased(r) \in Connection
<1> DEFINE rest == [Blank EXCEPT !.phase = r.phase, !.cache = r.cache, !.bypass = r.bypass,
                                 !.headers = r.headers, !.outcome = Outcome(r)]
<1>1. /\ r.phase \in Phases
      /\ r.cache \in SUBSET {1, 2, 4, 8, 16}
      /\ r.bypass \in BOOLEAN
      /\ r.headers \in Headers
      /\ r.result \in Results
  BY DEF Connection
<1>2. rest \in Connection
  <2>1. CASE Outcome(r) = r.result
    BY <1>1, <2>1, BlankType, Zenon DEF Connection
  <2>2. CASE Outcome(r) = "revalidated"
    BY <1>1, <2>2, BlankType, Zenon DEF Connection
  <2>3. QED
    BY <2>1, <2>2 DEF Outcome
<1>3. \/ Erased(r) = [rest EXCEPT !.late = TRUE]
      \/ Erased(r) = [rest EXCEPT !.late = FALSE]
  <2>1. CASE r.late \/ r.timer = "due"
    BY <2>1 DEF Erased, Blank
  <2>2. CASE ~(r.late \/ r.timer = "due")
    BY <2>2 DEF Erased, Blank
  <2>3. QED
    BY <2>1, <2>2
<1>4. \A q \in Connection : /\ [q EXCEPT !.late = TRUE] \in Connection
                           /\ [q EXCEPT !.late = FALSE] \in Connection
  BY ZenonT(120) DEF Connection
<1> HIDE DEF rest
<1>5. QED
  BY <1>2, <1>3, <1>4

LEMMA FetchedType ==
  ASSUME NEW m \in Modes, NEW b \in Bypasses, NEW s \in Schemes, NEW d \in Redirects,
         NEW a \in Timeouts, NEW h \in WithHeaders
  PROVE  [Blank EXCEPT !.cache = m, !.bypass = b, !.scheme = s, !.redirect = d,
                       !.asked = a, !.budget = Limit(a, h)] \in Connection
<1>1. /\ m \in SUBSET {1, 2, 4, 8, 16}
      /\ b \in BOOLEAN
      /\ s \in {"http", "https"}
      /\ d \in {"follow", "error", "manual"}
  BY ChoiceAssumption
<1>2. a \in Nat /\ Limit(a, h) \in Nat
  BY TimeAssumption DEF Limit
<1>3. QED
  BY <1>1, <1>2, BlankType, Zenon DEF Connection

(* The phases, results and headers the handlers assign.                     *)
LEMMA Names ==
  /\ {"done", "gone", "decide", "posted", "connect", "handshake", "header"} \subseteq Phases
  /\ {"empty", "error", "timeout", "cached", "network", "notmodified"} \subseteq Results
  /\ Replies \subseteq Headers
  /\ Entries \subseteq Headers \cup {"none"}
  /\ {"expired", "failed"} \subseteq Headers
BY ChoiceAssumption DEF Phases, LookupPhases, NetPhases, Results, Errors, Responses, Headers
-----------------------------------------------------------------------------
(* Type correctness.                                                        *)

LEMMA AdvanceTypes ==
  ASSUME TypeOK, NEW c \in Conns, NEW r \in Connection, Advance(c, r)
  PROVE  TypeOK'
BY DEF Advance, TypeOK

LEMMA NotifyTypes ==
  ASSUME TypeOK, NEW c \in Conns, NEW r \in Connection, Notify(c, r)
  PROVE  TypeOK'
<1>1. [r EXCEPT !.phase = "done"] \in Connection
  BY Names DEF Connection
<1>2. QED
  BY <1>1 DEF Notify, Wake, TypeOK

LEMMA ScriptTypes == ASSUME TypeOK, Script PROVE TypeOK'
<1>1. CASE Lock \/ EndRound \/ Doze \/ Sleep \/ Return
  BY <1>1 DEF TypeOK, Lock, EndRound, Doze, Sleep, Return
<1>2. ASSUME NEW c \in Conns, Settle(c) PROVE TypeOK'
  <2>1. con' \in [Conns -> Connection]
    BY <1>2, ErasedType DEF TypeOK, Settle
  <2>2. store' \in Headers \cup {"none"}
    <3>1. con[c].headers \in Headers
      BY DEF TypeOK, Connection
    <3>2. QED
      BY <1>2, <3>1 DEF TypeOK, Settle
  <2>3. QED
    BY <1>2, <2>1, <2>2 DEF TypeOK, Settle
<1>3. ASSUME NEW t \in Tasks, EndTask(t) PROVE TypeOK'
  BY <1>3 DEF TypeOK, EndTask
<1>4. QED
  BY <1>1, <1>2, <1>3 DEF Script

LEMMA IssueTypes == ASSUME TypeOK, Issue PROVE TypeOK'
<1>1. ASSUME NEW c \in Conns, NEW m \in Modes, NEW b \in Bypasses, NEW s \in Schemes,
             NEW d \in Redirects, NEW a \in Timeouts, NEW h \in WithHeaders,
             Fetch(c, m, b, s, d, a, h)
      PROVE  TypeOK'
  BY <1>1, FetchedType, SendType DEF TypeOK, Fetch
<1>2. ASSUME NEW t \in Tasks, NEW n \in 0 .. MaxSteps, StartTask(t, n) PROVE TypeOK'
  BY <1>2 DEF TypeOK, StartTask
<1>3. QED
  BY <1>1, <1>2 DEF Issue

LEMMA PoolTypes == ASSUME TypeOK, NEW t \in Tasks, Pool(t) PROVE TypeOK'
<1>1. CASE StepAgain(t)
  <2>1. task[t].left - 1 \in 0 .. MaxSteps
    BY <1>1, TimeAssumption DEF TypeOK, StepAgain
  <2>2. QED
    BY <1>1, <2>1 DEF TypeOK, StepAgain
<1>2. CASE StepLast(t)
  BY <1>2 DEF TypeOK, StepLast
<1>3. CASE NotifyTask(t)
  BY <1>3 DEF TypeOK, NotifyTask, Wake
<1>4. QED
  BY <1>1, <1>2, <1>3 DEF Pool

LEMMA CacheJobTypes == ASSUME TypeOK, NEW c \in Conns, CacheJob(c) PROVE TypeOK'
<1> con[c] \in Connection
  BY DEF TypeOK
<1>1. [con[c] EXCEPT !.result = "empty"] \in Connection
  BY Names DEF Connection
<1>2. CASE Lookup(c)
  <2>1. CASE store = "none"
    BY <1>1, <1>2, <2>1, NetworkType, AdvanceTypes DEF Lookup
  <2>2. CASE store # "none"
    <3>1. [con[c] EXCEPT !.result = "cached", !.headers = store, !.phase = "decide"]
          \in Connection
      BY <2>2, Names DEF TypeOK, Connection
    <3>2. QED
      BY <1>2, <2>2, <3>1, AdvanceTypes DEF Lookup
  <2>3. QED
    BY <2>1, <2>2
<1>3. CASE Decide(c)
  <2>1. CASE Stale(con[c])
    BY <1>1, <1>3, <2>1, NetworkType, AdvanceTypes DEF Decide
  <2>2. CASE ~Stale(con[c])
    <3>1. [con[c] EXCEPT !.phase = "posted", !.timer = "null",
                         !.late = @ \/ con[c].timer = "due"] \in Connection
      BY Names, ZenonT(120) DEF Connection
    <3>2. QED
      BY <1>3, <2>2, <3>1, AdvanceTypes DEF Decide
  <2>3. QED
    BY <2>1, <2>2
<1>4. QED
  BY <1>2, <1>3 DEF CacheJob

(* A handler that notifies an error, and one that first takes its time off. *)
LEMMA FailTypes ==
  ASSUME TypeOK, NEW c \in Conns, Fail(c) PROVE TypeOK'
<1> DEFINE r == con[c]
<1>1. r \in Connection
  BY DEF TypeOK
<1>2. \A q \in Connection : /\ [q EXCEPT !.result = "timeout"] \in Connection
                           /\ [q EXCEPT !.result = "error"] \in Connection
  BY Names DEF Connection
<1>3. CASE r.phase # "handshake" /\ TimedOut(r)
  BY <1>1, <1>2, <1>3, CancelType, NotifyTypes DEF Fail
<1>4. CASE r.phase = "handshake"
  BY <1>1, <1>2, <1>4, NotifyTypes DEF Fail
<1>5. CASE r.phase # "handshake" /\ ~TimedOut(r)
  BY <1>1, <1>2, <1>5, SpendType, NotifyTypes DEF Fail
<1>6. QED
  BY <1>3, <1>4, <1>5

LEMMA IoTypes == ASSUME TypeOK, NEW c \in Conns, Io(c) PROVE TypeOK'
<1> DEFINE r == con[c]
<1>1. r \in Connection
  BY DEF TypeOK
<1>2. CASE NotifyHit(c)
  <2>1. [r EXCEPT !.buffer = FALSE] \in Connection
    BY <1>1 DEF Connection
  <2>2. QED
    BY <1>2, <2>1, NotifyTypes DEF NotifyHit
<1>3. CASE Resolved(c)
  <2>1. Arm(Spend(r)) \in Connection
    BY <1>1, <1>3, SpendType, ArmType DEF Resolved, InTime
  <2>2. \A q \in Connection, st \in {"tcp", "raw"} :
          [q EXCEPT !.phase = "connect", !.closed = FALSE, !.stream = st] \in Connection
    BY Names, ZenonT(120) DEF Connection
  <2>3. QED
    BY <1>3, <2>1, <2>2, AdvanceTypes DEF Resolved
<1>4. CASE NoHostName(c)
  <2>1. Spend(r) \in Connection
    BY <1>1, <1>4, SpendType DEF NoHostName, InTime
  <2>2. \A q \in Connection :
          [q EXCEPT !.stream = "raw", !.closed = FALSE, !.result = "error"] \in Connection
    BY Names, ZenonT(120) DEF Connection
  <2>3. QED
    BY <1>4, <2>1, <2>2, NotifyTypes DEF NoHostName
<1>5. CASE Connected(c)
  <2>1. Spend(r) \in Connection
    BY <1>1, <1>5, SpendType DEF Connected, InTime
  <2>2. \A q \in Connection : [q EXCEPT !.phase = "handshake"] \in Connection
    BY Names DEF Connection
  <2>3. QED
    BY <1>5, <2>1, <2>2, WritingType, AdvanceTypes DEF Connected
<1>6. CASE Shaken(c)
  <2>1. \A q \in Connection : [q EXCEPT !.stream = "tls"] \in Connection
    BY DEF Connection
  <2>2. QED
    BY <1>1, <1>6, <2>1, WritingType, AdvanceTypes DEF Shaken
<1>7. CASE Written(c)
  <2>1. Arm(Spend(r)) \in Connection
    BY <1>1, <1>7, SpendType, ArmType DEF Written, InTime
  <2>2. \A q \in Connection :
          [q EXCEPT !.phase = "header", !.buffer = TRUE, !.result = "network"] \in Connection
    BY Names, ZenonT(120) DEF Connection
  <2>3. QED
    BY <1>7, <2>1, <2>2, AdvanceTypes DEF Written
<1>8. ASSUME NEW h \in Replies \cup {"failed"}, InTime(c, "header")
      PROVE  [Reading(Spend(r)) EXCEPT !.headers = h] \in Connection
  <2>1. Reading(Spend(r)) \in Connection
    BY <1>1, <1>8, SpendType, ReadingType DEF InTime
  <2>2. \A q \in Connection : [q EXCEPT !.headers = h] \in Connection
    BY Names DEF Connection
  <2>3. QED
    BY <2>1, <2>2
<1>9. ASSUME NEW h \in Replies, Answered(c, h) PROVE TypeOK'
  BY <1>8, <1>9, AdvanceTypes DEF Answered
<1>10. CASE HandOver(c)
  BY <1>8, <1>10, AdvanceTypes DEF HandOver, MeetsRedirect
<1>11. CASE NotModified(c)
  <2>1. Reading(Spend(r)) \in Connection
    BY <1>1, <1>11, SpendType, ReadingType DEF NotModified, InTime
  <2>2. \A q \in Connection : [q EXCEPT !.result = "notmodified"] \in Connection
    BY Names DEF Connection
  <2>3. QED
    BY <1>11, <2>1, <2>2, AdvanceTypes DEF NotModified
<1>12. ASSUME NEW s \in Schemes, Follow(c, s) PROVE TypeOK'
  <2> DEFINE sent == [Spend(r) EXCEPT !.scheme = s, !.hops = IF @ < MaxRedirects THEN @ + 1 ELSE @]
  <2>1. Spend(r) \in Connection
    BY <1>1, <1>12, SpendType DEF Follow, MeetsRedirect, InTime
  <2>2. \A q \in Connection :
          [q EXCEPT !.scheme = s, !.hops = IF @ < MaxRedirects THEN @ + 1 ELSE @] \in Connection
    <3>1. ASSUME NEW q \in Connection
          PROVE  (IF q.hops < MaxRedirects THEN q.hops + 1 ELSE q.hops) \in 0 .. MaxRedirects
      BY TimeAssumption DEF Connection
    <3>2. s \in {"http", "https"}
      BY ChoiceAssumption
    <3>3. QED
      BY <3>1, <3>2, ZenonT(120) DEF Connection
  <2>3. sent \in Connection
    BY <2>1, <2>2
  <2>4. QED
    BY <1>12, <2>3, SendType, AdvanceTypes DEF Follow
<1>13. CASE Refuse(c)
  <2>1. Spend(r) \in Connection
    BY <1>1, <1>13, SpendType DEF Refuse, MeetsRedirect, InTime
  <2>2. \A q \in Connection : [q EXCEPT !.result = "error"] \in Connection
    BY Names DEF Connection
  <2>3. QED
    BY <1>13, <2>1, <2>2, NotifyTypes DEF Refuse
<1>14. CASE Received(c)
  <2>1. Spend(r) \in Connection
    BY <1>1, <1>14, SpendType DEF Received, InTime
  <2>2. \A q \in Connection : [q EXCEPT !.buffer = FALSE] \in Connection
    BY DEF Connection
  <2>3. QED
    BY <1>14, <2>1, <2>2, NotifyTypes DEF Received
<1>15. QED
  BY <1>2, <1>3, <1>4, <1>5, <1>6, <1>7, <1>9, <1>10, <1>11, <1>12, <1>13, <1>14,
     FailTypes DEF Io

LEMMA RungType == ASSUME NEW r \in Connection PROVE Rung(r) \in Connection
<1>1. [r EXCEPT !.timer = "idle"] \in Connection
  BY DEF Connection
<1>2. [r EXCEPT !.timer = "idle", !.budget = 0, !.closed = @ \/ r.stream = "tcp"] \in Connection
  BY ZenonT(120) DEF Connection
<1>3. QED
  BY <1>1, <1>2 DEF Rung

LEMMA TimerTypes == ASSUME TypeOK, NEW c \in Conns, Timer(c) PROVE TypeOK'
<1>1. con[c] \in Connection
  BY DEF TypeOK
<1>2. CASE Expire(c)
  <2>1. [con[c] EXCEPT !.timer = "due"] \in Connection
    BY <1>1 DEF Connection
  <2>2. QED
    BY <1>2, <2>1, AdvanceTypes DEF Expire
<1>3. CASE LateAlarm(c)
  <2>1. [con[c] EXCEPT !.late = FALSE] \in Connection
    BY <1>1 DEF Connection
  <2>2. QED
    BY <1>3, <2>1, AdvanceTypes DEF LateAlarm
<1>4. CASE Alarm(c)
  <2>1. Rung(con[c]) \in Connection
    BY <1>1, RungType
  <2>2. QED
    BY <1>4, <2>1 DEF Alarm, TypeOK
<1>5. QED
  BY <1>2, <1>3, <1>4 DEF Timer

LEMMA TickTypes == ASSUME TypeOK, NEW c \in Conns, Tick(c) PROVE TypeOK'
<1> DEFINE r == con[c]
           e == r.elapsed + 1
           a == IF r.age < r.asked * TicksPerMs THEN r.age + 1 ELSE r.age
<1>1. r \in Connection
  BY DEF TypeOK
<1>2. e \in Nat /\ a \in Nat
  BY <1>1 DEF Connection
<1>3. [r EXCEPT !.elapsed = e, !.age = a] \in Connection
  <2> HIDE DEF e, a
  <2>1. QED
    BY <1>1, <1>2 DEF Connection
<1>4. Advance(c, [r EXCEPT !.elapsed = e, !.age = a])
  BY DEF Tick
<1> HIDE DEF e, a
<1>5. QED
  BY <1>3, <1>4, AdvanceTypes

LEMMA UseAfterEraseTypes ==
  ASSUME TypeOK, NEW c \in Conns, UseAfterErase(c) PROVE TypeOK'
<1>1. con[c] \in Connection
  BY DEF TypeOK
<1>2. [con[c] EXCEPT !.phase = "gone"] \in Connection
  BY <1>1, Names DEF Connection
<1>3. [con[c] EXCEPT !.late = FALSE] \in Connection
  BY <1>1 DEF Connection
<1>4. con' \in [Conns -> Connection]
  BY <1>2, <1>3 DEF UseAfterErase, TypeOK
<1>5. dangled' \subseteq Conns \X {"job", "timer"}
  BY DEF UseAfterErase, TypeOK
<1>6. QED
  BY <1>4, <1>5 DEF UseAfterErase, TypeOK

LEMMA StoreTypes == ASSUME TypeOK, StoreChanges PROVE TypeOK'
BY Names DEF TypeOK, StoreChanges, Age, Prune, Other

(* Every state of the worker is of its type.                                *)
THEOREM TypeCorrect == Spec => []TypeOK
<1>1. Init => TypeOK
  BY BlankType, Names, TimeAssumption DEF Init, TypeOK
<1>2. TypeOK /\ [Next]_vars => TypeOK'
  <2> SUFFICES ASSUME TypeOK, [Next]_vars PROVE TypeOK'
    OBVIOUS
  <2>1. CASE UNCHANGED vars
    BY <2>1 DEF TypeOK, vars
  <2>2. CASE SpuriousWakeup \/ Evaluate \/ PeerAnswersShutdown
    BY <2>2 DEF TypeOK, SpuriousWakeup, Evaluate, PeerAnswersShutdown
  <2>3. QED
    BY <2>1, <2>2, ScriptTypes, IssueTypes, PoolTypes, CacheJobTypes, IoTypes, TimerTypes,
       TickTypes, UseAfterEraseTypes, StoreTypes DEF Next
<1>3. QED
  BY <1>1, <1>2, PTL DEF Spec

-----------------------------------------------------------------------------
(* The inductive invariant and what follows from it: no wakeup is lost, a    *)
(* request that was not looked up in the cache is erased only after its last *)
(* handler, and no request times out early.                                  *)

(* What IInv says of a queued connection; the timing holds only when the    *)
(* code does not ignore the timeouts it is given.                           *)
Good(r) == Sound(r) /\ (WithHeaders \subseteq {FALSE} => Timely(r))

LEMMA Monotonic ==
  ASSUME NEW x \in Nat, NEW y \in Nat, NEW z \in Nat, x <= y
  PROVE  x * z <= y * z
<1>1. y * z = x * z + (y - x) * z
  OBVIOUS
<1>2. (y - x) * z \in Nat
  OBVIOUS
<1>3. x * z \in Nat /\ y * z \in Nat
  OBVIOUS
<1>4. QED
  BY <1>1, <1>2, <1>3
-----------------------------------------------------------------------------
(* Timing.                                                                  *)

(* Timely depends on few fields.                                            *)
LEMMA TimelySame ==
  ASSUME NEW r \in Connection, NEW q \in Connection, Timely(r),
         q.budget = r.budget, q.asked = r.asked, q.age = r.age, q.elapsed = r.elapsed,
         q.timer = "due" /\ q.match => r.timer = "due" /\ r.match,
         q.closed => r.closed,
         q.result = "timeout" => r.result = "timeout"
  PROVE  Timely(q)
BY DEF Timely

LEMMA ArmTimely == ASSUME NEW r \in Connection, Timely(r) PROVE Timely(Arm(r))
<1> DEFINE q == Arm(r)
<1>1. /\ q.budget = r.budget /\ q.asked = r.asked /\ q.age = r.age
      /\ q.elapsed = 0 /\ q.timer = "armed"
      /\ q.closed = r.closed /\ q.result = r.result
  BY DEF Arm, Connection
<1>2. /\ r.budget * TicksPerMs \in Int /\ r.asked * TicksPerMs \in Int
      /\ r.elapsed \in Nat /\ r.age \in Nat
  BY TimeAssumption DEF Connection
<1> HIDE DEF q
<1>3. Timely(q)
  BY <1>1, <1>2 DEF Timely
<1>4. QED
  BY <1>3 DEF q

LEMMA SpendTimely ==
  ASSUME NEW r \in Connection, Timely(r), ~TimedOut(r) PROVE Timely(Spend(r))
<1> DEFINE q == Spend(r)
           u == r.elapsed \div TicksPerMs
<1>1. /\ q.budget = r.budget - u /\ q.asked = r.asked /\ q.age = r.age
      /\ q.elapsed = 0 /\ ~q.match
      /\ q.closed = r.closed /\ q.result = r.result
  BY DEF Spend, Used, Connection
<1>2. /\ r.budget \in Nat /\ r.elapsed \in Nat /\ r.age \in Nat /\ r.asked \in Nat
      /\ TicksPerMs \in Nat
  BY TimeAssumption DEF Connection
<1>3. u \in Nat /\ u * TicksPerMs <= r.elapsed
  BY <1>2, DivBounds
<1> HIDE DEF q, u
<1>4. (r.budget - u) * TicksPerMs = r.budget * TicksPerMs - u * TicksPerMs
  BY <1>2, <1>3
<1>5. /\ r.budget * TicksPerMs \in Int /\ r.asked * TicksPerMs \in Int
      /\ u * TicksPerMs \in Int
  BY <1>2, <1>3
<1>6. Timely(q)
  BY <1>1, <1>2, <1>3, <1>4, <1>5 DEF Timely
<1>7. QED
  BY <1>6 DEF q

(* A request that success() finds timed out has had all its time.           *)
LEMMA TimedOutTimely ==
  ASSUME NEW r \in Connection, Timely(r), TimedOut(r) PROVE r.age = r.asked * TicksPerMs
<1> DEFINE u == r.elapsed \div TicksPerMs
<1>1. /\ r.budget \in Nat /\ r.elapsed \in Nat /\ r.age \in Nat /\ r.asked \in Nat
      /\ TicksPerMs \in Nat \ {0}
  BY TimeAssumption DEF Connection
<1>2. u \in Nat /\ u * TicksPerMs <= r.elapsed
  BY <1>1, DivBounds
<1>3. r.budget + 1 <= u
  BY <1>1, <1>2 DEF TimedOut, Used
<1> HIDE DEF u
<1>4. (r.budget + 1) * TicksPerMs <= u * TicksPerMs
  BY <1>1, <1>2, <1>3, Monotonic
<1>5. (r.budget + 1) * TicksPerMs = r.budget * TicksPerMs + TicksPerMs
  BY <1>1
<1>6. /\ r.budget * TicksPerMs \in Int /\ r.asked * TicksPerMs \in Int
      /\ u * TicksPerMs \in Int
  BY <1>1, <1>2
<1>7. QED
  BY <1>1, <1>2, <1>4, <1>5, <1>6 DEF Timely

LEMMA RungTimely == ASSUME NEW r \in Connection, r.timer = "due", Timely(r) PROVE Timely(Rung(r))
<1> DEFINE q == Rung(r)
<1>1. /\ r.budget \in Nat /\ r.elapsed \in Nat /\ r.age \in Nat /\ r.asked \in Nat
      /\ r.budget * TicksPerMs \in Int /\ r.asked * TicksPerMs \in Int
      /\ TicksPerMs \in Nat
  BY TimeAssumption DEF Connection
<1>2. q \in Connection
  BY RungType
<1>3. CASE r.match
  <2>1. r.age = r.asked * TicksPerMs
    <3> DEFINE limit == r.asked * TicksPerMs
               left  == r.budget * TicksPerMs
    <3>1. /\ r.elapsed >= left
          /\ r.age <= limit
          /\ r.age = limit \/ r.age >= limit - left + r.elapsed
      BY <1>3, Zenon DEF Timely
    <3>2. limit \in Int /\ left \in Int
      BY <1>1
    <3>3. r.age \in Int /\ r.elapsed \in Int
      BY <1>1
    <3> HIDE DEF limit, left
    <3>4. r.age = limit
      BY <3>1, <3>2, <3>3
    <3>5. QED
      BY <3>4 DEF limit
  <2>2. q.budget = 0 /\ q.asked = r.asked /\ q.age = r.age /\ q.elapsed = r.elapsed
        /\ q.timer = "idle"
    BY <1>3 DEF Rung, Connection
  <2> HIDE DEF q
  <2>3. Timely(q)
    BY <1>1, <2>1, <2>2 DEF Timely
  <2>4. QED
    BY <2>3 DEF q
<1>4. CASE ~r.match
  <2>1. /\ q.budget = r.budget /\ q.asked = r.asked /\ q.age = r.age /\ q.elapsed = r.elapsed
        /\ q.timer = "idle" /\ q.closed = r.closed /\ q.result = r.result
    BY <1>4 DEF Rung, Connection
  <2> HIDE DEF q
  <2>2. Timely(q)
    BY <1>2, <2>1, TimelySame
  <2>3. QED
    BY <2>2 DEF q
<1>5. QED
  BY <1>3, <1>4
-----------------------------------------------------------------------------
(* The two ways a handler ends.                                             *)

(* A handler, job or timer callback that does not notify: it must not make  *)
(* a connection of the queue ready behind the back of the script thread.    *)
LEMMA AdvanceKeeps ==
  ASSUME TypeOK, IInv, NEW c \in queue, NEW r \in Connection, Good(r),
         r.phase = "done" => r.phase = con[c].phase /\ (Ripe(r) => Ripe(con[c])),
         con' = [con EXCEPT ![c] = r],
         UNCHANGED <<pc, mu, queue, task, signal>>
  PROVE  IInv'
<1>1. c \in Conns /\ con \in [Conns -> Connection]
  BY DEF TypeOK
<1>2. con'[c] = r /\ \A d \in Conns : d # c => con'[d] = con[d]
  BY <1>1
<1>3. \A d \in queue : Good(con'[d])
  BY <1>2 DEF IInv, Good, TypeOK
<1>4. SettledIsFinal'
  BY <1>2 DEF IInv, SettledIsFinal, TypeOK
<1>5. Sound(r)
  BY DEF Good
<1>6. NoLostWakeup'
  <2> SUFFICES ASSUME pc' \in {"doze", "asleep"}
               PROVE  /\ \A d \in Conns : Ready(d)' => con'[d].phase \in {"decide", "posted"}
                      /\ \A t \in Tasks : Finished(t)' => t \in signal'
    BY DEF NoLostWakeup
  <2>1. /\ \A d \in Conns : Ready(d) => con[d].phase \in {"decide", "posted"}
        /\ \A t \in Tasks : Finished(t) => t \in signal
    BY DEF IInv, NoLostWakeup
  <2>2. Ready(c)' => r.phase \in {"decide", "posted"}
    <3>1. Ready(c)' => Ripe(r)
      BY <1>2 DEF Ready, Ripe
    <3>2. CASE r.phase = "done"
      BY <3>1, <3>2, <2>1, <1>1 DEF Ready
    <3>3. CASE r.phase # "done"
      <4>1. r.phase \in Phases
        BY DEF Connection
      <4>2. QED
        BY <3>1, <3>3, <1>5, <4>1 DEF Sound, Phases, LookupPhases
    <3>4. QED
      BY <3>2, <3>3
  <2>3. \A d \in Conns : d # c => (Ready(d)' <=> Ready(d))
    BY <1>2 DEF Ready, Ripe
  <2>4. \A t \in Tasks : Finished(t)' <=> Finished(t)
    BY DEF Finished
  <2>5. QED
    BY <1>2, <2>1, <2>2, <2>3, <2>4
<1>7. QED
  BY <1>3, <1>4, <1>6 DEF IInv, MutexInv, Good

(* A handler that notifies: the script thread neither sleeps nor is about   *)
(* to when it is over.                                                      *)
LEMMA NotifyKeeps ==
  ASSUME TypeOK, IInv, NEW c \in queue, NEW r \in Connection, Notify(c, r),
         WithHeaders \subseteq {FALSE} => Timely(r)
  PROVE  IInv'
<1> DEFINE q == [r EXCEPT !.phase = "done"]
<1>1. c \in Conns /\ con \in [Conns -> Connection]
  BY DEF TypeOK
<1>2. con'[c] = q /\ \A d \in Conns : d # c => con'[d] = con[d]
  BY <1>1 DEF Notify
<1>3. Good(q)
  <2>1. q.phase = "done" /\ q \in Connection
    BY Names DEF Connection
  <2>2. q.phase = "done" => Sound(q)
    BY DEF Sound, NetPhases, LookupPhases
  <2>3. /\ q.budget = r.budget /\ q.asked = r.asked /\ q.age = r.age /\ q.elapsed = r.elapsed
        /\ q.timer = r.timer /\ q.match = r.match /\ q.closed = r.closed /\ q.result = r.result
    BY DEF Connection
  <2> HIDE DEF q
  <2>4. Timely(r) => Timely(q)
    BY <2>1, <2>3, TimelySame
  <2>5. QED
    BY <2>1, <2>2, <2>4 DEF Good
<1>4. \A d \in queue' : Good(con'[d])
  BY <1>2, <1>3 DEF IInv, Good, TypeOK, Notify
<1>5. SettledIsFinal'
  BY <1>2 DEF IInv, SettledIsFinal, TypeOK, Notify
<1>6. pc' \notin {"doze", "asleep"} /\ mu' = mu /\ MutexInv'
  BY DEF Notify, Wake, IInv, MutexInv, TypeOK
<1>7. QED
  BY <1>4, <1>5, <1>6 DEF IInv, NoLostWakeup, Good
-----------------------------------------------------------------------------
(* The script thread.                                                       *)

(* What is settled has had its last notification, unless it was looked up.  *)
LEMMA SettleKeeps ==
  ASSUME TypeOK, IInv, NEW c \in Conns, Settle(c) PROVE IInv'
<1> DEFINE r == con[c]
<1>1. r \in Connection /\ c \in queue /\ Ripe(r)
  BY DEF TypeOK, Settle, Ready
<1>2. Sound(r)
  BY <1>1 DEF IInv
<1>3. con'[c] = Erased(r) /\ \A d \in Conns : d # c => con'[d] = con[d]
  BY DEF Settle, TypeOK
<1>4. /\ Erased(r).phase = r.phase
      /\ Erased(r).cache = r.cache
      /\ Erased(r).bypass = r.bypass
  BY DEF Erased, Blank
<1>5. ~LooksUp(Erased(r)) => r.phase = "done"
  <2>1. r.phase \in Phases
    BY <1>1 DEF Connection
  <2>2. LooksUp(Erased(r)) <=> LooksUp(r)
    BY <1>4 DEF LooksUp
  <2>3. QED
    BY <1>1, <1>2, <2>1, <2>2 DEF Sound, Phases, LookupPhases
<1>6. SettledIsFinal'
  <2> SUFFICES ASSUME NEW d \in Conns, d \notin queue', ~LooksUp(con'[d])
               PROVE  con'[d].phase \in {"unused", "done"}
    BY DEF SettledIsFinal
  <2>1. CASE d = c
    BY <1>3, <1>4, <1>5, <2>1
  <2>2. CASE d # c
    BY <1>3, <2>2 DEF IInv, SettledIsFinal, Settle
  <2>3. QED
    BY <2>1, <2>2
<1>7. \A d \in queue' : Good(con'[d])
  BY <1>3 DEF IInv, Good, Settle, TypeOK
<1>8. pc' \notin {"doze", "asleep"} /\ MutexInv'
  BY DEF Settle, IInv, MutexInv
<1>9. QED
  BY <1>6, <1>7, <1>8 DEF IInv, Good, NoLostWakeup

LEMMA ScriptKeeps == ASSUME TypeOK, IInv, Script PROVE IInv'
<1>1. ASSUME UNCHANGED <<queue, con>>
      PROVE  /\ \A c \in queue' : Sound(con'[c])
             /\ WithHeaders \subseteq {FALSE} => \A c \in queue' : Timely(con'[c])
             /\ SettledIsFinal'
  BY <1>1 DEF IInv, SettledIsFinal
<1>2. CASE Lock
  BY <1>1, <1>2 DEF Lock, IInv, MutexInv, NoLostWakeup
<1>3. CASE EndRound
  BY <1>1, <1>3 DEF EndRound, IInv, MutexInv, NoLostWakeup
<1>4. CASE Doze
  <2>1. NoLostWakeup'
    BY <1>4 DEF Doze, NoLostWakeup, Ready, Ripe, Finished
  <2>2. QED
    BY <1>1, <1>4, <2>1 DEF Doze, IInv, MutexInv
<1>5. CASE Sleep
  <2>1. NoLostWakeup'
    BY <1>5 DEF Sleep, IInv, NoLostWakeup, Ready, Ripe, Finished
  <2>2. QED
    BY <1>1, <1>5, <2>1 DEF Sleep, IInv, MutexInv
<1>6. CASE Return
  BY <1>1, <1>6 DEF Return, IInv, MutexInv, NoLostWakeup
<1>7. ASSUME NEW t \in Tasks, EndTask(t) PROVE IInv'
  BY <1>1, <1>7 DEF EndTask, IInv, MutexInv, NoLostWakeup
<1>8. QED
  BY <1>2, <1>3, <1>4, <1>5, <1>6, <1>7, SettleKeeps DEF Script

LEMMA FetchedGood ==
  ASSUME NEW m \in Modes, NEW b \in Bypasses, NEW s \in Schemes, NEW d \in Redirects,
         NEW a \in Timeouts, NEW h \in WithHeaders
  PROVE  Good(Send([Blank EXCEPT !.cache = m, !.bypass = b, !.scheme = s, !.redirect = d,
                                 !.asked = a, !.budget = Limit(a, h)]))
<1> DEFINE r == [Blank EXCEPT !.cache = m, !.bypass = b, !.scheme = s, !.redirect = d,
                              !.asked = a, !.budget = Limit(a, h)]
<1>1. /\ r.result = "empty" /\ r.asked = a /\ r.budget = Limit(a, h) /\ r.age = 0
      /\ r.elapsed = 0 /\ r.timer = "null" /\ r.closed = FALSE
  BY DEF Blank
<1>2. r \in Connection
  BY FetchedType
<1> HIDE DEF r
<1>3. /\ Send(r).phase = IF LooksUp(r) THEN "lookup" ELSE "resolve"
      /\ Send(r).result = "empty"
      /\ LooksUp(Send(r)) <=> LooksUp(r)
  BY <1>1, <1>2 DEF Send, Network, Arm, LooksUp, Connection
<1>4. Sound(Send(r))
  BY <1>3 DEF Sound, Ripe, Errors, Responses, NetPhases, LookupPhases
<1>5. WithHeaders \subseteq {FALSE} => Timely(Send(r))
  <2> SUFFICES ASSUME WithHeaders \subseteq {FALSE} PROVE Timely(Send(r))
    OBVIOUS
  <2>1. r.budget = a /\ a \in Nat /\ TicksPerMs \in Nat
    BY <1>1, TimeAssumption DEF Limit
  <2>2. Send(r) \in Connection
    BY <1>2, SendType
  <2>3. /\ Send(r).budget = a /\ Send(r).asked = a /\ Send(r).age = 0
        /\ Send(r).elapsed = 0 /\ Send(r).timer # "due" /\ ~Send(r).closed
    BY <1>1, <1>2, <2>1 DEF Send, Network, Arm, Connection
  <2>4. a * TicksPerMs \in Nat
    BY <2>1
  <2>5. QED
    BY <1>3, <2>1, <2>3, <2>4 DEF Timely
<1>6. QED
  BY <1>4, <1>5 DEF Good, r

LEMMA IssueKeeps == ASSUME TypeOK, IInv, Issue PROVE IInv'
<1>1. ASSUME NEW c \in Conns, NEW m \in Modes, NEW b \in Bypasses, NEW s \in Schemes,
             NEW d \in Redirects, NEW a \in Timeouts, NEW h \in WithHeaders,
             Fetch(c, m, b, s, d, a, h)
      PROVE  IInv'
  <2>1. Good(con'[c]) /\ \A x \in Conns : x # c => con'[x] = con[x]
    BY <1>1, FetchedGood DEF Fetch, TypeOK
  <2>2. \A x \in queue' : Good(con'[x])
    BY <1>1, <2>1 DEF IInv, Good, Fetch, TypeOK
  <2>3. SettledIsFinal'
    BY <1>1, <2>1 DEF IInv, SettledIsFinal, Fetch
  <2>4. pc' \notin {"doze", "asleep"} /\ MutexInv'
    BY <1>1 DEF Fetch, IInv, MutexInv
  <2>5. QED
    BY <2>2, <2>3, <2>4 DEF IInv, Good, NoLostWakeup
<1>2. ASSUME NEW t \in Tasks, NEW n \in 0 .. MaxSteps, StartTask(t, n) PROVE IInv'
  BY <1>2 DEF StartTask, IInv, MutexInv, SettledIsFinal, NoLostWakeup
<1>3. QED
  BY <1>1, <1>2 DEF Issue
-----------------------------------------------------------------------------
(* The sync pool.                                                           *)

(* A task that has ended its last step has its notification to come.        *)
LEMMA PoolKeeps == ASSUME TypeOK, IInv, NEW t \in Tasks, Pool(t) PROVE IInv'
<1>1. ASSUME UNCHANGED <<queue, con>>
      PROVE  /\ \A c \in queue' : Sound(con'[c])
             /\ WithHeaders \subseteq {FALSE} => \A c \in queue' : Timely(con'[c])
             /\ SettledIsFinal'
             /\ \A c \in Conns : Ready(c)' <=> Ready(c)
  BY <1>1 DEF IInv, SettledIsFinal, Ready, Ripe
<1>2. CASE StepAgain(t)
  <2>1. \A x \in Tasks : Finished(x)' <=> Finished(x)
    BY <1>2 DEF StepAgain, Finished, TypeOK
  <2>2. QED
    BY <1>1, <1>2, <2>1 DEF StepAgain, IInv, MutexInv, NoLostWakeup
<1>3. CASE StepLast(t)
  <2>1. \A x \in Tasks : Finished(x)' => Finished(x) \/ x = t
    BY <1>3 DEF StepLast, Finished, TypeOK
  <2>2. NoLostWakeup'
    BY <1>1, <1>3, <2>1 DEF StepLast, IInv, NoLostWakeup
  <2>3. QED
    BY <1>1, <1>3, <2>2 DEF StepLast, IInv, MutexInv
<1>4. CASE NotifyTask(t)
  <2>1. pc' \notin {"doze", "asleep"} /\ MutexInv'
    BY <1>4 DEF NotifyTask, Wake, IInv, MutexInv, TypeOK
  <2>2. QED
    BY <1>1, <1>4, <2>1 DEF NotifyTask, IInv, NoLostWakeup
<1>5. QED
  BY <1>2, <1>3, <1>4 DEF Pool

(* Asking the network, with nothing in result or with a buffer allocated.   *)
LEMMA NetworkGood ==
  ASSUME NEW r \in Connection, WithHeaders \subseteq {FALSE} => Timely(r), ~Ripe(r)
  PROVE  Good(Network(r)) /\ Network(r).phase = "resolve"
<1>1. Arm(r) \in Connection /\ (WithHeaders \subseteq {FALSE} => Timely(Arm(r)))
  BY ArmType, ArmTimely
<1>2. Network(r) \in Connection
  BY NetworkType
<1>3. /\ Network(r).phase = "resolve" /\ Network(r).result = Arm(r).result
      /\ Arm(r).result = r.result
      /\ Network(r).buffer = r.buffer
      /\ Network(r).budget = Arm(r).budget /\ Network(r).asked = Arm(r).asked
      /\ Network(r).age = Arm(r).age /\ Network(r).elapsed = Arm(r).elapsed
      /\ Network(r).timer = Arm(r).timer /\ Network(r).match = Arm(r).match
      /\ Network(r).closed = Arm(r).closed
  BY <1>1 DEF Network, Arm, Connection
<1>4. Sound(Network(r))
  BY <1>3 DEF Sound, Ripe, Errors, Responses, NetPhases, LookupPhases
<1>5. WithHeaders \subseteq {FALSE} => Timely(Network(r))
  BY <1>1, <1>2, <1>3, TimelySame
<1>6. QED
  BY <1>3, <1>4, <1>5 DEF Good

LEMMA CacheJobKeeps == ASSUME TypeOK, IInv, NEW c \in Conns, CacheJob(c) PROVE IInv'
<1> DEFINE r == con[c]
           none == [r EXCEPT !.result = "empty"]
<1>1. r \in Connection /\ c \in queue /\ Good(r)
  BY DEF TypeOK, CacheJob, Lookup, Decide, IInv, Good
<1>2. none \in Connection
  BY <1>1, Names DEF Connection
<1>3. /\ none.budget = r.budget /\ none.asked = r.asked /\ none.age = r.age
      /\ none.elapsed = r.elapsed /\ none.timer = r.timer /\ none.match = r.match
      /\ none.closed = r.closed /\ none.result = "empty"
  BY <1>1 DEF Connection
<1> HIDE DEF none
<1>4. WithHeaders \subseteq {FALSE} => Timely(none)
  BY <1>1, <1>2, <1>3, TimelySame DEF Good
<1>5. Network(none) \in Connection /\ Good(Network(none)) /\ Network(none).phase = "resolve"
  <2>1. ~Ripe(none)
    BY <1>3 DEF Ripe, Errors, Responses
  <2>2. QED
    BY <1>2, <1>4, <2>1, NetworkGood, NetworkType
<1>6. ASSUME Advance(c, Network(none)) PROVE IInv'
  BY <1>1, <1>5, <1>6, AdvanceKeeps DEF Advance
<1>7. CASE Lookup(c) /\ store # "none"
  <2> DEFINE q == [r EXCEPT !.result = "cached", !.headers = store, !.phase = "decide"]
  <2>1. q \in Connection
    BY <1>1, <1>7, Names DEF TypeOK, Connection
  <2>2. /\ q.phase = "decide" /\ q.result = "cached"
        /\ q.budget = r.budget /\ q.asked = r.asked /\ q.age = r.age
        /\ q.elapsed = r.elapsed /\ q.timer = r.timer /\ q.match = r.match
        /\ q.closed = r.closed /\ (LooksUp(q) <=> LooksUp(r))
    BY <1>1 DEF Connection, LooksUp
  <2>3. r.phase = "lookup" /\ Advance(c, q)
    BY <1>7 DEF Lookup
  <2> HIDE DEF q
  <2>4. Good(q)
    <3>1. Sound(q)
      BY <1>1, <2>2, <2>3 DEF Good, Sound, NetPhases, LookupPhases
    <3>2. QED
      BY <1>1, <2>1, <2>2, <3>1, TimelySame DEF Good
  <2>5. QED
    BY <1>1, <2>1, <2>2, <2>3, <2>4, AdvanceKeeps DEF Advance
<1>8. CASE Decide(c) /\ ~Stale(r)
  <2> DEFINE q == [r EXCEPT !.phase = "posted", !.timer = "null",
                            !.late = @ \/ con[c].timer = "due"]
  <2>1. q \in Connection
    BY <1>1, Names, ZenonT(120) DEF Connection
  <2>2. /\ q.phase = "posted" /\ q.result = r.result
        /\ q.budget = r.budget /\ q.asked = r.asked /\ q.age = r.age
        /\ q.elapsed = r.elapsed /\ q.timer = "null" /\ q.match = r.match
        /\ q.closed = r.closed /\ (LooksUp(q) <=> LooksUp(r))
    BY <1>1 DEF Connection, LooksUp
  <2>3. r.phase = "decide" /\ Advance(c, q)
    BY <1>8 DEF Decide
  <2> HIDE DEF q
  <2>4. Good(q)
    <3>1. Sound(q)
      BY <1>1, <2>2, <2>3 DEF Good, Sound, NetPhases, LookupPhases
    <3>2. QED
      BY <1>1, <2>1, <2>2, <3>1, TimelySame DEF Good
  <2>5. QED
    BY <1>1, <2>1, <2>2, <2>3, <2>4, AdvanceKeeps DEF Advance
<1>9. QED
  BY <1>6, <1>7, <1>8 DEF CacheJob, Lookup, Decide, none
-----------------------------------------------------------------------------
(* The I/O thread.                                                          *)

(* A handler that goes on to the next operation, on the network.            *)
LEMMA NextOperation ==
  ASSUME TypeOK, IInv, NEW c \in queue, NEW r \in Connection, NEW q \in Connection,
         Advance(c, q),
         WithHeaders \subseteq {FALSE} => Timely(r),
         q.phase \in NetPhases, ~Ripe(q), q.phase \in {"header", "body"} => q.buffer,
         q.budget = r.budget, q.asked = r.asked, q.age = r.age, q.elapsed = r.elapsed,
         q.timer = r.timer, q.match = r.match, q.closed => r.closed,
         q.result = "timeout" => r.result = "timeout"
  PROVE  IInv'
<1>1. Sound(q)
  BY DEF Sound, NetPhases, LookupPhases
<1>2. WithHeaders \subseteq {FALSE} => Timely(q)
  BY TimelySame
<1>3. q.phase # "done"
  BY DEF NetPhases
<1>4. QED
  BY <1>1, <1>2, <1>3, AdvanceKeeps DEF Good, Advance

(* A handler that ends the request with a result other than a timeout.      *)
LEMMA LastOperation ==
  ASSUME TypeOK, IInv, NEW c \in queue, NEW r \in Connection, NEW q \in Connection,
         Notify(c, q),
         WithHeaders \subseteq {FALSE} => Timely(r),
         q.budget = r.budget, q.asked = r.asked, q.age = r.age, q.elapsed = r.elapsed,
         q.timer = r.timer, q.match = r.match, q.closed => r.closed,
         q.result = "timeout" => r.result = "timeout"
  PROVE  IInv'
<1>1. WithHeaders \subseteq {FALSE} => Timely(q)
  BY TimelySame
<1>2. QED
  BY <1>1, NotifyKeeps

(* A handler's request after success(), and once more after timeout().      *)
LEMMA SpentTimely ==
  ASSUME IInv, NEW c \in queue, con[c] \in Connection, ~TimedOut(con[c])
  PROVE  /\ Spend(con[c]) \in Connection
         /\ WithHeaders \subseteq {FALSE} => Timely(Spend(con[c]))
         /\ Arm(Spend(con[c])) \in Connection
         /\ WithHeaders \subseteq {FALSE} => Timely(Arm(Spend(con[c])))
BY SpendType, SpendTimely, ArmType, ArmTimely DEF IInv

LEMMA FailKeeps == ASSUME TypeOK, IInv, NEW c \in Conns, Fail(c) PROVE IInv'
<1> DEFINE r == con[c]
<1>1. r \in Connection /\ c \in queue /\ (WithHeaders \subseteq {FALSE} => Timely(r))
  BY DEF TypeOK, Fail, Handler, IInv
<1>2. CASE r.phase # "handshake" /\ TimedOut(r)
  <2> DEFINE q == [Cancel(r) EXCEPT !.result = "timeout"]
  <2>1. Cancel(r) \in Connection
    BY <1>1, CancelType
  <2>2. q \in Connection
    BY <2>1, Names DEF Connection
  <2>3. /\ q.budget = r.budget /\ q.asked = r.asked /\ q.age = r.age /\ q.elapsed = r.elapsed
        /\ q.timer = "due" => r.timer = "due"
        /\ q.match = r.match
    BY <1>1 DEF Cancel, Connection
  <2>4. Notify(c, q)
    BY <1>2 DEF Fail
  <2> HIDE DEF q
  <2>5. WithHeaders \subseteq {FALSE} => Timely(q)
    <3> SUFFICES ASSUME WithHeaders \subseteq {FALSE} PROVE Timely(q)
      OBVIOUS
    <3>1. r.age = r.asked * TicksPerMs
      BY <1>1, <1>2, TimedOutTimely
    <3>2. QED
      BY <1>1, <2>3, <3>1 DEF Timely
  <2>6. QED
    BY <1>1, <2>2, <2>4, <2>5, NotifyKeeps
<1>3. CASE r.phase = "handshake"
  <2> DEFINE q == [r EXCEPT !.result = "error"]
  <2>1. q \in Connection
    BY <1>1, Names DEF Connection
  <2>2. /\ q.budget = r.budget /\ q.asked = r.asked /\ q.age = r.age /\ q.elapsed = r.elapsed
        /\ q.timer = r.timer /\ q.match = r.match /\ q.closed = r.closed /\ q.result = "error"
    BY <1>1 DEF Connection
  <2>3. Notify(c, q)
    BY <1>3 DEF Fail
  <2> HIDE DEF q
  <2>4. QED
    BY <1>1, <2>1, <2>2, <2>3, LastOperation
<1>4. CASE r.phase # "handshake" /\ ~TimedOut(r)
  <2> DEFINE s == Spend(r)
             q == [s EXCEPT !.result = "error"]
  <2>1. s \in Connection /\ (WithHeaders \subseteq {FALSE} => Timely(s))
    BY <1>1, <1>4, SpentTimely
  <2>2. Notify(c, q)
    BY <1>4 DEF Fail
  <2> HIDE DEF s
  <2>3. q \in Connection
    BY <2>1, Names DEF Connection
  <2>4. /\ q.budget = s.budget /\ q.asked = s.asked /\ q.age = s.age /\ q.elapsed = s.elapsed
        /\ q.timer = s.timer /\ q.match = s.match /\ q.closed = s.closed /\ q.result = "error"
    BY <2>1 DEF Connection
  <2> HIDE DEF q
  <2>5. QED
    BY <1>1, <2>1, <2>2, <2>3, <2>4, LastOperation
<1>5. QED
  BY <1>2, <1>3, <1>4

LEMMA IoKeeps == ASSUME TypeOK, IInv, NEW c \in Conns, Io(c) PROVE IInv'
<1> DEFINE r == con[c]
<1>1. r \in Connection /\ (c \in queue => Good(r))
  BY DEF TypeOK, IInv, Good
<1>2. ASSUME c \in queue, r.phase \in NetPhases
      PROVE  ~Ripe(r) /\ (r.phase = "header" => r.buffer)
  BY <1>1, <1>2 DEF Good, Sound
<1>3. CASE NotifyHit(c)
  <2> DEFINE q == [r EXCEPT !.buffer = FALSE]
  <2>1. q \in Connection
    BY <1>1 DEF Connection
  <2>2. /\ q.budget = r.budget /\ q.asked = r.asked /\ q.age = r.age /\ q.elapsed = r.elapsed
        /\ q.timer = r.timer /\ q.match = r.match /\ q.closed = r.closed /\ q.result = r.result
    BY <1>1 DEF Connection
  <2>3. c \in queue /\ Notify(c, q)
    BY <1>3 DEF NotifyHit, Handler
  <2> HIDE DEF q
  <2>4. QED
    BY <1>1, <2>1, <2>2, <2>3, LastOperation DEF Good
<1>4. CASE Shaken(c)
  <2> DEFINE s == Arm(r)
             q == [[s EXCEPT !.phase = "write"] EXCEPT !.stream = "tls"]
  <2>1. c \in queue /\ r.phase = "handshake" /\ Advance(c, q)
    BY <1>4 DEF Shaken, Handler, Writing
  <2>2. s \in Connection /\ (WithHeaders \subseteq {FALSE} => Timely(s))
    BY <1>1, <2>1, ArmType, ArmTimely DEF Good
  <2>3. s.result = r.result /\ s.buffer = r.buffer
    BY <1>1 DEF Arm, Connection
  <2> HIDE DEF s
  <2>4. q \in Connection
    BY <2>2, Names, ZenonT(120) DEF Connection, Phases, NetPhases
  <2>5. /\ q.budget = s.budget /\ q.asked = s.asked /\ q.age = s.age /\ q.elapsed = s.elapsed
        /\ q.timer = s.timer /\ q.match = s.match /\ q.closed = s.closed
        /\ q.result = s.result /\ q.buffer = s.buffer /\ q.phase = "write"
    BY <2>2 DEF Connection
  <2> HIDE DEF q
  <2>6. /\ q.phase \in NetPhases /\ ~Ripe(q)
        /\ q.phase \in {"header", "body"} => q.buffer
    BY <1>2, <2>1, <2>3, <2>5 DEF Ripe, NetPhases
  <2>7. QED
    BY <2>1, <2>2, <2>4, <2>5, <2>6, NextOperation
<1>5. CASE NoHostName(c)
  <2> DEFINE s == Spend(r)
             q == [s EXCEPT !.stream = "raw", !.closed = FALSE, !.result = "error"]
  <2>1. c \in queue /\ ~TimedOut(r) /\ Notify(c, q)
    BY <1>5 DEF NoHostName, InTime, Handler
  <2>2. s \in Connection /\ (WithHeaders \subseteq {FALSE} => Timely(s))
    BY <1>1, <2>1, SpentTimely
  <2> HIDE DEF s
  <2>3. q \in Connection
    BY <2>2, Names DEF Connection
  <2>4. /\ q.budget = s.budget /\ q.asked = s.asked /\ q.age = s.age /\ q.elapsed = s.elapsed
        /\ q.timer = s.timer /\ q.match = s.match /\ ~q.closed /\ q.result = "error"
    BY <2>2 DEF Connection
  <2> HIDE DEF q
  <2>5. QED
    BY <2>1, <2>2, <2>3, <2>4, LastOperation
<1>6. CASE Refuse(c)
  <2> DEFINE s == Spend(r)
             q == [s EXCEPT !.result = "error"]
  <2>1. c \in queue /\ ~TimedOut(r) /\ Notify(c, q)
    BY <1>6 DEF Refuse, MeetsRedirect, InTime, Handler
  <2>2. s \in Connection /\ (WithHeaders \subseteq {FALSE} => Timely(s))
    BY <1>1, <2>1, SpentTimely
  <2> HIDE DEF s
  <2>3. q \in Connection
    BY <2>2, Names DEF Connection
  <2>4. /\ q.budget = s.budget /\ q.asked = s.asked /\ q.age = s.age /\ q.elapsed = s.elapsed
        /\ q.timer = s.timer /\ q.match = s.match /\ q.closed = s.closed /\ q.result = "error"
    BY <2>2 DEF Connection
  <2> HIDE DEF q
  <2>5. QED
    BY <2>1, <2>2, <2>3, <2>4, LastOperation
<1>7. CASE Received(c)
  <2> DEFINE s == Spend(r)
             q == [s EXCEPT !.buffer = FALSE]
  <2>1. c \in queue /\ ~TimedOut(r) /\ Notify(c, q)
    BY <1>7 DEF Received, InTime, Handler
  <2>2. s \in Connection /\ (WithHeaders \subseteq {FALSE} => Timely(s))
    BY <1>1, <2>1, SpentTimely
  <2> HIDE DEF s
  <2>3. q \in Connection
    BY <2>2, Names DEF Connection
  <2>4. /\ q.budget = s.budget /\ q.asked = s.asked /\ q.age = s.age /\ q.elapsed = s.elapsed
        /\ q.timer = s.timer /\ q.match = s.match /\ q.closed = s.closed /\ q.result = s.result
    BY <2>2 DEF Connection
  <2> HIDE DEF q
  <2>5. QED
    BY <2>1, <2>2, <2>3, <2>4, LastOperation
<1>8. CASE Resolved(c)
  <2> DEFINE s == Arm(Spend(r))
             q == [s EXCEPT !.phase = "connect", !.closed = FALSE,
                        !.stream = IF con[c].scheme = "http" THEN "tcp" ELSE "raw"]
  <2>1. c \in queue /\ r.phase = "resolve" /\ ~TimedOut(r) /\ Advance(c, q)
    BY <1>8 DEF Resolved, InTime, Handler
  <2>2. s \in Connection /\ (WithHeaders \subseteq {FALSE} => Timely(s))
    BY <1>1, <2>1, SpentTimely
  <2>3. s.result = r.result /\ s.buffer = r.buffer
    BY <1>1 DEF Arm, Spend, Connection
  <2> HIDE DEF s
  <2>4. q \in Connection
    <3>1. (IF con[c].scheme = "http" THEN "tcp" ELSE "raw") \in {"tcp", "raw"}
      OBVIOUS
    <3>2. QED
      BY <2>2, <3>1, Names, ZenonT(120) DEF Connection
  <2>5. /\ q.budget = s.budget /\ q.asked = s.asked /\ q.age = s.age /\ q.elapsed = s.elapsed
        /\ q.timer = s.timer /\ q.match = s.match /\ (q.closed => s.closed)
        /\ q.result = s.result /\ q.buffer = s.buffer /\ q.phase = "connect"
    BY <2>2 DEF Connection
  <2> HIDE DEF q
  <2>6. /\ q.phase \in NetPhases /\ ~Ripe(q)
        /\ q.phase \in {"header", "body"} => q.buffer
    BY <1>2, <2>1, <2>3, <2>5 DEF Ripe, NetPhases, Errors, Responses
  <2>7. QED
    BY <2>1, <2>2, <2>4, <2>5, <2>6, NextOperation
<1>9. CASE Connected(c) /\ r.stream = "tcp"
  <2> DEFINE s == Arm(Spend(r))
             q == [s EXCEPT !.phase = "write"]
  <2>1. c \in queue /\ r.phase = "connect" /\ ~TimedOut(r) /\ Advance(c, q)
    BY <1>9 DEF Connected, Writing, InTime, Handler
  <2>2. s \in Connection /\ (WithHeaders \subseteq {FALSE} => Timely(s))
    BY <1>1, <2>1, SpentTimely
  <2>3. s.result = r.result /\ s.buffer = r.buffer
    BY <1>1 DEF Arm, Spend, Connection
  <2> HIDE DEF s
  <2>4. q \in Connection
    BY <2>2, Names, ChoiceAssumption DEF Connection, Phases, NetPhases
  <2>5. /\ q.budget = s.budget /\ q.asked = s.asked /\ q.age = s.age /\ q.elapsed = s.elapsed
        /\ q.timer = s.timer /\ q.match = s.match /\ (q.closed => s.closed)
        /\ q.result = s.result /\ q.buffer = s.buffer /\ q.phase = "write"
    BY <2>2 DEF Connection
  <2> HIDE DEF q
  <2>6. /\ q.phase \in NetPhases /\ ~Ripe(q)
        /\ q.phase \in {"header", "body"} => q.buffer
    BY <1>2, <2>1, <2>3, <2>5 DEF Ripe, NetPhases, Errors, Responses
  <2>7. QED
    BY <2>1, <2>2, <2>4, <2>5, <2>6, NextOperation
<1>10. CASE Connected(c) /\ r.stream # "tcp"
  <2> DEFINE s == Spend(r)
             q == [s EXCEPT !.phase = "handshake"]
  <2>1. c \in queue /\ r.phase = "connect" /\ ~TimedOut(r) /\ Advance(c, q)
    BY <1>10 DEF Connected, InTime, Handler
  <2>2. s \in Connection /\ (WithHeaders \subseteq {FALSE} => Timely(s))
    BY <1>1, <2>1, SpentTimely
  <2>3. s.result = r.result /\ s.buffer = r.buffer
    BY <1>1 DEF Spend, Connection
  <2> HIDE DEF s
  <2>4. q \in Connection
    BY <2>2, Names, ChoiceAssumption DEF Connection, Phases, NetPhases
  <2>5. /\ q.budget = s.budget /\ q.asked = s.asked /\ q.age = s.age /\ q.elapsed = s.elapsed
        /\ q.timer = s.timer /\ q.match = s.match /\ (q.closed => s.closed)
        /\ q.result = s.result /\ q.buffer = s.buffer /\ q.phase = "handshake"
    BY <2>2 DEF Connection
  <2> HIDE DEF q
  <2>6. /\ q.phase \in NetPhases /\ ~Ripe(q)
        /\ q.phase \in {"header", "body"} => q.buffer
    BY <1>2, <2>1, <2>3, <2>5 DEF Ripe, NetPhases, Errors, Responses
  <2>7. QED
    BY <2>1, <2>2, <2>4, <2>5, <2>6, NextOperation
<1>11. CASE Written(c)
  <2> DEFINE s == Arm(Spend(r))
             q == [s EXCEPT !.phase = "header", !.buffer = TRUE, !.result = "network"]
  <2>1. c \in queue /\ r.phase = "write" /\ ~TimedOut(r) /\ Advance(c, q)
    BY <1>11 DEF Written, InTime, Handler
  <2>2. s \in Connection /\ (WithHeaders \subseteq {FALSE} => Timely(s))
    BY <1>1, <2>1, SpentTimely
  <2>3. s.result = r.result /\ s.buffer = r.buffer
    BY <1>1 DEF Arm, Spend, Connection
  <2> HIDE DEF s
  <2>4. q \in Connection
    BY <2>2, Names, ChoiceAssumption DEF Connection, Phases, NetPhases
  <2>5. /\ q.budget = s.budget /\ q.asked = s.asked /\ q.age = s.age /\ q.elapsed = s.elapsed
        /\ q.timer = s.timer /\ q.match = s.match /\ (q.closed => s.closed)
        /\ q.result = "network" /\ q.buffer /\ q.phase = "header"
    BY <2>2 DEF Connection
  <2> HIDE DEF q
  <2>6. q.phase \in NetPhases /\ ~Ripe(q) /\ q.buffer
    BY <2>5 DEF Ripe, NetPhases, Errors, Responses
  <2>7. QED
    BY <2>1, <2>2, <2>4, <2>5, <2>6, NextOperation
<1>12. ASSUME NEW h \in Replies, Answered(c, h) PROVE IInv'
  <2> DEFINE s == Arm(Spend(r))
             q == [[s EXCEPT !.phase = "body"] EXCEPT !.headers = h]
  <2>1. c \in queue /\ r.phase = "header" /\ ~TimedOut(r) /\ Advance(c, q)
    BY <1>12 DEF Answered, Reading, InTime, Handler
  <2>2. s \in Connection /\ (WithHeaders \subseteq {FALSE} => Timely(s))
    BY <1>1, <2>1, SpentTimely
  <2>3. s.result = r.result /\ s.buffer = r.buffer
    BY <1>1 DEF Arm, Spend, Connection
  <2> HIDE DEF s
  <2>4. q \in Connection
    BY <2>2, Names, ChoiceAssumption DEF Connection, Phases, NetPhases
  <2>5. /\ q.budget = s.budget /\ q.asked = s.asked /\ q.age = s.age /\ q.elapsed = s.elapsed
        /\ q.timer = s.timer /\ q.match = s.match /\ (q.closed => s.closed)
        /\ q.result = s.result /\ q.buffer = s.buffer /\ q.phase = "body"
    BY <2>2 DEF Connection
  <2> HIDE DEF q
  <2>6. /\ q.phase \in NetPhases /\ ~Ripe(q)
        /\ q.phase \in {"header", "body"} => q.buffer
    BY <1>2, <2>1, <2>3, <2>5 DEF Ripe, NetPhases, Errors, Responses
  <2>7. QED
    BY <2>1, <2>2, <2>4, <2>5, <2>6, NextOperation
<1>13. CASE HandOver(c)
  <2> DEFINE s == Arm(Spend(r))
             q == [[s EXCEPT !.phase = "body"] EXCEPT !.headers = "failed"]
  <2>1. c \in queue /\ r.phase = "header" /\ ~TimedOut(r) /\ Advance(c, q)
    BY <1>13 DEF HandOver, MeetsRedirect, Reading, InTime, Handler
  <2>2. s \in Connection /\ (WithHeaders \subseteq {FALSE} => Timely(s))
    BY <1>1, <2>1, SpentTimely
  <2>3. s.result = r.result /\ s.buffer = r.buffer
    BY <1>1 DEF Arm, Spend, Connection
  <2> HIDE DEF s
  <2>4. q \in Connection
    BY <2>2, Names, ChoiceAssumption DEF Connection, Phases, NetPhases
  <2>5. /\ q.budget = s.budget /\ q.asked = s.asked /\ q.age = s.age /\ q.elapsed = s.elapsed
        /\ q.timer = s.timer /\ q.match = s.match /\ (q.closed => s.closed)
        /\ q.result = s.result /\ q.buffer = s.buffer /\ q.phase = "body"
    BY <2>2 DEF Connection
  <2> HIDE DEF q
  <2>6. /\ q.phase \in NetPhases /\ ~Ripe(q)
        /\ q.phase \in {"header", "body"} => q.buffer
    BY <1>2, <2>1, <2>3, <2>5 DEF Ripe, NetPhases, Errors, Responses
  <2>7. QED
    BY <2>1, <2>2, <2>4, <2>5, <2>6, NextOperation
<1>14. CASE NotModified(c)
  <2> DEFINE s == Arm(Spend(r))
             q == [[s EXCEPT !.phase = "body"] EXCEPT !.result = "notmodified"]
  <2>1. c \in queue /\ r.phase = "header" /\ ~TimedOut(r) /\ Advance(c, q)
    BY <1>14 DEF NotModified, Reading, InTime, Handler
  <2>2. s \in Connection /\ (WithHeaders \subseteq {FALSE} => Timely(s))
    BY <1>1, <2>1, SpentTimely
  <2>3. s.buffer
    BY <1>1, <1>2, <2>1 DEF Arm, Spend, Connection, NetPhases
  <2> HIDE DEF s
  <2>4. q \in Connection
    BY <2>2, Names DEF Connection, Phases, NetPhases
  <2>5. /\ q.budget = s.budget /\ q.asked = s.asked /\ q.age = s.age /\ q.elapsed = s.elapsed
        /\ q.timer = s.timer /\ q.match = s.match /\ (q.closed => s.closed)
        /\ q.result = "notmodified" /\ q.buffer = s.buffer /\ q.phase = "body"
    BY <2>2 DEF Connection
  <2> HIDE DEF q
  <2>6. q.phase \in NetPhases /\ ~Ripe(q) /\ q.buffer
    BY <2>3, <2>5 DEF Ripe, NetPhases, Errors
  <2>7. QED
    BY <2>1, <2>2, <2>4, <2>5, <2>6, NextOperation
<1>15. ASSUME NEW x \in Schemes, Follow(c, x) PROVE IInv'
  <2> DEFINE s == Spend(r)
             q == [s EXCEPT !.scheme = x, !.hops = IF @ < MaxRedirects THEN @ + 1 ELSE @]
  <2>1. c \in queue /\ r.phase = "header" /\ ~TimedOut(r) /\ Advance(c, Send(q))
    BY <1>15 DEF Follow, MeetsRedirect, InTime, Handler
  <2>2. s \in Connection /\ (WithHeaders \subseteq {FALSE} => Timely(s))
    BY <1>1, <2>1, SpentTimely
  <2>3. s.result = r.result /\ s.buffer = r.buffer
    BY <1>1 DEF Spend, Connection
  <2> HIDE DEF s
  <2>4. q \in Connection
    <3>1. (IF s.hops < MaxRedirects THEN s.hops + 1 ELSE s.hops) \in 0 .. MaxRedirects
      BY <2>2, TimeAssumption DEF Connection
    <3>2. x \in {"http", "https"}
      BY ChoiceAssumption
    <3>3. QED
      BY <2>2, <3>1, <3>2 DEF Connection
  <2>5. /\ q.budget = s.budget /\ q.asked = s.asked /\ q.age = s.age /\ q.elapsed = s.elapsed
        /\ q.timer = s.timer /\ q.match = s.match /\ q.closed = s.closed
        /\ q.result = s.result /\ q.buffer = s.buffer
    BY <2>2 DEF Connection
  <2> HIDE DEF q
  <2>6. (WithHeaders \subseteq {FALSE} => Timely(q)) /\ ~Ripe(q)
    <3>1. WithHeaders \subseteq {FALSE} => Timely(q)
      BY <2>2, <2>4, <2>5, TimelySame
    <3>2. ~Ripe(q)
      BY <1>2, <2>1, <2>3, <2>5 DEF Ripe, NetPhases
    <3>3. QED
      BY <3>1, <3>2
  <2>7. Send(q) \in Connection
    BY <2>4, SendType
  <2>8. CASE LooksUp(q)
    <3> DEFINE l == [q EXCEPT !.phase = "lookup"]
    <3>1. l = Send(q)
      BY <2>8 DEF Send
    <3>2. /\ l.budget = q.budget /\ l.asked = q.asked /\ l.age = q.age
          /\ l.elapsed = q.elapsed /\ l.timer = q.timer /\ l.match = q.match
          /\ l.closed = q.closed /\ l.result = q.result /\ l.buffer = q.buffer
          /\ l.phase = "lookup" /\ LooksUp(l)
      BY <2>4, <2>8 DEF LooksUp, Connection
    <3> HIDE DEF l
    <3>3. WithHeaders \subseteq {FALSE} => Timely(l)
      BY <2>4, <2>6, <2>7, <3>1, <3>2, TimelySame
    <3>4. Sound(l)
      BY <2>6, <3>2 DEF Sound, Ripe, NetPhases
    <3>5. QED
      BY <2>1, <2>7, <3>1, <3>2, <3>3, <3>4, AdvanceKeeps DEF Good, Advance
  <2>9. CASE ~LooksUp(q)
    <3>1. Send(q) = Network(q)
      BY <2>9 DEF Send
    <3>2. Good(Network(q)) /\ Network(q).phase = "resolve"
      BY <2>4, <2>6, NetworkGood
    <3>3. QED
      BY <2>1, <2>7, <3>1, <3>2, AdvanceKeeps DEF Advance
  <2>10. QED
    BY <2>8, <2>9
<1>16. QED
  BY <1>3, <1>4, <1>5, <1>6, <1>7, <1>8, <1>9, <1>10, <1>11, <1>12, <1>13, <1>14, <1>15,
     FailKeeps DEF Io

LEMMA TimerKeeps == ASSUME TypeOK, IInv, NEW c \in Conns, Timer(c) PROVE IInv'
<1> DEFINE r == con[c]
<1>1. r \in Connection /\ c \in queue /\ Good(r)
  BY DEF TypeOK, Timer, Expire, Alarm, LateAlarm, IInv, Good
<1>2. ASSUME NEW q \in Connection, con' = [con EXCEPT ![c] = q],
             UNCHANGED <<pc, mu, queue, task, signal>>,
             q.phase = r.phase, q.result = r.result, q.buffer = r.buffer,
             q.cache = r.cache, q.bypass = r.bypass,
             WithHeaders \subseteq {FALSE} => Timely(q)
      PROVE  IInv'
  <2>1. Sound(q)
    BY <1>1, <1>2 DEF Good, Sound, Ripe, LooksUp
  <2>2. Ripe(q) <=> Ripe(r)
    BY <1>2 DEF Ripe
  <2>3. QED
    BY <1>1, <1>2, <2>1, <2>2, AdvanceKeeps DEF Good
<1>3. CASE Expire(c)
  <2> DEFINE q == [r EXCEPT !.timer = "due"]
  <2>1. q \in Connection
    BY <1>1 DEF Connection
  <2>2. /\ q.budget = r.budget /\ q.asked = r.asked /\ q.age = r.age /\ q.elapsed = r.elapsed
        /\ q.match = r.match /\ q.closed = r.closed /\ q.result = r.result
        /\ q.phase = r.phase /\ q.buffer = r.buffer /\ q.cache = r.cache /\ q.bypass = r.bypass
    BY <1>1 DEF Connection
  <2>3. Advance(c, q) /\ (r.match => r.elapsed >= r.budget * TicksPerMs)
    BY <1>3 DEF Expire
  <2> HIDE DEF q
  <2>4. Timely(r) => Timely(q)
    BY <2>2, <2>3 DEF Timely
  <2>5. QED
    BY <1>1, <1>2, <2>1, <2>2, <2>3, <2>4 DEF Advance, Good
<1>4. CASE LateAlarm(c)
  <2> DEFINE q == [r EXCEPT !.late = FALSE]
  <2>1. q \in Connection
    BY <1>1 DEF Connection
  <2>2. /\ q.budget = r.budget /\ q.asked = r.asked /\ q.age = r.age /\ q.elapsed = r.elapsed
        /\ q.match = r.match /\ q.closed = r.closed /\ q.result = r.result /\ q.timer = r.timer
        /\ q.phase = r.phase /\ q.buffer = r.buffer /\ q.cache = r.cache /\ q.bypass = r.bypass
    BY <1>1 DEF Connection
  <2>3. Advance(c, q)
    BY <1>4 DEF LateAlarm
  <2> HIDE DEF q
  <2>4. Timely(r) => Timely(q)
    BY <1>1, <2>1, <2>2, TimelySame
  <2>5. QED
    BY <1>1, <1>2, <2>1, <2>2, <2>3, <2>4 DEF Advance, Good
<1>5. CASE Alarm(c)
  <2>1. Rung(r) \in Connection
    BY <1>1, RungType
  <2>2. /\ Rung(r).result = r.result /\ Rung(r).phase = r.phase /\ Rung(r).buffer = r.buffer
        /\ Rung(r).cache = r.cache /\ Rung(r).bypass = r.bypass
    BY <1>1 DEF Rung, Connection
  <2>3. Timely(r) => Timely(Rung(r))
    BY <1>1, <1>5, RungTimely DEF Alarm
  <2>4. QED
    BY <1>1, <1>2, <1>5, <2>1, <2>2, <2>3 DEF Alarm, Good
<1>6. QED
  BY <1>3, <1>4, <1>5 DEF Timer

LEMMA TickKeeps == ASSUME TypeOK, IInv, NEW c \in Conns, Tick(c) PROVE IInv'
<1> DEFINE r == con[c]
           e == r.elapsed + 1
           a == IF r.age < r.asked * TicksPerMs THEN r.age + 1 ELSE r.age
           q == [r EXCEPT !.elapsed = e, !.age = a]
<1>1. r \in Connection /\ c \in queue /\ Good(r) /\ r.phase \in NetPhases
  BY DEF TypeOK, Tick, IInv, Good
<1>2. /\ r.budget \in Nat /\ r.elapsed \in Nat /\ r.age \in Nat /\ r.asked \in Nat
      /\ r.budget * TicksPerMs \in Int /\ r.asked * TicksPerMs \in Int
  BY <1>1, TimeAssumption DEF Connection
<1>3. e \in Nat /\ a \in Nat
  BY <1>2
<1>4. Advance(c, q)
  BY DEF Tick
<1>5. Timely(r) =>
        /\ a <= r.asked * TicksPerMs
        /\ a = r.asked * TicksPerMs \/ a >= r.asked * TicksPerMs - r.budget * TicksPerMs + e
        /\ r.timer = "due" /\ r.match => e >= r.budget * TicksPerMs
        /\ r.closed \/ r.result = "timeout" => a = r.asked * TicksPerMs
  <2> DEFINE limit == r.asked * TicksPerMs
             left  == r.budget * TicksPerMs
  <2>1. limit \in Int /\ left \in Int /\ r.elapsed \in Int /\ r.age \in Int
    BY <1>2
  <2>2. Timely(r) =>
          /\ r.age <= limit
          /\ r.age = limit \/ r.age >= limit - left + r.elapsed
          /\ r.timer = "due" /\ r.match => r.elapsed >= left
          /\ r.closed \/ r.result = "timeout" => r.age = limit
    BY Zenon DEF Timely
  <2> HIDE DEF limit, left
  <2>3. Timely(r) =>
          /\ a <= limit
          /\ a = limit \/ a >= limit - left + e
          /\ r.timer = "due" /\ r.match => e >= left
          /\ r.closed \/ r.result = "timeout" => a = limit
    BY <2>1, <2>2 DEF limit
  <2>4. QED
    BY <2>3 DEF limit, left
<1> HIDE DEF e, a
<1>6. q \in Connection
  BY <1>1, <1>3 DEF Connection
<1>7. /\ q.budget = r.budget /\ q.asked = r.asked /\ q.age = a /\ q.elapsed = e
      /\ q.match = r.match /\ q.closed = r.closed /\ q.result = r.result /\ q.timer = r.timer
      /\ q.phase = r.phase /\ q.buffer = r.buffer /\ q.cache = r.cache /\ q.bypass = r.bypass
  BY <1>1 DEF Connection
<1> HIDE DEF q
<1>8. Timely(r) => Timely(q)
  BY <1>5, <1>7, Zenon DEF Timely
<1>9. Sound(q) /\ q.phase # "done"
  BY <1>1, <1>7 DEF Good, Sound, Ripe, LooksUp, NetPhases
<1>10. QED
  BY <1>1, <1>4, <1>6, <1>8, <1>9, AdvanceKeeps DEF Advance, Good

(* What reaches an erased connection is a lookup, or a late timer.          *)
LEMMA UseAfterEraseKeeps ==
  ASSUME TypeOK, IInv, NEW c \in Conns, UseAfterErase(c) PROVE IInv'
<1>1. c \notin queue /\ \A d \in Conns : d # c => con'[d] = con[d]
  BY DEF UseAfterErase, TypeOK
<1>2. /\ con'[c].cache = con[c].cache /\ con'[c].bypass = con[c].bypass
      /\ con[c].phase \notin LookupPhases \cup NetPhases => con'[c].phase = con[c].phase
      /\ con'[c].phase # con[c].phase => con[c].phase \in LookupPhases \cup NetPhases
  <2>1. con[c] \in Connection
    BY DEF TypeOK
  <2>2. QED
    BY <2>1 DEF UseAfterErase, TypeOK, Connection
<1>3. SettledIsFinal'
  <2> SUFFICES ASSUME NEW d \in Conns, d \notin queue', ~LooksUp(con'[d])
               PROVE  con'[d].phase \in {"unused", "done"}
    BY DEF SettledIsFinal
  <2>1. CASE d # c
    BY <1>1, <2>1 DEF IInv, SettledIsFinal, UseAfterErase
  <2>2. CASE d = c
    <3>1. con[c].phase \in {"unused", "done"}
      BY <1>1, <1>2, <2>2 DEF IInv, SettledIsFinal, LooksUp
    <3>2. QED
      BY <1>2, <2>2, <3>1 DEF LookupPhases, NetPhases
  <2>3. QED
    BY <2>1, <2>2
<1>4. \A d \in queue' : Good(con'[d])
  BY <1>1 DEF IInv, Good, UseAfterErase, TypeOK
<1>5. \A d \in Conns : (Ready(d)' <=> Ready(d)) /\ (Ready(d) => con'[d] = con[d])
  BY <1>1 DEF Ready, Ripe, UseAfterErase
<1>6. NoLostWakeup'
  BY <1>5 DEF IInv, NoLostWakeup, UseAfterErase, Finished
<1>7. QED
  BY <1>3, <1>4, <1>6 DEF IInv, Good, MutexInv, UseAfterErase
-----------------------------------------------------------------------------
(* IInv is inductive: the three kinds of threads keep it.                   *)
THEOREM Safety == Spec => []IInv
<1>1. Init => IInv
  BY DEF Init, IInv, MutexInv, SettledIsFinal, NoLostWakeup, Blank
<1>2. TypeOK /\ IInv /\ [Next]_vars => IInv'
  <2> SUFFICES ASSUME TypeOK, IInv, [Next]_vars PROVE IInv'
    OBVIOUS
  <2>1. CASE UNCHANGED vars
    BY <2>1 DEF vars, IInv, MutexInv, SettledIsFinal, NoLostWakeup, Ready, Ripe, Finished
  <2>2. ASSUME UNCHANGED <<mu, queue, con, task, signal>>, pc' = pc PROVE IInv'
    BY <2>2 DEF IInv, MutexInv, SettledIsFinal, NoLostWakeup, Ready, Ripe, Finished
  <2>3. CASE PeerAnswersShutdown \/ StoreChanges
    BY <2>2, <2>3 DEF PeerAnswersShutdown, StoreChanges
  <2>4. CASE SpuriousWakeup \/ Evaluate
    BY <2>4 DEF SpuriousWakeup, Evaluate, IInv, MutexInv, SettledIsFinal, NoLostWakeup
  <2>5. QED
    BY <2>1, <2>3, <2>4, ScriptKeeps, IssueKeeps, PoolKeeps, CacheJobKeeps, IoKeeps,
       TimerKeeps, TickKeeps, UseAfterEraseKeeps DEF Next
<1>3. QED
  BY <1>1, <1>2, TypeCorrect, PTL DEF Spec

(* No wakeup is lost between the predicate of Worker::wait and its sleep:   *)
(* whatever became ready meanwhile has its notify_one to come.              *)
THEOREM WakeupsArrive == Spec => []NoLostWakeup
<1>1. IInv => NoLostWakeup
  BY DEF IInv
<1>2. QED
  BY <1>1, Safety, PTL

(* A request that skips the cache is erased only after its last handler.    *)
THEOREM ErasedOnlyWhenFinal == Spec => []SettledIsFinal
<1>1. IInv => SettledIsFinal
  BY DEF IInv
<1>2. QED
  BY <1>1, Safety, PTL

(* When no config carries headers (with them set_config ignores the timeout *)
(* asked for) no request is closed or rejected before its time is over,     *)
(* whatever the resolution of the clock and the number of redirects.        *)
THEOREM NobodyTimesOutEarly ==
  ASSUME WithHeaders \subseteq {FALSE} PROVE Spec => []NoEarlyTimeout
<1>1. IInv => NoEarlyTimeout
  BY DEF IInv, NoEarlyTimeout, Timely
<1>2. QED
  BY <1>1, Safety, PTL

-----------------------------------------------------------------------------
(***************************************************************************)
(* Worker implements AsyncOps when no request looks up the cache: every    *)
(* step of its threads issues, completes or settles one operation, returns *)
(* or resumes, or changes nothing the abstract specification sees.         *)
(***************************************************************************)

Stage == [o \in Conns \cup Tasks |-> IF o \in Conns THEN ConnStage(o) ELSE TaskStage(o)]
Thread == IF pc = "returned" THEN "returned" ELSE "running"

(* Requests skip the cache, and requests and tasks are different things.    *)
Uncached ==
  /\ \A m \in Modes : ~(CacheRead \subseteq m)
  /\ Conns \cap Tasks = {}

NoLookups == \A c \in Conns : ~(CacheRead \subseteq con[c].cache)

AInv == TypeOK /\ IInv /\ NoLookups

-----------------------------------------------------------------------------
LEMMA InitRefines == Init => Async!Init
BY DEF Init, Async!Init, ConnStage, TaskStage, Blank

(* What a step may do to a connection: nothing moves it back to unused, and *)
(* one that is done stays so.                                               *)
Moves(r, q) ==
  /\ q.cache = r.cache
  /\ q.phase = r.phase \/ (r.phase \notin {"unused", "done"} /\ q.phase # "unused")

(* A handler, job, timer callback or tick of a queued connection.           *)
Touches(c) ==
  /\ c \in queue
  /\ UNCHANGED <<queue, task>>
  /\ Thread' = Thread
  /\ \A d \in Conns : d # c => con'[d] = con[d]
  /\ Moves(con[c], con'[c])

LEMMA AdvanceTouches ==
  ASSUME TypeOK, NEW c \in queue, NEW r, Advance(c, r), Moves(con[c], r)
  PROVE  Touches(c)
BY DEF Advance, Touches, Thread, TypeOK

LEMMA NotifyTouches ==
  ASSUME TypeOK, NEW c \in queue, NEW r, r \in Connection, Notify(c, r),
         r.cache = con[c].cache, con[c].phase \notin {"unused", "done"}
  PROVE  Touches(c)
<1>1. Thread' = Thread
  BY DEF Notify, Wake, Thread, TypeOK
<1>2. con'[c] = [r EXCEPT !.phase = "done"] /\ \A d \in Conns : d # c => con'[d] = con[d]
  BY DEF Notify, TypeOK
<1>3. Moves(con[c], con'[c])
  BY <1>2 DEF Moves, Connection
<1>4. QED
  BY <1>1, <1>2, <1>3 DEF Notify, Touches

LEMMA IoTouches == ASSUME TypeOK, NEW c \in Conns, Io(c) PROVE Touches(c)
<1> DEFINE r == con[c]
<1>1. r \in Connection
  BY DEF TypeOK
<1>2. c \in queue /\ r.phase \notin {"unused", "done"}
  BY DEF Io, NotifyHit, Fail, Resolved, NoHostName, Connected, Shaken, Written, NotModified,
         Refuse, HandOver, Received, Answered, Follow, MeetsRedirect, InTime, Handler, NetPhases
<1>3. CASE NotifyHit(c)
  <2> DEFINE q == [r EXCEPT !.buffer = FALSE]
  <2>1. q \in Connection
    BY <1>1 DEF Connection
  <2>2. q.cache = r.cache
    BY <1>1 DEF Connection
  <2>3. Notify(c, q)
    BY <1>3 DEF NotifyHit
  <2> HIDE DEF q
  <2>4. QED
    BY <1>2, <2>1, <2>2, <2>3, NotifyTouches
<1>4. CASE Fail(c)
  <2>1. \A q \in Connection : /\ [q EXCEPT !.result = "timeout"] \in Connection
                             /\ [q EXCEPT !.result = "error"] \in Connection
                             /\ [q EXCEPT !.result = "timeout"].cache = q.cache
                             /\ [q EXCEPT !.result = "error"].cache = q.cache
    BY Names DEF Connection
  <2>2. /\ Cancel(r) \in Connection /\ Cancel(r).cache = r.cache
        /\ Spend(r).cache = r.cache
    BY <1>1, CancelType DEF Cancel, Spend, Connection
  <2>3. CASE r.phase # "handshake" /\ TimedOut(r)
    BY <1>2, <1>4, <2>1, <2>2, <2>3, NotifyTouches DEF Fail
  <2>4. CASE r.phase = "handshake"
    BY <1>1, <1>2, <1>4, <2>1, <2>4, NotifyTouches DEF Fail
  <2>5. CASE r.phase # "handshake" /\ ~TimedOut(r)
    BY <1>1, <1>2, <1>4, <2>1, <2>2, <2>5, SpendType, NotifyTouches DEF Fail
  <2>6. QED
    BY <2>3, <2>4, <2>5
<1>5. ASSUME NEW q, Advance(c, q), q.cache = r.cache, q.phase # "unused" PROVE Touches(c)
  BY <1>2, <1>5, AdvanceTouches DEF Moves
<1>6. Arm(r).cache = r.cache /\ Spend(r).cache = r.cache
  BY <1>1 DEF Arm, Spend, Connection
<1>7. ASSUME ~TimedOut(r)
      PROVE  /\ Spend(r) \in Connection
             /\ Arm(Spend(r)) \in Connection /\ Arm(Spend(r)).cache = r.cache
  <2>1. Spend(r) \in Connection
    BY <1>1, <1>7, SpendType
  <2>2. Arm(Spend(r)) \in Connection
    BY <2>1, ArmType
  <2>3. \A q \in Connection : Arm(q).cache = q.cache
    BY DEF Arm, Connection
  <2>4. QED
    BY <1>6, <2>1, <2>2, <2>3
<1>8. \A q \in Connection :
        /\ Network(q).cache = q.cache /\ Network(q).phase = "resolve"
        /\ Send(q).cache = q.cache /\ Send(q).phase # "unused"
        /\ Writing(q).cache = q.cache /\ Writing(q).phase = "write"
        /\ Reading(q).cache = q.cache /\ Reading(q).phase = "body"
        /\ Writing(q) \in Connection /\ Reading(q) \in Connection
  <2> SUFFICES ASSUME NEW q \in Connection
               PROVE  /\ Network(q).cache = q.cache /\ Network(q).phase = "resolve"
                      /\ Send(q).cache = q.cache /\ Send(q).phase # "unused"
                      /\ Writing(q).cache = q.cache /\ Writing(q).phase = "write"
                      /\ Reading(q).cache = q.cache /\ Reading(q).phase = "body"
                      /\ Writing(q) \in Connection /\ Reading(q) \in Connection
    OBVIOUS
  <2>1. /\ Network(q).cache = q.cache /\ Network(q).phase = "resolve"
        /\ Writing(q).cache = q.cache /\ Writing(q).phase = "write"
        /\ Reading(q).cache = q.cache /\ Reading(q).phase = "body"
    BY DEF Network, Writing, Reading, Arm, Connection
  <2>2. /\ [q EXCEPT !.phase = "lookup"].cache = q.cache
        /\ [q EXCEPT !.phase = "lookup"].phase = "lookup"
    BY DEF Connection
  <2>3. Send(q).cache = q.cache /\ Send(q).phase # "unused"
    BY <2>1, <2>2 DEF Send
  <2>4. Writing(q) \in Connection /\ Reading(q) \in Connection
    BY WritingType, ReadingType
  <2>5. QED
    BY <2>1, <2>3, <2>4
<1>9. CASE Resolved(c)
  <2>1. Advance(c, [Arm(Spend(r)) EXCEPT !.phase = "connect", !.closed = FALSE,
                      !.stream = IF con[c].scheme = "http" THEN "tcp" ELSE "raw"])
    BY <1>9 DEF Resolved
  <2>2. \A q \in Connection, st \in {"tcp", "raw"} :
          /\ [q EXCEPT !.phase = "connect", !.closed = FALSE, !.stream = st].cache = q.cache
          /\ [q EXCEPT !.phase = "connect", !.closed = FALSE, !.stream = st].phase = "connect"
    BY DEF Connection
  <2>3. QED
    BY <1>5, <1>7, <1>9, <2>1, <2>2 DEF Resolved, InTime
<1>10. CASE Connected(c)
  <2>1. \A q \in Connection : /\ [q EXCEPT !.phase = "handshake"].cache = q.cache
                             /\ [q EXCEPT !.phase = "handshake"].phase = "handshake"
    BY DEF Connection
  <2>2. CASE r.stream = "tcp"
    <3>1. Advance(c, Writing(Spend(r))) /\ ~TimedOut(r)
      BY <1>10, <2>2 DEF Connected, InTime
    <3>2. QED
      BY <1>5, <1>6, <1>7, <1>8, <3>1
  <2>3. CASE r.stream # "tcp"
    <3>1. Advance(c, [Spend(r) EXCEPT !.phase = "handshake"]) /\ ~TimedOut(r)
      BY <1>10, <2>3 DEF Connected, InTime
    <3>2. QED
      BY <1>5, <1>6, <1>7, <2>1, <3>1
  <2>4. QED
    BY <2>2, <2>3
<1>11. CASE Shaken(c)
  <2>1. \A q \in Connection : /\ [q EXCEPT !.stream = "tls"].cache = q.cache
                             /\ [q EXCEPT !.stream = "tls"].phase = q.phase
    BY DEF Connection
  <2>2. QED
    BY <1>1, <1>5, <1>8, <1>11, <2>1, ZenonT(120) DEF Shaken
<1>12. CASE Written(c)
  <2>1. \A q \in Connection :
          /\ [q EXCEPT !.phase = "header", !.buffer = TRUE, !.result = "network"].cache = q.cache
          /\ [q EXCEPT !.phase = "header", !.buffer = TRUE, !.result = "network"].phase = "header"
    BY DEF Connection
  <2>2. QED
    BY <1>5, <1>7, <1>12, <2>1 DEF Written, InTime
<1>13. ASSUME NEW h, Advance(c, [Reading(Spend(r)) EXCEPT !.headers = h]), ~TimedOut(r)
       PROVE  Touches(c)
  <2>1. \A q \in Connection : /\ [q EXCEPT !.headers = h].cache = q.cache
                             /\ [q EXCEPT !.headers = h].phase = q.phase
    BY DEF Connection
  <2>2. /\ Reading(Spend(r)) \in Connection /\ Reading(Spend(r)).cache = r.cache
        /\ Reading(Spend(r)).phase = "body"
    BY <1>6, <1>7, <1>8, <1>13
  <2>3. QED
    BY <1>5, <1>13, <2>1, <2>2
<1>14. CASE HandOver(c) \/ \E h \in Replies : Answered(c, h)
  BY <1>13, <1>14 DEF HandOver, Answered, MeetsRedirect, InTime
<1>15. CASE NotModified(c)
  <2>1. \A q \in Connection : /\ [q EXCEPT !.result = "notmodified"].cache = q.cache
                             /\ [q EXCEPT !.result = "notmodified"].phase = q.phase
    BY DEF Connection
  <2>2. Advance(c, [Reading(Spend(r)) EXCEPT !.result = "notmodified"]) /\ ~TimedOut(r)
    BY <1>15 DEF NotModified, InTime
  <2>3. /\ Reading(Spend(r)) \in Connection /\ Reading(Spend(r)).cache = r.cache
        /\ Reading(Spend(r)).phase = "body"
    BY <1>6, <1>7, <1>8, <2>2
  <2>4. QED
    BY <1>5, <2>1, <2>2, <2>3
<1>16. ASSUME NEW x \in Schemes, Follow(c, x) PROVE Touches(c)
  <2> DEFINE s == Spend(r)
             n == IF s.hops < MaxRedirects THEN s.hops + 1 ELSE s.hops
             q == [s EXCEPT !.scheme = x, !.hops = n]
  <2>1. Advance(c, Send(q)) /\ s \in Connection /\ s.cache = r.cache
    BY <1>6, <1>7, <1>16 DEF Follow, MeetsRedirect, InTime
  <2> HIDE DEF s
  <2>2. n \in 0 .. MaxRedirects /\ x \in {"http", "https"}
    BY <2>1, TimeAssumption, ChoiceAssumption DEF Connection
  <2> HIDE DEF n
  <2>3. q \in Connection /\ q.cache = s.cache
    BY <2>1, <2>2 DEF Connection
  <2> HIDE DEF q
  <2>4. QED
    BY <1>5, <1>8, <2>1, <2>3
<1>17. CASE NoHostName(c)
  <2> DEFINE s == Spend(r)
             q == [s EXCEPT !.stream = "raw", !.closed = FALSE, !.result = "error"]
  <2>1. Notify(c, q) /\ ~TimedOut(r)
    BY <1>17 DEF NoHostName, InTime
  <2>2. s \in Connection
    BY <1>1, <2>1, SpendType
  <2>3. s.cache = r.cache
    BY <1>1 DEF Spend, Connection
  <2> HIDE DEF s
  <2>4. q \in Connection
    BY <2>2, Names DEF Connection
  <2>5. q.cache = s.cache
    BY <2>2 DEF Connection
  <2> HIDE DEF q
  <2>6. QED
    BY <1>2, <2>1, <2>3, <2>4, <2>5, NotifyTouches
<1>18. CASE Refuse(c)
  <2> DEFINE s == Spend(r)
             q == [s EXCEPT !.result = "error"]
  <2>1. Notify(c, q) /\ ~TimedOut(r)
    BY <1>18 DEF Refuse, MeetsRedirect, InTime
  <2>2. s \in Connection
    BY <1>1, <2>1, SpendType
  <2>3. s.cache = r.cache
    BY <1>1 DEF Spend, Connection
  <2> HIDE DEF s
  <2>4. q \in Connection
    BY <2>2, Names DEF Connection
  <2>5. q.cache = s.cache
    BY <2>2 DEF Connection
  <2> HIDE DEF q
  <2>6. QED
    BY <1>2, <2>1, <2>3, <2>4, <2>5, NotifyTouches
<1>19. CASE Received(c)
  <2> DEFINE s == Spend(r)
             q == [s EXCEPT !.buffer = FALSE]
  <2>1. Notify(c, q) /\ ~TimedOut(r)
    BY <1>19 DEF Received, InTime
  <2>2. s \in Connection
    BY <1>1, <2>1, SpendType
  <2>3. s.cache = r.cache
    BY <1>1 DEF Spend, Connection
  <2> HIDE DEF s
  <2>4. q \in Connection
    BY <2>2, Names DEF Connection
  <2>5. q.cache = s.cache
    BY <2>2 DEF Connection
  <2> HIDE DEF q
  <2>6. QED
    BY <1>2, <2>1, <2>3, <2>4, <2>5, NotifyTouches
<1>20. QED
  BY <1>3, <1>4, <1>17, <1>18, <1>19, <1>9, <1>10, <1>11, <1>12, <1>14, <1>15, <1>16 DEF Io

LEMMA CacheJobTouches == ASSUME TypeOK, NEW c \in Conns, CacheJob(c) PROVE Touches(c)
<1> DEFINE r == con[c]
           none == [r EXCEPT !.result = "empty"]
<1>1. r \in Connection /\ c \in queue /\ r.phase \notin {"unused", "done"}
  BY DEF TypeOK, CacheJob, Lookup, Decide
<1>2. ASSUME NEW q, Advance(c, q), q.cache = r.cache, q.phase # "unused" PROVE Touches(c)
  BY <1>1, <1>2, AdvanceTouches DEF Moves
<1>3. Network(none).cache = r.cache /\ Network(none).phase = "resolve"
  BY <1>1 DEF Network, Arm, Connection
<1>4. CASE Lookup(c)
  <2> DEFINE q == [r EXCEPT !.result = "cached", !.headers = store, !.phase = "decide"]
  <2>1. q.cache = r.cache /\ q.phase = "decide"
    BY <1>1 DEF Connection
  <2>2. Advance(c, Network(none)) \/ Advance(c, q)
    BY <1>4 DEF Lookup
  <2> HIDE DEF q, none
  <2>3. QED
    BY <1>2, <1>3, <2>1, <2>2
<1>5. CASE Decide(c)
  <2> DEFINE q == [r EXCEPT !.phase = "posted", !.timer = "null",
                            !.late = @ \/ con[c].timer = "due"]
  <2>1. q.cache = r.cache /\ q.phase = "posted"
    BY <1>1 DEF Connection
  <2>2. Advance(c, Network(none)) \/ Advance(c, q)
    BY <1>5 DEF Decide
  <2> HIDE DEF q, none
  <2>3. QED
    BY <1>2, <1>3, <2>1, <2>2
<1>6. QED
  BY <1>4, <1>5 DEF CacheJob

LEMMA TimerTouches ==
  ASSUME TypeOK, NEW c \in Conns, Timer(c) \/ Tick(c) PROVE Touches(c)
<1> DEFINE r == con[c]
<1>1. r \in Connection /\ c \in queue
  BY DEF TypeOK, Timer, Expire, Alarm, LateAlarm, Tick
<1>2. ASSUME NEW q, Advance(c, q), q.cache = r.cache, q.phase = r.phase PROVE Touches(c)
  BY <1>1, <1>2, AdvanceTouches DEF Moves
<1>3. CASE Expire(c)
  BY <1>1, <1>2, <1>3 DEF Expire, Connection
<1>4. CASE LateAlarm(c)
  BY <1>1, <1>2, <1>4 DEF LateAlarm, Connection
<1>5. CASE Alarm(c)
  <2>1. Rung(r).cache = r.cache /\ Rung(r).phase = r.phase
    BY <1>1 DEF Rung, Connection
  <2>2. con' = [con EXCEPT ![c] = Rung(r)] /\ UNCHANGED <<pc, queue, task>>
    BY <1>5 DEF Alarm
  <2>3. QED
    BY <1>1, <2>1, <2>2 DEF Touches, Moves, Thread, TypeOK
<1>6. CASE Tick(c)
  <2> DEFINE e == r.elapsed + 1
             a == IF r.age < r.asked * TicksPerMs THEN r.age + 1 ELSE r.age
             q == [r EXCEPT !.elapsed = e, !.age = a]
  <2>1. Advance(c, q)
    BY <1>6 DEF Tick
  <2> HIDE DEF e, a
  <2>2. q.cache = r.cache /\ q.phase = r.phase
    BY <1>1 DEF Connection
  <2> HIDE DEF q
  <2>3. QED
    BY <1>2, <2>1, <2>2
<1>7. QED
  BY <1>3, <1>4, <1>5, <1>6 DEF Timer
-----------------------------------------------------------------------------
(* The abstract steps.                                                      *)

(* A step that changes no stage and not whether the thread has returned is  *)
(* a stutter; one that changes a single stage is a step of that operation.  *)
LEMMA StageMoves ==
  ASSUME NEW o \in Conns \cup Tasks,
         \A p \in Conns \cup Tasks : p # o => Stage'[p] = Stage[p]
  PROVE  Stage' = [Stage EXCEPT ![o] = Stage'[o]]
BY DEF Stage

LEMMA TouchesRefines ==
  ASSUME Uncached, AInv, NEW c \in Conns, Touches(c)
  PROVE  [Async!Next]_(Async!vars) /\ NoLookups'
<1>1. Stage'[c] = ConnStage(c)' /\ Stage[c] = ConnStage(c)
  BY DEF Stage
<1>2. \A p \in Conns \cup Tasks : p # c => Stage'[p] = Stage[p]
  BY DEF Stage, Touches, ConnStage, TaskStage
<1>3. con[c].phase # "unused"
  BY DEF AInv, IInv, Sound, Touches
<1>4. \/ Stage'[c] = Stage[c]
      \/ Stage[c] = "pending" /\ Stage'[c] = "completed"
  BY <1>1, <1>3 DEF ConnStage, Touches, Moves
<1>5. Stage' = [Stage EXCEPT ![c] = Stage'[c]]
  BY <1>2, StageMoves
<1>6. Thread' = Thread
  BY DEF Touches
<1>7. \/ Stage' = Stage /\ Thread' = Thread
      \/ /\ Stage[c] = "pending"
         /\ Stage' = [Stage EXCEPT ![c] = "completed"]
         /\ Thread' = Thread
  BY <1>4, <1>5, <1>6 DEF Stage
<1>8. [Async!Next]_(Async!vars)
  BY <1>7 DEF Async!Next, Async!vars, Async!Complete, Stage, Thread
<1>9. NoLookups'
  BY DEF AInv, NoLookups, Touches, Moves
<1>10. QED
  BY <1>8, <1>9

(* A step of the script thread that settles one operation.                  *)
LEMMA SettleRefines ==
  ASSUME Uncached, AInv, NEW c \in Conns, Settle(c)
  PROVE  [Async!Next]_(Async!vars) /\ NoLookups'
<1> DEFINE r == con[c]
<1>1. r \in Connection /\ c \in queue /\ Ripe(r) /\ Sound(r) /\ ~LooksUp(r)
  BY DEF AInv, TypeOK, IInv, Settle, Ready, NoLookups, LooksUp
<1>2. r.phase = "done"
  BY <1>1 DEF Sound, Connection, Phases, LookupPhases
<1>3. /\ con'[c] = Erased(r) /\ queue' = queue \ {c} /\ task' = task
      /\ \A d \in Conns : d # c => con'[d] = con[d]
  BY DEF Settle, AInv, TypeOK
<1>4. Erased(r).phase = r.phase /\ Erased(r).cache = r.cache
  BY DEF Erased, Blank
<1>5. Stage[c] = "completed" /\ Stage'[c] = "settled"
  BY <1>1, <1>2, <1>3, <1>4 DEF Stage, ConnStage
<1>6. \A p \in Conns \cup Tasks : p # c => Stage'[p] = Stage[p]
  BY <1>3 DEF Stage, ConnStage, TaskStage
<1>7. Stage' = [Stage EXCEPT ![c] = "settled"]
  BY <1>5, <1>6, StageMoves
<1>8. Thread = "running" /\ Thread' = Thread
  BY DEF Thread, Settle
<1>9. Async!Settle(c)
  BY <1>5, <1>7, <1>8 DEF Async!Settle, Stage, Thread
<1>10. NoLookups'
  BY <1>3, <1>4 DEF AInv, NoLookups
<1>11. QED
  BY <1>9, <1>10 DEF Async!Next

LEMMA FetchRefines ==
  ASSUME Uncached, AInv, NEW c \in Conns, NEW m \in Modes, NEW b \in Bypasses,
         NEW s \in Schemes, NEW d \in Redirects, NEW a \in Timeouts, NEW h \in WithHeaders,
         Fetch(c, m, b, s, d, a, h)
  PROVE  [Async!Next]_(Async!vars) /\ NoLookups'
<1> DEFINE r == [Blank EXCEPT !.cache = m, !.bypass = b, !.scheme = s, !.redirect = d,
                              !.asked = a, !.budget = Limit(a, h)]
<1>1. /\ con'[c] = Send(r) /\ queue' = queue \cup {c} /\ task' = task
      /\ \A x \in Conns : x # c => con'[x] = con[x]
  BY DEF Fetch, AInv, TypeOK
<1>2. r \in Connection
  BY FetchedType
<1>3. r.cache = m
  BY DEF Blank
<1> HIDE DEF r
<1>4. Send(r).cache = m /\ Send(r).phase = "resolve"
  BY <1>2, <1>3 DEF Uncached, Send, LooksUp, Network, Arm, Connection
<1>5. con[c].phase = "unused" /\ c \notin queue
  BY DEF Fetch, AInv, IInv, Sound
<1>6. Stage[c] = "idle" /\ Stage'[c] = "pending"
  BY <1>1, <1>4, <1>5 DEF Stage, ConnStage
<1>7. \A p \in Conns \cup Tasks : p # c => Stage'[p] = Stage[p]
  BY <1>1 DEF Stage, ConnStage, TaskStage
<1>8. Stage' = [Stage EXCEPT ![c] = "pending"]
  BY <1>6, <1>7, StageMoves
<1>9. Thread = "running" /\ Thread' = Thread
  BY DEF Thread, Fetch
<1>10. Async!Issue(c)
  BY <1>6, <1>8, <1>9 DEF Async!Issue, Stage, Thread
<1>11. NoLookups'
  BY <1>1, <1>4 DEF AInv, NoLookups, Uncached
<1>12. QED
  BY <1>10, <1>11 DEF Async!Next

(* The steps of a task: issued, completed by its last step, settled.        *)
LEMMA TaskRefines ==
  ASSUME Uncached, AInv, NEW t \in Tasks,
         \/ \E n \in 0 .. MaxSteps : StartTask(t, n)
         \/ StepAgain(t) \/ StepLast(t) \/ EndTask(t)
  PROVE  [Async!Next]_(Async!vars) /\ NoLookups'
<1>1. t \notin Conns /\ task \in [Tasks -> [at : {"unused", "stepping", "cleared", "ended"},
                                          left : 0 .. MaxSteps]]
  BY DEF Uncached, AInv, TypeOK
<1>2. UNCHANGED <<con, queue>> /\ Thread' = Thread
  BY DEF StartTask, StepAgain, StepLast, EndTask, Thread
<1>3. \A x \in Tasks : x # t => task'[x] = task[x]
  BY <1>1 DEF StartTask, StepAgain, StepLast, EndTask
<1>4. \A p \in Conns \cup Tasks : p # t => Stage'[p] = Stage[p]
  BY <1>2, <1>3 DEF Stage, ConnStage, TaskStage
<1>5. Stage[t] = TaskStage(t) /\ Stage'[t] = TaskStage(t)'
  BY <1>1 DEF Stage
<1>6. Stage' = [Stage EXCEPT ![t] = Stage'[t]]
  BY <1>4, StageMoves
<1>7. NoLookups'
  BY <1>2 DEF AInv, NoLookups
<1>8. CASE \E n \in 0 .. MaxSteps : StartTask(t, n)
  <2>1. Stage[t] = "idle" /\ Stage'[t] = "pending" /\ Thread = "running"
    BY <1>1, <1>5, <1>8 DEF StartTask, TaskStage, Thread
  <2>2. Async!Issue(t)
    BY <1>2, <1>6, <2>1 DEF Async!Issue, Stage, Thread
  <2>3. QED
    BY <1>7, <2>2 DEF Async!Next
<1>9. CASE StepAgain(t)
  <2>1. Stage'[t] = Stage[t]
    BY <1>1, <1>5, <1>9 DEF StepAgain, TaskStage
  <2>2. Stage' = Stage
    BY <1>6, <2>1 DEF Stage
  <2>3. QED
    BY <1>2, <1>7, <2>2 DEF Async!vars, Stage, Thread
<1>10. CASE StepLast(t)
  <2>1. Stage[t] = "pending" /\ Stage'[t] = "completed"
    BY <1>1, <1>5, <1>10 DEF StepLast, TaskStage
  <2>2. Async!Complete(t)
    BY <1>2, <1>6, <2>1 DEF Async!Complete, Stage, Thread
  <2>3. QED
    BY <1>7, <2>2 DEF Async!Next
<1>11. CASE EndTask(t)
  <2>1. Stage[t] = "completed" /\ Stage'[t] = "settled" /\ Thread = "running"
    BY <1>1, <1>5, <1>11 DEF EndTask, Finished, TaskStage, Thread
  <2>2. Async!Settle(t)
    BY <1>2, <1>6, <2>1 DEF Async!Settle, Stage, Thread
  <2>3. QED
    BY <1>7, <2>2 DEF Async!Next
<1>12. QED
  BY <1>8, <1>9, <1>10, <1>11

(* Waiting ends when everything is settled.                                 *)
LEMMA ReturnRefines ==
  ASSUME AInv, Return PROVE Async!Return /\ NoLookups'
<1>1. \A p \in Conns \cup Tasks : Stage[p] \in {"idle", "settled"}
  BY DEF AInv, TypeOK, Return, Idle, Running, Stage, ConnStage, TaskStage
<1>2. Stage' = Stage /\ Thread = "running" /\ Thread' = "returned"
  BY DEF Return, Stage, ConnStage, TaskStage, Thread
<1>3. NoLookups'
  BY DEF AInv, NoLookups, Return
<1>4. QED
  BY <1>1, <1>2, <1>3 DEF Async!Return, Stage, Thread

(* Nothing reaches an erased connection but late timers, which the abstract *)
(* specification does not see.                                              *)
LEMMA UseAfterEraseRefines ==
  ASSUME AInv, NEW c \in Conns, UseAfterErase(c)
  PROVE  Stage' = Stage /\ Thread' = Thread /\ NoLookups'
<1>1. con[c].phase \in {"unused", "done"}
  BY DEF AInv, IInv, SettledIsFinal, UseAfterErase, NoLookups, LooksUp
<1>2. con' = [con EXCEPT ![c].late = FALSE]
  BY <1>1 DEF UseAfterErase, LookupPhases, NetPhases
<1>3. \A d \in Conns : con'[d].phase = con[d].phase /\ con'[d].cache = con[d].cache
  BY <1>2 DEF AInv, TypeOK, Connection
<1>4. UNCHANGED <<pc, queue, task>>
  BY DEF UseAfterErase
<1>5. QED
  BY <1>3, <1>4 DEF Stage, ConnStage, TaskStage, Thread, AInv, NoLookups

LEMMA NextRefines ==
  ASSUME Uncached, AInv, [Next]_vars PROVE [Async!Next]_(Async!vars) /\ NoLookups'
<1>1. ASSUME UNCHANGED <<queue, con, task>>, Thread' = Thread
      PROVE  [Async!Next]_(Async!vars) /\ NoLookups'
  <2>1. Stage' = Stage
    BY <1>1 DEF Stage, ConnStage, TaskStage
  <2>2. NoLookups'
    BY <1>1 DEF AInv, NoLookups
  <2>3. QED
    BY <1>1, <2>1, <2>2 DEF Async!vars, Stage, Thread
<1>2. CASE UNCHANGED vars
  BY <1>1, <1>2 DEF vars, Thread
<1>3. CASE Lock \/ EndRound \/ Doze \/ Sleep
  BY <1>1, <1>3 DEF Lock, EndRound, Doze, Sleep, Thread
<1>4. CASE SpuriousWakeup \/ PeerAnswersShutdown \/ StoreChanges
  BY <1>1, <1>4 DEF SpuriousWakeup, PeerAnswersShutdown, StoreChanges, Thread
<1>5. ASSUME NEW t \in Tasks, NotifyTask(t) PROVE [Async!Next]_(Async!vars) /\ NoLookups'
  <2>1. Thread' = Thread
    BY <1>5 DEF NotifyTask, Wake, Thread
  <2>2. QED
    BY <1>1, <1>5, <2>1 DEF NotifyTask
<1>6. CASE Return
  BY <1>6, ReturnRefines DEF Async!Next
<1>7. CASE Evaluate
  <2>1. Stage' = Stage /\ Thread = "returned" /\ Thread' = "running" /\ NoLookups'
    BY <1>7 DEF Evaluate, Stage, ConnStage, TaskStage, Thread, AInv, NoLookups
  <2>2. Async!Resume
    BY <2>1 DEF Async!Resume, Stage, Thread
  <2>3. QED
    BY <2>1, <2>2 DEF Async!Next
<1>8. ASSUME NEW c \in Conns, UseAfterErase(c) PROVE [Async!Next]_(Async!vars) /\ NoLookups'
  BY <1>8, UseAfterEraseRefines DEF Async!vars, Stage, Thread
<1>9. ASSUME NEW c \in Conns, CacheJob(c) \/ Io(c) \/ Timer(c) \/ Tick(c)
      PROVE  [Async!Next]_(Async!vars) /\ NoLookups'
  BY <1>9, CacheJobTouches, IoTouches, TimerTouches, TouchesRefines DEF AInv
<1>10. CASE Issue
  BY <1>10, FetchRefines, TaskRefines DEF Issue
<1>11. CASE Script
  BY <1>3, <1>6, <1>11, SettleRefines, TaskRefines DEF Script
<1>12. ASSUME NEW t \in Tasks, Pool(t) PROVE [Async!Next]_(Async!vars) /\ NoLookups'
  BY <1>5, <1>12, TaskRefines DEF Pool
<1>13. QED
  BY <1>2, <1>4, <1>7, <1>8, <1>9, <1>10, <1>11, <1>12 DEF Next

(* The worker is an asynchronous runtime: every operation is completed      *)
(* once, by another thread, settled after that by the script's thread, and  *)
(* Worker::wait returns only when nothing is left unsettled.                *)
THEOREM Refinement == ASSUME Uncached PROVE Spec => AsyncSpec
<1>1. Init => Async!Init /\ NoLookups
  BY InitRefines DEF Init, NoLookups, CacheRead, Blank
<1>2. AInv /\ [Next]_vars => [Async!Next]_(Async!vars) /\ NoLookups'
  BY NextRefines
<1>3. QED
  BY <1>1, <1>2, TypeCorrect, Safety, PTL DEF Spec, AsyncSpec, Async!Spec, AInv
=============================================================================

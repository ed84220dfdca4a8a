------------------------------ MODULE MCSingle ------------------------------
(* Model checking of Worker with one request: with any cache mode and kind  *)
(* of redirect, of https, when it is issued, only where redirects are       *)
(* followed; or with one that uses no cache and follows nothing, and a task *)
(* beside it.  Redirects lead to either scheme.                             *)
EXTENDS MCWorker

Plain == [cache |-> {}, bypass |-> FALSE, scheme |-> "http", redirect |-> "error"]
IsPlain(r) == r.phase = "unused" \/ \A field \in DOMAIN Plain : r[field] = Plain[field]

Chosen(m, b, s, d) ==
  /\ b => m = {1, 2, 4, 16} /\ d = "follow"
  /\ m = {1, 4} => d # "follow"
  /\ s = "https" => ~b /\ d = "follow"
  /\ \/ \A t \in Tasks : task[t].at = "unused"
     \/ Plain = [cache |-> m, bypass |-> b, scheme |-> s, redirect |-> d]

SingleIssue ==
  \/ \E c \in Conns, m \in Modes, b \in Bypasses, s \in Schemes, d \in Redirects,
        a \in Timeouts, h \in WithHeaders :
       Chosen(m, b, s, d) /\ Fetch(c, m, b, s, d, a, h)
  \/ \E t \in Tasks, n \in 0 .. MaxSteps :
       (\A c \in Conns : IsPlain(con[c])) /\ StartTask(t, n)

SingleNext ==
  \/ Script \/ SingleIssue \/ SpuriousWakeup \/ Evaluate
  \/ PeerAnswersShutdown \/ StoreChanges
  \/ \E t \in Tasks : Pool(t)
  \/ \E c \in Conns : CacheJob(c) \/ Io(c) \/ Timer(c) \/ UseAfterErase(c) \/ Tick(c)

SingleSpec == Init /\ [][SingleNext]_vars /\ Fairness
=============================================================================

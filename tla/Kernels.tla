------------------------------ MODULE Kernels ------------------------------
(***************************************************************************)
(* The notebook kernels: class Window of lib/notojs/window.cpp with its    *)
(* Impl and Kernel, Router::jsexec, and the loop of a kernel process in    *)
(* lib/notojs/server.cpp.                                                  *)
(*                                                                         *)
(* A window is an event stream to a browser; its Impl lists the kernels    *)
(* that were created for it.  A Kernel object belongs to the handlers that *)
(* are outstanding on the pipes of its child process: it lives while its   *)
(* standard error is being read or a request is being exchanged.  It has a *)
(* queue of requests, of which only the first is with the child.           *)
(*                                                                         *)
(* All of this runs on the one I/O thread of the server, which waits for   *)
(* the child processes of a window when it destroys the window's Impl.     *)
(***************************************************************************)
EXTENDS Naturals, Sequences, Functions

CONSTANTS
  Windows,    \* the windows browsers may open
  Kernels,    \* the child processes that may be started, each once
  Requests,   \* the requests clients may make, each once
  Resets,     \* those that are a PUT to /k/:windowId, which resets the context
  Endless,    \* those whose evaluation never ends
  Big,        \* those whose response is more than a pipe holds
  Nobody      \* no window, kernel or request

ASSUME RequestAssumption ==
  /\ Resets \subseteq Requests
  /\ Endless \subseteq Requests
  /\ Big \subseteq Requests

ASSUME NobodyAssumption == Nobody \notin Windows \cup Kernels \cup Requests

VARIABLES
  win,      \* whether a window's Impl exists
  known,    \* the window whose Impl::kernels lists a kernel
  kern,     \* the Kernel objects and their processes
  req,      \* what has become of a request
  reply,    \* ghost: the request whose result a client was sent
  closing,  \* the window whose Impl is being destroyed
  reaping   \* the kernel whose process the I/O thread waits for

vars == <<win, known, kern, req, reply, closing, reaping>>
-----------------------------------------------------------------------------
(* proc: a process that is dying has closed its pipes and still counts as   *)
(* running.  op: the front request is being written, is written and its     *)
(* handler is still to run, or its response is being read.                  *)
Kernel ==
  [proc   : {"none", "running", "dying", "exited"},
   cin    : BOOLEAN,                         \* cin is open
   err    : BOOLEAN,                         \* cerr()'s read is outstanding
   op     : {"none", "write", "sent", "read"},
   queue  : Seq(Requests),                   \* Kernel::requests
   inbox  : Seq(Requests),                   \* in the child's standard input
   run    : Requests \cup {Nobody},          \* being evaluated by the child
   outbox : Seq(Requests)]                   \* in the child's standard output

(* answered with a result; answered with an empty response, because the     *)
(* child died; connection closed without an answer; evaluated by the server *)
(* itself.                                                                  *)
Outcomes == {"answered", "empty", "closed", "server"}

Unborn ==
  [proc |-> "none", cin |-> TRUE, err |-> FALSE, op |-> "none", queue |-> <<>>,
   inbox |-> <<>>, run |-> Nobody, outbox |-> <<>>]

Init ==
  /\ win = [w \in Windows |-> "closed"]
  /\ known = [k \in Kernels |-> Nobody]
  /\ kern = [k \in Kernels |-> Unborn]
  /\ req = [r \in Requests |-> "new"]
  /\ reply = [r \in Requests |-> Nobody]
  /\ closing = Nobody
  /\ reaping = Nobody

(* Config::Kernel::live().                                                  *)
Live(k) == kern[k].proc \in {"running", "dying"}

(* Some handler holds the shared pointer, so that lock() succeeds.          *)
(* Defective: only cerr's does.                                             *)
HeldByErr(r) == r.err

Held(r) == r.err \/ r.op # "none"

(* The I/O thread is free to run a handler.                                 *)
Free == closing = Nobody

(* A kernel's handler leaves r and the outcomes f.  If it was the last one, *)
(* the object is destroyed, and with it the handles in its queue.           *)
Leave(k, r, f) ==
  /\ kern' = [kern EXCEPT ![k] = IF Held(r) THEN r ELSE [r EXCEPT !.queue = <<>>]]
  /\ req' = [q \in Requests |->
       IF ~Held(r) /\ q \in Range(r.queue) THEN "closed" ELSE f[q]]
-----------------------------------------------------------------------------
(* Requests of clients, on the I/O thread.                                  *)

(* The event stream is answered; its Impl is created.  A window that was    *)
(* closed may be opened again, as a new one.                                *)
OpenWindow(w) ==
  /\ Free
  /\ win[w] = "closed"
  /\ win' = [win EXCEPT ![w] = "open"]
  /\ UNCHANGED <<known, kern, req, reply, closing, reaping>>

(* GET /k/:windowId: a process is started and its standard error read.      *)
CreateKernel(w, k) ==
  /\ Free
  /\ win[w] = "open"
  /\ kern[k].proc = "none"
  /\ kern' = [kern EXCEPT ![k].proc = "running", ![k].err = TRUE]
  /\ known' = [known EXCEPT ![k] = w]
  /\ UNCHANGED <<win, req, reply, closing, reaping>>

(* DELETE /k/:windowId: the process is terminated and waited for.           *)
Terminated(r) == [r EXCEPT !.proc = "exited", !.inbox = <<>>, !.run = Nobody]

KillKernel(w, k) ==
  /\ Free
  /\ win[w] = "open"
  /\ known[k] = w
  /\ known' = [known EXCEPT ![k] = Nobody]
  /\ kern' = [kern EXCEPT ![k] = IF Held(@) THEN Terminated(@) ELSE @]
  /\ UNCHANGED <<win, req, reply, closing, reaping>>

(* Kernel::post(handle): the request starts the exchange if it is the only  *)
(* one.  Defective: if it is the second; whenever the child is not being    *)
(* written to.                                                              *)
PostedLate(k, r) ==
  [kern[k] EXCEPT !.queue = Append(@, r),
                  !.op = IF Len(kern[k].queue) = 1 THEN "write" ELSE @]

PostedEagerly(k, r) ==
  [kern[k] EXCEPT !.queue = Append(@, r), !.op = IF @ = "sent" THEN @ ELSE "write"]

Posted(k, r) ==
  [kern[k] EXCEPT !.queue = Append(@, r),
                  !.op = IF Len(kern[k].queue) = 0 THEN "write" ELSE @]

(* Impl::jsexec finds the kernel, listed and not destroyed.                 *)
Found(w, k) == win[w] = "open" /\ known[k] = w /\ Held(kern[k])

(* POST /?wid&pid and PUT /k/:windowId.  A request for a kernel that is no  *)
(* longer live is dropped; one for a kernel that is not found is evaluated  *)
(* by the server, except that a PUT is never answered.                      *)
Exec(r, w, k) ==
  /\ Free
  /\ req[r] = "new"
  /\ \/ /\ Found(w, k) /\ Live(k)
        /\ kern' = [kern EXCEPT ![k] = Posted(k, r)]
        /\ req' = [req EXCEPT ![r] = "waiting"]
     \/ /\ Found(w, k) /\ ~Live(k)
        /\ kern' = kern
        /\ req' = [req EXCEPT ![r] = "closed"]
     \/ /\ ~Found(w, k)
        /\ kern' = kern
        /\ req' = [req EXCEPT ![r] = IF r \in Resets THEN "closed" ELSE "server"]
  /\ UNCHANGED <<win, known, reply, closing, reaping>>
-----------------------------------------------------------------------------
(* The handlers of a kernel's pipes, on the I/O thread.                     *)

(* post(): the front request is written; its handler starts cout().         *)
Deliver(k) ==
  /\ Free
  /\ kern[k].op = "write"
  /\ kern[k].proc = "running" /\ kern[k].cin
  /\ kern' = [kern EXCEPT ![k].op = "sent", ![k].inbox = Append(@, Head(kern[k].queue))]
  /\ UNCHANGED <<win, known, req, reply, closing, reaping>>

Sent(k) ==
  /\ Free
  /\ kern[k].op = "sent"
  /\ kern' = [kern EXCEPT ![k].op = "read"]
  /\ UNCHANGED <<win, known, req, reply, closing, reaping>>

(* The write failed: it is logged, and the front request stays in front.    *)
SendFails(k) ==
  /\ Free
  /\ kern[k].op = "write"
  /\ kern[k].proc # "running" \/ ~kern[k].cin
  /\ Leave(k, [kern[k] EXCEPT !.op = "none"], req)
  /\ UNCHANGED <<win, known, reply, closing, reaping>>

(* cout(): the front request is finished, and the next one is written if    *)
(* the child is live.  Defective: the next one waits for another request;   *)
(* the front request is not popped.                                         *)
PoppedIdle(k) ==
  [kern[k] EXCEPT !.queue = Tail(@), !.op = "none"]

PoppedNever(k) ==
  [kern[k] EXCEPT !.op = IF Live(k) THEN "write" ELSE "none"]

Popped(k) ==
  [kern[k] EXCEPT !.queue = Tail(@),
                  !.op = IF Len(kern[k].queue) > 1 /\ Live(k) THEN "write" ELSE "none"]

Answer(k) ==
  /\ Free
  /\ kern[k].op = "read"
  /\ kern[k].outbox # <<>>
  /\ LET front == Head(kern[k].queue)
     IN  /\ Leave(k, [Popped(k) EXCEPT !.outbox = Tail(@)], [req EXCEPT ![front] = "answered"])
         /\ reply' = [reply EXCEPT ![front] = Head(kern[k].outbox)]
  /\ UNCHANGED <<win, known, closing, reaping>>

ReadFails(k) ==
  /\ Free
  /\ kern[k].op = "read"
  /\ kern[k].outbox = <<>>
  /\ kern[k].proc # "running"
  /\ Leave(k, Popped(k), [req EXCEPT ![Head(kern[k].queue)] = "empty"])
  /\ UNCHANGED <<win, known, reply, closing, reaping>>

(* cerr(): the child's end is closed, and nothing is read any more.         *)
ErrEnds(k) ==
  /\ Free
  /\ kern[k].err
  /\ kern[k].proc # "running"
  /\ Leave(k, [kern[k] EXCEPT !.err = FALSE], req)
  /\ UNCHANGED <<win, known, reply, closing, reaping>>
-----------------------------------------------------------------------------
(* The life of a window, on the I/O thread.                                 *)

(* Every five seconds: kernels whose object is gone are no longer listed.   *)
Prune(w) ==
  /\ Free
  /\ win[w] = "open"
  /\ known' = [k \in Kernels |-> IF known[k] = w /\ ~Held(kern[k]) THEN Nobody ELSE known[k]]
  /\ UNCHANGED <<win, kern, req, reply, closing, reaping>>

(* An event cannot be sent: the Impl is destroyed.                          *)
LoseWindow(w) ==
  /\ Free
  /\ win[w] = "open"
  /\ win' = [win EXCEPT ![w] = "closed"]
  /\ closing' = w
  /\ UNCHANGED <<known, kern, req, reply, reaping>>

(* ~Impl: for one kernel after another, cin is closed and the process       *)
(* waited for.                                                              *)
CloseKernel(k) ==
  /\ ~Free
  /\ reaping = Nobody
  /\ known[k] = closing
  /\ known' = [known EXCEPT ![k] = Nobody]
  /\ IF Held(kern[k])
     THEN kern' = [kern EXCEPT ![k].cin = FALSE] /\ reaping' = k
     ELSE UNCHANGED <<kern, reaping>>
  /\ UNCHANGED <<win, req, reply, closing>>

Reap ==
  /\ reaping # Nobody
  /\ kern[reaping].proc = "exited"
  /\ reaping' = Nobody
  /\ UNCHANGED <<win, known, kern, req, reply, closing>>

Closed ==
  /\ ~Free
  /\ reaping = Nobody
  /\ \A k \in Kernels : known[k] # closing
  /\ closing' = Nobody
  /\ UNCHANGED <<win, known, kern, req, reply, reaping>>
-----------------------------------------------------------------------------
(* A kernel process: its I/O thread reads requests and posts them to a pool *)
(* of one thread, which evaluates them and writes the responses.            *)

Begin(k) ==
  /\ kern[k].proc = "running"
  /\ kern[k].run = Nobody
  /\ kern[k].inbox # <<>>
  /\ kern' = [kern EXCEPT ![k].run = Head(kern[k].inbox), ![k].inbox = Tail(@)]
  /\ UNCHANGED <<win, known, req, reply, closing, reaping>>

(* A response that does not fit into the pipe is written while it is read.  *)
Respond(k) ==
  /\ kern[k].proc = "running"
  /\ kern[k].run \in Requests \ Endless
  /\ kern[k].run \in Big => Free /\ kern[k].op = "read"
  /\ kern' = [kern EXCEPT ![k].outbox = Append(@, kern[k].run), ![k].run = Nobody]
  /\ UNCHANGED <<win, known, req, reply, closing, reaping>>

(* The end of its standard input: what was read is evaluated, then main     *)
(* returns.                                                                 *)
Stops(k) ==
  /\ kern[k].proc = "running"
  /\ ~kern[k].cin
  /\ kern[k].run = Nobody
  /\ kern[k].inbox = <<>>
  /\ kern' = [kern EXCEPT ![k].proc = "dying"]
  /\ UNCHANGED <<win, known, req, reply, closing, reaping>>

(* The process may die at any time, whatever it is doing.                   *)
Crash(k) ==
  /\ kern[k].proc = "running"
  /\ kern' = [kern EXCEPT ![k].proc = "dying", ![k].inbox = <<>>, ![k].run = Nobody]
  /\ UNCHANGED <<win, known, req, reply, closing, reaping>>

Exit(k) ==
  /\ kern[k].proc = "dying"
  /\ kern' = [kern EXCEPT ![k].proc = "exited"]
  /\ UNCHANGED <<win, known, req, reply, closing, reaping>>
-----------------------------------------------------------------------------
Client ==
  \/ \E w \in Windows : OpenWindow(w) \/ LoseWindow(w)
  \/ \E w \in Windows, k \in Kernels : CreateKernel(w, k) \/ KillKernel(w, k)
  \/ \E r \in Requests, w \in Windows, k \in Kernels : Exec(r, w, k)

Io(k) ==
  Deliver(k) \/ Sent(k) \/ SendFails(k) \/ Answer(k) \/ ReadFails(k) \/ ErrEnds(k)

Closing == Reap \/ Closed \/ \E k \in Kernels : CloseKernel(k)

Child(k) == Begin(k) \/ Respond(k) \/ Stops(k) \/ Exit(k)

Next ==
  \/ Client \/ Closing
  \/ \E w \in Windows : Prune(w)
  \/ \E k \in Kernels : Io(k) \/ Child(k) \/ Crash(k)

Spec == Init /\ [][Next]_vars

(* The children run.  The I/O thread runs a handler that is queued although *)
(* windows keep being lost and it waits for children in between, and so     *)
(* reads what a child writes.  Clients need not do anything, and no process *)
(* need crash.                                                              *)
Fairness ==
  /\ WF_vars(Closing)
  /\ \A k \in Kernels : WF_vars(Child(k)) /\ SF_vars(Respond(k)) /\ SF_vars(Io(k))

LiveSpec == Spec /\ Fairness
-----------------------------------------------------------------------------
(* Every variable has values of its type.                                   *)
TypeOK ==
  /\ win \in [Windows -> {"open", "closed"}]
  /\ known \in [Kernels -> Windows \cup {Nobody}]
  /\ kern \in [Kernels -> Kernel]
  /\ req \in [Requests -> {"new", "waiting"} \cup Outcomes]
  /\ reply \in [Requests -> Requests \cup {Nobody}]
  /\ closing \in Windows \cup {Nobody}
  /\ reaping \in Kernels \cup {Nobody}

(* A client is sent the result of its own request, never that of another    *)
(* request to the same kernel.                                              *)
OwnAnswer ==
  \A r \in Requests : req[r] = "answered" => reply[r] = r

(* As long as the process runs, the front of the queue is being exchanged   *)
(* with it: a request never waits for the next request to come.             *)
NotStuck ==
  \A k \in Kernels : kern[k].proc = "running" /\ kern[k].queue # <<>> => kern[k].op # "none"

(* A handle is finished, closed or given to the server once: what has       *)
(* become of a request does not change, and no client is written to twice.  *)
FinishedOnce ==
  [][\A r \in Requests : req[r] \in Outcomes => req'[r] = req[r] /\ reply'[r] = reply[r]]_vars

(* The kernels, their pipes and processes keep the promise of               *)
(* KernelService: what is finished is finished in its order and once, with  *)
(* its own result, and a kernel whose last handler has run leaves nobody    *)
(* waiting and takes nothing any more, until its number is given again.     *)
Life(r) == IF r.proc = "none" THEN "unborn" ELSE IF Held(r) THEN "serving" ELSE "gone"

Service == INSTANCE KernelService WITH
  life   <- [k \in Kernels |-> Life(kern[k])],
  line   <- [k \in Kernels |-> kern[k].queue],
  fate   <- req,
  result <- reply

ServiceSpec == Service!Spec

(* Which requests are with the child: none, or the front request, at one    *)
(* place, unless the process is gone.                                       *)
Nothing(r) == r.inbox = <<>> /\ r.run = Nobody /\ r.outbox = <<>>

Front(r) ==
  LET f == Head(r.queue)
  IN  \/ r.proc = "running" /\ r.inbox = <<f>> /\ r.run = Nobody /\ r.outbox = <<>>
      \/ r.proc = "running" /\ r.inbox = <<>> /\ r.run = f /\ r.outbox = <<>>
      \/ r.inbox = <<>> /\ r.run = Nobody /\ r.outbox = <<f>>
      \/ Nothing(r) /\ r.proc # "running"

Exchange(r) ==
  \/ r.op = "none" /\ Nothing(r)
  \/ r.op = "write" /\ r.queue # <<>> /\ Nothing(r)
  \/ r.op \in {"sent", "read"} /\ r.queue # <<>> /\ Front(r)

(* A request is in one place of one queue exactly while it waits.           *)
Queued ==
  /\ \A k \in Kernels : \A i \in 1 .. Len(kern[k].queue) :
       /\ req[kern[k].queue[i]] = "waiting"
       /\ \A l \in Kernels : \A j \in 1 .. Len(kern[l].queue) :
            kern[k].queue[i] = kern[l].queue[j] => k = l /\ i = j
  /\ \A r \in Requests : req[r] = "waiting" =>
       \E k \in Kernels : r \in Range(kern[k].queue)

(* No handler runs before a child whose standard input was closed is gone.  *)
Awaited ==
  /\ reaping # Nobody => ~Free
  /\ \A k \in Kernels : ~kern[k].cin /\ kern[k].proc # "exited" => reaping = k

(* The inductive invariant: what is with the child is the front request,    *)
(* the object lives as long as its process, and it is not destroyed with a  *)
(* request in its queue.                                                    *)
KInv ==
  /\ TypeOK
  /\ \A k \in Kernels :
       /\ Exchange(kern[k])
       /\ kern[k].proc = "running" => kern[k].err
       /\ kern[k].proc = "none" => ~Held(kern[k])
       /\ ~Held(kern[k]) => kern[k].queue = <<>>
  /\ Awaited
  /\ Queued
  /\ OwnAnswer
  /\ NotStuck

(* The I/O thread waits for the end of a child that is writing a response:  *)
(* only the I/O thread would read it.                                       *)
Clogged == reaping # Nobody /\ kern[reaping].run \in Big

(* Every request to a kernel is finished: answered, or its connection       *)
(* closed, also when the child dies, is killed, or its window is lost       *)
(* (Kernel::post, cout and the destructor of Impl).  Except that a window   *)
(* may be lost while a child of it writes a response that the pipe cannot   *)
(* hold: then the I/O thread waits for the child, and the child for the I/O *)
(* thread, for ever (window.cpp:60-66, 182-192), and nobody is served.      *)
Served ==
  \A r \in Requests : <>[]Clogged \/ (req[r] = "waiting" ~> req[r] # "waiting")

(* The request is with a kernel of an open window, and shares it with none  *)
(* whose evaluation never ends.                                             *)
Elsewhere(r) ==
  \E k \in Kernels :
    /\ r \in Range(kern[k].queue)
    /\ Range(kern[k].queue) \cap Endless = {}
    /\ known[k] # Nobody /\ win[known[k]] = "open"

(* Pending work is isolated from other open notebooks: a request to the     *)
(* kernel of an open window does not wait for ever because of what another  *)
(* kernel evaluates.                                                        *)
Isolated ==
  \A r \in Requests : req[r] = "waiting" /\ Elsewhere(r) ~> req[r] # "waiting" \/ ~Elsewhere(r)
=============================================================================

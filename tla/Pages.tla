------------------------------- MODULE Pages --------------------------------
(***************************************************************************)
(* A page of the browser interface as a client of the kernels: the object  *)
(* window.connection of lib/notojs/bundle/editor.js and what NJBook does   *)
(* with it, composed with the server of Kernels.                           *)
(*                                                                         *)
(* The page reads one event stream, of which the server makes a window.    *)
(* The stream says the window's name, and every five seconds which kernels *)
(* the window lists.  For each book (an open notebook) the page asks for a *)
(* kernel; a book whose kernel is not listed is given another one, and a   *)
(* kernel that is listed and no book's is deleted.  Requests and events    *)
(* are on different connections, in any order.  The names of windows and   *)
(* kernels are used again once nothing knows them.                         *)
(***************************************************************************)
EXTENDS Kernels, TLC

CONSTANTS
  Books,        \* the notebooks that may be opened, each once
  MaxTroubles   \* bound: the processes that die, requests and streams that break, kernels
                \* restarted by users, and events sent while a request is under way

VARIABLES
  loaded,   \* whether there is a page
  opened,   \* what has become of a book: "not yet", "open", "closed"
  uuid,     \* the page's #uuid
  stream,   \* its EventSource: the window it reads from, and the event on its way
  books,    \* its #books: the kernel of a book
  menu,     \* the books whose menu lets their kernel be restarted
  gets,     \* how often a kernel of a window has been asked for a book
  got,      \* the answers on their way back
  dels,     \* the kernels to be deleted, and the book that is restarted
  acks,     \* restarted books whose deletion is answered
  lost,     \* ghost: the books a request for which was lost
  used      \* ghost: how much of the bound is used

pageVars == <<loaded, opened, uuid, stream, books, menu, gets, got, dels, acks, lost, used>>
callVars == <<gets, got, dels, acks>>

NoEvent == [kind |-> "none", live |-> {}]

(* The page has one book when it is loaded.                                 *)
PageStarts(first, others, troubles) ==
  /\ opened = [b \in Books |-> IF b = first THEN "open" ELSE others]
  /\ uuid = Nobody
  /\ stream = [win |-> Nobody, event |-> NoEvent]
  /\ books = first :> Nobody /\ menu = {}
  /\ gets = [b \in Books |-> [w \in Windows |-> 0]]
  /\ got = {} /\ dels = {} /\ acks = {} /\ lost = {}
  /\ used = troubles

Trouble == used < MaxTroubles /\ used' = used + 1

(* No request of the page is under way.                                     *)
Quiet ==
  /\ \A b \in Books, w \in Windows : gets[b][w] = 0
  /\ got = {} /\ dels = {} /\ acks = {}

(* Nothing on the way names it.                                             *)
WindowForgotten(w) ==
  /\ w \notin {uuid, stream.win}
  /\ \A b \in Books : gets[b][w] = 0
  /\ \A d \in dels : d.win # w

KernelForgotten(k) ==
  /\ known[k] = Nobody /\ k \notin Range(books) \cup stream.event.live
  /\ \A a \in got : a.kernel # k
  /\ \A d \in dels : d.kernel # k
-----------------------------------------------------------------------------
(* What the page does.                                                      *)

(* add(book) for some books.                                                *)
Asked(w, S) == [b \in Books |-> IF b \in S THEN [gets[b] EXCEPT ![w] = @ + 1] ELSE gets[b]]

With(b, k) == (b :> k) @@ books
Without(b) == Restrict(books, DOMAIN books \ {b})

Add(b, had) ==
  IF uuid = Nobody
    THEN books' = (b :> Nobody) @@ had /\ UNCHANGED gets
    ELSE books' = had /\ gets' = Asked(uuid, {b})

(* NJBook's constructor.                                                    *)
OpenBook(b) ==
  /\ loaded /\ opened[b] = "not yet"
  /\ opened' = [opened EXCEPT ![b] = "open"]
  /\ Add(b, books)
  /\ UNCHANGED <<vars, loaded, uuid, stream, menu, got, dels, acks, lost, used>>

(* del(book): it is forgotten, and its kernel, if it has one, deleted.      *)
Del(b, then) ==
  /\ books' = Without(b)
  /\ dels' = dels \cup
       {[win |-> uuid, kernel |-> IF b \in DOMAIN books THEN books[b] ELSE Nobody, then |-> then]}

(* Half a second after it was removed from the page.                        *)
CloseBook(b) ==
  /\ loaded /\ opened[b] = "open"
  /\ opened' = [opened EXCEPT ![b] = "closed"]
  /\ Del(b, Nobody)
  /\ menu' = menu \ {b}
  /\ UNCHANGED <<vars, loaded, uuid, stream, gets, got, acks, lost, used>>

(* restart('kernel'): what is deleted is asked for again when it is gone.   *)
Restart(b) ==
  /\ opened[b] = "open" /\ b \in menu
  /\ Trouble
  /\ Del(b, b)
  /\ menu' = menu \ {b}
  /\ UNCHANGED <<vars, loaded, opened, uuid, stream, gets, got, acks, lost>>

Restarted(b) ==
  /\ b \in acks
  /\ acks' = acks \ {b}
  /\ Add(b, books)
  /\ UNCHANGED <<vars, loaded, opened, uuid, stream, menu, got, dels, lost, used>>

(* The answer to add(): the book has the kernel, or none.                   *)
OnGot(a) ==
  /\ a \in got
  /\ got' = got \ {a}
  /\ books' = With(a.book, a.kernel)
  /\ menu' = IF a.kernel # Nobody /\ opened[a.book] = "open" THEN menu \cup {a.book} ELSE menu
  /\ UNCHANGED <<vars, loaded, opened, uuid, stream, gets, dels, acks, lost, used>>

(* The event 'uuid', the first of a stream.                                 *)
OnUuid ==
  /\ stream.event.kind = "uuid"
  /\ uuid' = stream.win
  /\ gets' = Asked(stream.win, DOMAIN books)
  /\ stream' = [stream EXCEPT !.event = NoEvent]
  /\ UNCHANGED <<vars, loaded, opened, books, menu, got, dels, acks, lost, used>>

(* The event 'pids'.  Defective: kernels of no book are left alone.         *)
SurplusKept(live) == {}

Surplus(live) == {[win |-> uuid, kernel |-> k, then |-> Nobody] : k \in live \ Range(books)}

OnPids ==
  /\ stream.event.kind = "pids"
  /\ LET live == stream.event.live
         gone == {b \in DOMAIN books : books[b] \notin live}
     IN  /\ books' = [b \in DOMAIN books |-> IF b \in gone THEN Nobody ELSE books[b]]
         /\ gets' = Asked(uuid, gone)
         /\ menu' = menu \ gone
         /\ dels' = dels \cup Surplus(live)
  /\ stream' = [stream EXCEPT !.event = NoEvent]
  /\ UNCHANGED <<vars, loaded, opened, uuid, got, acks, lost, used>>

(* The event 'error', or no event for ten seconds: #notify, and another     *)
(* EventSource two and a half seconds later.                                *)
Dropped ==
  /\ stream' = [win |-> Nobody, event |-> NoEvent]
  /\ uuid' = Nobody
  /\ IF uuid # Nobody
     THEN books' = [b \in DOMAIN books |-> Nobody] /\ menu' = menu \ DOMAIN books
     ELSE UNCHANGED <<books, menu>>
  /\ UNCHANGED <<vars, loaded, opened, gets, got, dels, acks, lost>>

StreamBreaks ==
  /\ stream.win # Nobody /\ win[stream.win] = "open"
  /\ Trouble
  /\ Dropped

StreamEnds ==
  /\ stream.win # Nobody /\ win[stream.win] # "open"
  /\ Dropped
  /\ UNCHANGED used

(* fetch() is rejected: the request was not made, or its answer is lost.    *)
GetLost(b) ==
  /\ Trouble
  /\ \/ \E w \in Windows :
          /\ gets[b][w] > 0
          /\ gets' = [gets EXCEPT ![b][w] = @ - 1]
          /\ UNCHANGED got
     \/ \E a \in got : a.book = b /\ got' = got \ {a} /\ UNCHANGED gets
  /\ lost' = lost \cup {b}
  /\ UNCHANGED <<vars, loaded, opened, uuid, stream, books, menu, dels, acks>>

DelLost(d) ==
  /\ d \in dels
  /\ Trouble
  /\ dels' = dels \ {d}
  /\ lost' = IF d.then = Nobody THEN lost ELSE lost \cup {d.then}
  /\ UNCHANGED <<vars, loaded, opened, uuid, stream, books, menu, gets, got, acks>>

AckLost(b) ==
  /\ b \in acks
  /\ Trouble
  /\ acks' = acks \ {b} /\ lost' = lost \cup {b}
  /\ UNCHANGED <<vars, loaded, opened, uuid, stream, books, menu, gets, got, dels>>
-----------------------------------------------------------------------------
(* What the server does for the page.                                       *)

Unopened == {w \in Windows : win[w] = "closed" /\ WindowForgotten(w)}

Connect ==
  /\ loaded /\ stream.win = Nobody
  /\ Unopened # {}
  /\ LET w == CHOOSE w \in Unopened : TRUE
     IN  OpenWindow(w) /\ stream' = [win |-> w, event |-> [kind |-> "uuid", live |-> {}]]
  /\ UNCHANGED <<loaded, opened, uuid, books, menu, callVars, lost, used>>

(* GET /k/:windowId, of which the answer is a kernel, 404, or 500 when no   *)
(* process can be started.  The new process may have the number of one that *)
(* is dead and forgotten.                                                   *)
Unused ==
  {k \in Kernels : kern[k].proc \in {"none", "exited"} /\ ~Held(kern[k]) /\ KernelForgotten(k)}

Started(w, k) ==
  /\ kern' = [kern EXCEPT ![k] = [Unborn EXCEPT !.proc = "running", !.err = TRUE]]
  /\ known' = [known EXCEPT ![k] = w]
  /\ UNCHANGED <<win, req, reply, closing, reaping>>

HandleGet(b, w) ==
  /\ Free
  /\ gets[b][w] > 0
  /\ gets' = [gets EXCEPT ![b][w] = @ - 1]
  /\ IF win[w] = "open" /\ Unused # {}
     THEN LET k == CHOOSE k \in Unused : TRUE
          IN  Started(w, k) /\ got' = got \cup {[book |-> b, kernel |-> k]}
     ELSE UNCHANGED vars /\ got' = got \cup {[book |-> b, kernel |-> Nobody]}
  /\ UNCHANGED <<loaded, opened, uuid, stream, books, menu, dels, acks, lost, used>>

(* DELETE /k/:windowId.                                                     *)
HandleDel(d) ==
  /\ Free
  /\ d \in dels
  /\ dels' = dels \ {d}
  /\ IF d.win # Nobody /\ d.kernel # Nobody /\ win[d.win] = "open" /\ known[d.kernel] = d.win
     THEN KillKernel(d.win, d.kernel)
     ELSE UNCHANGED vars
  /\ acks' = IF d.then = Nobody THEN acks ELSE acks \cup {d.then}
  /\ UNCHANGED <<loaded, opened, uuid, stream, books, menu, gets, got, lost, used>>

(* Every five seconds, unless the last event is still on its way: what is   *)
(* left after the kernels that are gone are unlisted.                       *)
SendPids ==
  /\ stream.win # Nobody /\ stream.event = NoEvent
  /\ Prune(stream.win)
  /\ stream' = [stream EXCEPT !.event =
       [kind |-> "pids", live |-> {k \in Kernels : known'[k] = stream.win}]]
  /\ IF Quiet THEN UNCHANGED used ELSE Trouble
  /\ UNCHANGED <<loaded, opened, uuid, books, menu, callVars, lost>>

(* A window whose page reads it no more is lost with the next event.        *)
Deserted(w) == loaded /\ w # stream.win /\ LoseWindow(w) /\ UNCHANGED pageVars

(* One that the page still reads: its connection breaks.                    *)
Lost ==
  /\ stream.win # Nobody
  /\ Trouble
  /\ LoseWindow(stream.win)
  /\ UNCHANGED <<loaded, opened, uuid, stream, books, menu, callVars, lost>>

Dies(k) ==
  /\ Trouble
  /\ Crash(k)
  /\ UNCHANGED <<loaded, opened, uuid, stream, books, menu, callVars, lost>>

Kernelling ==
  /\ Closing \/ \E k \in Kernels : Io(k) \/ Child(k)
  /\ UNCHANGED pageVars
-----------------------------------------------------------------------------
User == \E b \in Books : OpenBook(b) \/ CloseBook(b) \/ Restart(b)

Faults ==
  \/ StreamBreaks \/ Lost
  \/ \E b \in Books : GetLost(b) \/ AckLost(b)
  \/ \E d \in dels : DelLost(d)
  \/ \E k \in Kernels : Dies(k)

Page ==
  \/ OnUuid \/ OnPids \/ StreamEnds
  \/ \E a \in got : OnGot(a)
  \/ \E b \in Books : Restarted(b)

Server ==
  \/ \E b \in Books, w \in Windows : HandleGet(b, w)
  \/ \E d \in dels : HandleDel(d)

PageNext ==
  \/ User \/ Faults \/ Page \/ Server \/ SendPids \/ Kernelling
  \/ Connect \/ \E w \in Windows : Deserted(w)

(* The page handles what comes, the server answers, sends its events and    *)
(* notices a stream that is not read.  Users and faults need not happen.    *)
PageFairness ==
  /\ WF_<<vars, pageVars>>(Page)
  /\ WF_<<vars, pageVars>>(Server)
  /\ WF_<<vars, pageVars>>(SendPids)
  /\ WF_<<vars, pageVars>>(Connect)
  /\ \A w \in Windows : WF_<<vars, pageVars>>(Deserted(w))
-----------------------------------------------------------------------------
(* The book has a kernel that runs, of the window the page reads.           *)
Serving(b) ==
  /\ b \in DOMAIN books /\ books[b] \in Kernels
  /\ known[books[b]] = uuid /\ uuid = stream.win /\ kern[books[b]].proc = "running"

(* Every book the page knows has a running kernel of its own, so has every  *)
(* open book unless a request for it was lost, and no kernel is left that   *)
(* is no book's.                                                            *)
Settled ==
  /\ \A b \in DOMAIN books : Serving(b)
  /\ \A b, c \in DOMAIN books : books[b] = books[c] => b = c
  /\ \A b \in Books \ lost : opened[b] = "open" => Serving(b)
  /\ \A k \in Kernels : known[k] # Nobody => k \in Range(books)
=============================================================================

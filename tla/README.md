# NotoJS: models, checks and proofs

NotoJS is a notebook server: a C++ program that embeds QuickJS, serves notebooks (multipart files)
to browsers, evaluates them in child processes (kernels), in its own threads, on timers and in
plugins, and gives scripts an asynchronous API (fetch, native tasks, databases). This directory
holds TLA+ models of the parts whose difficulty is the order in which things happen, the
configurations that check them with TLC, and theorems about them checked by TLAPS.

Paths below are relative to `src/lib/notojs/` unless they say otherwise.

## 1. Inventory

### Threads and processes

| thread | runs | shares |
|---|---|---|
| main | `io_context`: HTTP, pipes of kernels, connections of scripts, all timers of asio | everything below |
| `threads.first` | a pool of script threads, one QuickJS context each | `Worker::mu`, `queue`, the cache of bytecode |
| sync pool | steps of native tasks, lookups of cached responses | `Connection::result`, `Task::thread` |
| disk | one thread that reads and writes notebooks and logs | files, versions |
| timer | `Timers::run` | `versions`, `stop` |
| watcher | `ext/inotify` | `watching`, `watches` |
| kernel process | an I/O thread and a pool of one | two pipes and standard error with the server |

### Components

**Asynchronous runtime of scripts** (`global.cpp` `Worker`, `Request_`, `Task`; `sdk/engine.hpp`).
State: the queue of connections, each with a result, a buffer, a timer and what is left of its
timeout; the running tasks; a mutex and a condition variable. Operations: `enqueue`, `send`, the
handlers of resolve, connect, handshake, write and read, the timer's callback, `notify`, `wait`,
`Task::run`, `Task::end`. Hard: three kinds of threads meet without a common lock; timers race
handlers; redirects restart a request; rounding. Correct when no wakeup is lost, nothing is erased
in use, each operation is settled once, no request times out early or never.

**Windows and kernels** (`window.cpp`, the pipes in `config.hpp`, the loop of a kernel in
`server.cpp`, `Router::jsexec`). State: windows (event streams), the kernels created for each, the
queue of each kernel, its process and pipes. Operations: open and lose a window, create and kill a
kernel, execute, the handlers of the pipes, pruning. Hard: children die at any time; object
lifetime is held by outstanding handlers; the I/O thread waits for children. Correct when answers
are not mixed up, no queue stands still, each request is finished once, and one notebook does not
stop another.

**Notebook folder** (`folder.cpp`). State: files, three kinds of indexes, the temporary files of
evaluations. Operations: load, save, move, remove, temporary files. Hard: a crash between two
renames, a failure halfway, telling timers and plugins. Correct when a notebook is never lost and
who depends on it is told.

**Timers** (`timers.cpp`), **plugins** (`plugin.cpp`), **bytecode cache** (`cacher.cpp`). State:
schedules, the version each knows of its notebook, the bytecode compiled from it. Operations:
`updated`, `removed`, `run`, `end`, `cache`. Hard: versions and texts are read at different
moments by different threads; shutdown joins. Correct when what runs is the newest text,
eventually.

**File watcher** (`ext/inotify/inotify.cpp`). State: watched directories, a queue of events.
Operations: `begin`, the watcher's loop, `end`. Hard: files vanish between event and look; the
flag that ends the thread. Correct when a change is reported unless the watcher was ended, and
ending it ends it.

**Server and shutdown** (`server.cpp`). Operations: accept, signal, the order of `end()`. Hard: it
joins threads that need the thread it runs on.

**Router, handles** (`router.cpp`, `handle.cpp`): dispatch of requests; a handle is finished once,
on the I/O thread. Modelled where a request changes something: kernels, notebooks, cells, storage.

**Engine** (`engine.cpp`, `module.cpp`): evaluation, the loader of modules, `require`. State: the
bytecode each thread keeps, the modules of its context, the package sources in the HTTP data.
Hard: a library's file is stamped before, and read after, somebody writes it; a source arrives
after its package was dropped. Correct when what is run is what the name stood for.

**Databases and storage** (`notodb.cpp`, `module/db.cpp`). State: one LMDB environment that the
server and its kernels share, transactions that nest with the functions of scripts, a file made
under the lock. Operations: `transact`, iteration, `Storage`, storage requests, `DB::data`. Hard:
functions throw halfway and processes die; keys are compared as bytes. Correct when who writes
holds the lock, what is changed together is seen together, and a walk skips nothing.

**Document object model** (`module/dom/`). State: a tree in one of two parsers' memories, and
objects, collections, style sheets and computed styles that are caches of it. Operations: the
methods of Node, Element, Attr, classList, CSSStyleSheet, style, table, select, form. One script,
one thread: what is hard is the sequence of calls, where each cache must learn of every change,
and calls that must change nothing when they throw.

**JavaScript API** (`global.cpp`): TextDecoder, Blob and FormData, URLs and their parameters,
Headers, requests and responses. **Parsers** (`parser/`): multipart bodies, searches, the cells of
a notebook. Correct when what was put in comes out.

**Script objects** (`src/sdk/bridge.hpp`): which overload a call reaches and with what, and native
values that several objects show. Correct when a function gets what it declares and no object
outlives its value.

**Native modules** (`module/fs.cpp` and others), **standard plugins** (zip, gzip): tasks that read
and write files in pieces while the script goes on. Correct when pieces are not lost, doubled or
mixed, and what is read-only stays.

**Browser interface** (`bundle/editor.js`, `bundle/window.js`): a page with its open books, its
connection to a window and the kernels of the books; everything it asks for is answered later, in
any order, or not at all. Correct when each book ends up with one kernel, and a book that is not
marked as changed is in its file.

The other components (errors, log, configuration; command line and documentation tools) are
sequential conversions; PROJECT.json lists all, with what is left out of each.

### Interactions

Browsers talk to windows over an event stream and to kernels through the router; a kernel talks to
the server over two pipes, one request at a time; scripts talk to the runtime through promises;
the folder tells plugins and timers of versions, which the cache compares; every connection of
every script completes on the one I/O thread, which also owns the windows. Kernels and server meet
in the LMDB environment, which knows only one writer. A page saves books through the router, and
what it saves is what timers, plugins, imports and applications run.

## 2. Modules

| module | contents |
|---|---|
| `AsyncOps` | what the runtime promises: operations are issued, completed, settled, and waiting ends when none is left |
| `Worker` | the runtime: script thread, I/O thread, pool, timers; its properties and the refinement mapping |
| `WorkerProofs` | type correctness, the inductive invariant and what follows from it; `Worker` implements `AsyncOps` |
| `KernelService` | what kernels promise their clients: requests are finished in their order, each once and with its own result |
| `Kernels`, `KernelsProofs` | windows, kernels and their processes; that they implement `KernelService` |
| `Pages` | a page as a client of `Kernels` |
| `Folder` | the files of notebooks and the disk thread, with crashes |
| `Notebooks`, `NotebooksProofs` | timers, plugin, application and watcher, which run what the folder has; the proofs about `Folder` too |
| `Modules`, `ModulesProofs` | imports of libraries and packages |
| `Databases`, `DatabasesProofs` | transactions, iteration, storage requests, the file made under the lock |
| `Tabs`, `TabsProofs` | the books of a page and the files of the server |
| `Cells` | a notebook between its page and its file |
| `Encoding` | TextDecoder and TextEncoder |
| `Paths`, `PathsProofs` | `noto:fs`: mounts, copies, reading and writing in pieces |
| `Bodies`, `Queries`, `Messages` | forms and blobs; URLs and their parameters; headers, requests and responses |
| `Calls`, `Wrappers` | which native function a call reaches; the objects that show native values |
| `Archives` | the tasks of zip and gzip |
| `Dom`, `DomProofs` | the tree of a document, under scripts' calls |
| `Attributes`, `Styles`, `Elements`, `Declarations`, `Outline` | attributes and Attr objects; style sheets and computed styles; tables, selects and forms; the style attribute; the segments of SVG paths |
| `MCWorker`, `MCSingle`, `MCPages`, `MCNotebooks`, `MCTabs`, `MCDatabases` | instances and symmetry for TLC |
| `MCDom`, `MCStorage` | several modules with one script or page each, one of which is active |

`Notebooks` extends `Folder`, `Pages` extends `Kernels`; `Worker` implements `AsyncOps`, `Kernels`
implements `KernelService`, and `Notebooks` the folder's own specification. The modules that `MCDom`
and `MCStorage` put next to each other share nothing in the code but the process, and are composed
only so that one run checks all of them.

### Worker

| model | code |
|---|---|
| `queue`, `con`, `task` | `Worker::queue`, `Connection`, `Worker::tasks` with `Task` |
| `pc`, `mu` | the script thread in `Worker::wait`: scanning, settling, about to sleep, asleep, woken |
| `con[c].phase` | which asynchronous operation or job is outstanding |
| `Fetch`, `StartTask` | `fetch_`, `Task::run` |
| `Lookup`, `Decide`, `NotifyHit` | the lookup of a cached response on the pool and what `send` decides |
| `Resolved` ... `Received` | the completion handlers of `http`, `https`, `write`, `read`, `body` |
| `Expire`, `Alarm`, `LateAlarm` | the timer becomes due; its callback finds the clock it was armed with, or another |
| `Lock`, `Settle`, `EndTask`, `EndRound`, `Doze`, `Sleep`, `Return` | `Worker::wait` |
| `SpuriousWakeup` | what a condition variable may do |
| `UseAfterErase` | a job or callback goes on with a connection that was erased |

A handler is one step, as the I/O thread runs it. What a handler writes without the mutex
(`result`, `buffer`) is seen by the script thread, so where the code writes one of them long
before the other (the lookup) there are several steps. `elapsed`, `budget` and `age` are the time
since the timer was armed, what is left of `timeout` in whole milliseconds, and, as a ghost, the
time the request really had. The database of responses is one entry, of one URL, that other
requests replace (`StoreChanges`). A response is known by its headers' meaning for the cache
(`Headers`), never by its text.

### Kernels

| model | code |
|---|---|
| `win`, `known` | the `Impl` of a window, its `kernels` |
| `kern[k].err`, `.op` | the outstanding handlers, which hold the `Kernel` object: `Held` |
| `kern[k].queue` | `Kernel::requests` |
| `kern[k].inbox`, `.run`, `.outbox` | the request in the pipe, in the child's pool, its response in the pipe |
| `kern[k].proc` | the process: `dying` has closed its pipes and still counts as running |
| `closing`, `reaping` | `~Impl` on the I/O thread, and the child it waits for |
| `req`, `reply` | what has become of a handle, and (ghost) whose result it was given |

`Leave` is the end of a handler that does not start another: if it was the last, the object and
the handles in its queue are destroyed, in the same step, as the shared pointer's count does it.
What a cell computes is left out; an evaluation that never ends and a response that does not fit
into a pipe are kept, since they decide whether the wait for a child ends.

### Folder and Notebooks

| model | code |
|---|---|
| `file`, `bak`, `temp` | `book.notojs`, its `.bak`, the file of an evaluation's result; a text is the number of the save that first wrote it |
| `time`, `clock` | `last_write_time`: each write has the time of the write before or a later one (`Stamps`), a rename keeps it |
| `disk` | the job the disk thread is in the middle of; `SaveBegin`, `SaveEnd`, `SaveFails` are `Folder::save`, `ResultClose` to `Discard` the end of a `File` |
| `Die`, `Crash` | the process ends between any two steps; what is in files stays |
| `known`, `cached`, `run` | the version a timer or plugin knows, `Cacher`'s bytecode, where `run` or `Plugin::Impl` is |
| `Look`, `Ask`, `Load`, `Compile`, `FallBack` | `Cacher::cache`, with the load on the disk thread |
| `io`, `stop` | the signal handler's calls of `end()`, in order; `Timers::stop` |
| `watcher`, `watching`, `changes`, `posted` | the thread of `inotify.cpp`, its flag, events |
| `kept`, `by`, `before` | ghosts: the text that is to be under a name; how a file came there; the greatest time of what a name has had |
| `texts`, `faults` | what `MaxWrites` and `MaxFaults` bound |

### Pages and Tabs

`Pages`: `uuid`, `books` are `#uuid`, `#books` of `editor.js`; `gets`, `got`, `dels`, `acks` the
requests and answers under way; `stream` the EventSource. What the server does is `Kernels`'.
`Tabs`: `books`, `opened`, `listing` are the links and books of `window.js`; `folder` the server's
files; `calls` the requests, which `Serve` handles in any order, `SaveFails` answers 404 or 500
(with the file removed if it failed halfway) and `Lost` loses; `OnPut` to `OnPackages` are what
follows each `await`, whatever the status. `doubt` is a ghost: the books of which the mark does not
tell (section 6 says when). A text is a number, made unique by counting.

### Databases and Modules

`stack[t]` are the calls a thread is in, with what their transaction sees (`view`), and `kept` the
handles the C++ objects still have. `disk` and `lock` are LMDB's (external): one writer, whose
lock a death gives up; a reader sees what was committed when it began. `Encode` is the order of
keys: numbers by sign and bytes, strings after them. `file`, `temporary`, `known` are
`DB::data`'s. In `Modules`, `bytecode` and `versions` belong to a thread (`cache_load`,
`cache_save`), `context` to a JSContext, `http` to the HTTP data; `job` is the import that waits
for a source.

### Documents

`Dom`: `tree.kids` is the tree of either parser, `tree.marks` what XML stores beneath the document
for lack of another place, `held` the nodes in `XMLBackend::nodes` or `HTMLBackend::nodes`, `live`
a collection with its version. An action is a method; `Planned` is `MutationPlan`. `Attributes`:
`attr` the parser's, `map` and `obj` the NamedNodeMap's cache. `Styles`: `sheet`, `obj`, `comp`
the caches, with the versions of `LiveStyle` as the flag `stale`. `Elements`: `kin`, `picked`,
`ids`, `refs` are children and attributes, `asked` and `loose` ghosts. `Declarations` cuts a style
attribute's text at the parser's places; `meant` and `said` are ghosts. `Outline` makes segments
of a path's data.

### What scripts pass on

| module | model | code |
|---|---|---|
| `Encoding` | `decoder` | the fields of `TextDecoder_`; the other variables are ghosts |
| `Cells` | `files`, `page`, `run` | lines of the multipart text and their three parsers; the cells shown; what `PUT /r` evaluates |
| `Paths` | `mount`, `tree`, `inode`, `task` | `fs.cpp`'s mounts, the native files, reads and writes in pieces of 16 KB; a path is kept as it is spelled, its mount is the one it is spelled under, and only its native path is put into normal form |
| `Bodies` | `memory`, `blob`, `form`, `sent` | the vectors blobs share, FormData, requests made of it and parsed again |
| `Queries` | `params`, `url` | `URLSearchParams_`, `URL_` |
| `Messages` | `fields`, `body`, `request` | `Headers_`, the answer of a ServerResponse, a Request with its configuration |
| `Calls` | `callee`, `bound`, `call` | `function_args`, `FunctionData::bind`, `Setters`, `Constructor` |
| `Wrappers` | `object`, `native`, `entries` | `Interface`, `Strong`, `Iterator` and their `.allocator` |
| `Archives` | `archive`, `zipped`, `work` | what libzip and the compressor have written, the tasks |

## 3. Runs

| run | question | instance |
|---|---|---|
| `worker_pair` | do two requests and a task lose a wakeup, use erased memory, or settle twice? is the runtime an `AsyncOps`? | 2 requests, 1 task, silent or answering peers |
| `worker_modes` | the invariant, through every cache mode, scheme, redirect mode; early timeouts; does `Worker::wait` return? | 1 request, 2 ticks per millisecond, 1 redirect; or 1 http request beside a task with one more step |
| `worker_tls` | (refuted) does a handshake end? | 1 https request |
| `worker_stale` | (refuted) is an expired entry never the answer of a checking request? | 1 request, 1 expired entry |
| `kernel_live` | do queues move, are handles finished once, is it a `KernelService`? is every request finished? does a page end up with one kernel for each book? | 2 windows, 2 kernels; any 2 requests, one big, one a reset; or a page with 1 book and 2 troubles or 2 books |
| `kernel_isolation` | (refuted) does an endless evaluation leave other notebooks alone? | 2 windows, 2 kernels, one endless |
| `notebooks` | do texts survive, runs run the current text, does shutdown end? | 1 notebook, one of three runners, 1 spare name, 2 writes after the first text, 2 ticks, 1 fault |
| `notebooks_rename` | (refuted) is a notebook run again when a valid one has its name? | 1 notebook with a timer, 1 spare name |
| `documents` | does every call on a document do what it promises, and are all caches fresh? | one of 6 stages, below |
| `documents_order` | (refuted) does a document keep its doctype before its element? | an HTML document with a doctype, an element and a fragment; 3 arguments |
| `storage` | does what is stored or passed on come back? | one of 13 scenes, below |
| `page_marks` | (refuted) is a book with unsaved changes marked? | 2 books, 1 title, 3 deeds, nothing lost |

The properties, in the modules' comments, name the code they are about. Each property of a passing
run also fails for a variant of the code it would be wrong in (PROJECT.json, `mutants`): these
operators stand in the modules before the ones they distort, marked "Defective" or "Defect".

**The refuted properties** quote a sentence of the documentation (PROJECT.json, `findings`).
`HandshakeEnds`: the handshake is the one phase without a timer. `StaleIsRevalidated`:
`Worker::wait` takes a response that has just been looked up for the request's answer. `Isolated`:
the I/O thread waits for a kernel's process. `Resumed`: a move tells the timers of the old name
only, so a notebook that is renamed onto a scheduled name is not run until it is saved.
`UnsavedMarked`: the answer to a save takes the mark also of what was typed since. `ContentModel`,
with three arguments: after `f.append(e)`, `document.append(e, doctype, f)` is planned as doctype,
e, for e is last named by the fragment it is in, but e is taken out of the fragment first and put
where it was named first. With two arguments the plan is what happens (`PlanKept`): the third is the
node that e passes, and in a fragment it cannot be, for a fragment holds no doctype.

### Bounds

*Runtime and kernels.* A request is issued once, a kernel started once, a window may be opened
again. Two requests and a task are what it takes for one to be ready while another is settled and a
third notifies; a third request adds no thread. Two ticks per millisecond let a phase use less than
a millisecond, the case that rounding is about. One redirect restarts every phase, in every scheme,
for every cache mode but one; a task is beside a request that uses no cache and follows nothing
(`MCSingle`). Two requests to a kernel give a queue whose front is not its last, and the big one
fills the pipe; an evaluation that does not end is one that has not ended yet, for the invariants,
and what it does to others is `Isolated`'s. What three requests could add to the order of a queue is
proved: `KInv`, `NotStuck`, `ServiceSpec` and `FinishedOnce` hold for any number. `MaxRedirects` and
`MaxSteps` bound counters of the code's that are unbounded or a script's choice; with
`EndlessRedirects` the first stops only the counting, and the proofs hold for any value of either.
`MaxTroubles` bounds what is lost on a page: with unbounded troubles it need never settle. An answer
may be overtaken by the events of five seconds, that is by one.

*Notebooks.* `MaxWrites` 3: two saves or results after the first text, which may meet (with the
plugin, whose watcher has its own steps, one); `MaxClock` 2: two writes in one tick or in two;
`MaxFaults` 1: one failed save or crash; text 2 does not compile (`Broken`). Notebooks are renamed
from either name to the other, the scheduled one too; `Fetching` is empty, for a fetching timer and
the end of the server wait for each other (a hazard).

*Documents.* A tree of at most six nodes under five casts (an XML document with text beneath it,
one with a doctype, HTML with a fragment, HTML with collections and classes, nothing), up to two
arguments a call and two texts to make; four scenes of attributes with two Attr objects; three of
style sheets with `MaxRules` 3; pages with a table, selects or forms; style attributes of three
names, two values, `MaxWords` 13; paths of 12 commands, `MaxChunks` 3. Two of a kind suffice for
what is moved, copied or out of order between them, and the third name, rule or chunk for what is
in the middle.

*Storage.* Databases: two kernels and the disk thread, in four plays (transactions that nest,
iterations, requests, the file), keys -1, 1 and "x" with `Base` 4 and `Half` 8 in place of the bytes
and width of numbers, `MaxDeaths` 1. Texts: six bytes and four units, which make characters of one
to four bytes, overlong ones, surrogates and byte order marks; streams of `MaxBytes` 4. Cells:
`MaxCells` 2, `MaxSteps` 5. Imports: one thread, since threads share only the HTTP data and the
packages, of which `Fetched` and `Configure` come at any time; two packages, one a module and one a
script; `MaxTexts` and `MaxClock` 2. Tabs: `MaxBooks` 3, `MaxDeeds` 3, `MaxLost` 1. Files: three
tables of mounts (one inside another, one beside another, one whose directory is not there yet), six
paths, of which one goes up and stays in its mount and one leaves it, texts of none or two pieces,
two tasks, one other change. Bodies, queries, calls, wrappers, archives and messages: up to 5 calls
of a script, with the names and texts that matter to the formats (line ends, dashes, quotes,
separators).

### Fairness

`Worker`: the script thread, the pool and the timers are scheduled; notifying needs the mutex, which
others take in between (hence SF); the resolver and TCP's connect end by themselves, and closing a
stream aborts its operation. Nothing is assumed of a peer, so that liveness rests on the timer;
`WaitReturns` is stated for http, since a handshake has none. `Kernels`: children run; the I/O
thread goes on closing a window, and runs a queued handler although windows keep being lost in
between (SF of the handlers and of `Respond`, which needs a reader when the response is big).
Nothing is assumed of clients, and no child is assumed to die. `Served` takes evaluations to end
(`Endless = {}`); `Isolated` asks what happens when one does not. A response that fills the pipe
when its window is lost stops the server like an endless evaluation: the I/O thread waits for the
child and the child for the I/O thread. `Served` excepts exactly that state (`Clogged`). `Pages`:
the page handles what comes, the server answers, sends its events and notices a stream nobody reads;
users and faults need not happen. `Notebooks`: threads are scheduled (WF of `Runs`, `Store`,
`Ending` and of the watcher, which gets to the end of the events there are and looks at its flag), a
minute comes (WF of `Wake` for those who are told), and a mutex that is given up again and again is
got (SF of `Saved`). `Databases`: functions of scripts end (WF), and who waits for LMDB's lock gets
it if it is freed again and again (SF). The other modules assume none.

**Deadlock** is checked in the runs of the runtime, the kernels and the notebooks, where scripts
may go on evaluating, windows may be opened for ever, and the end of the server is a step that
repeats. In `documents` and `storage` it is not: a script may stop, and what it does is bounded.

## 4. Theorems

All hold for every value of the constants that satisfies the modules' ASSUMEs, which TLC evaluates
on the runs. A theorem named after a property of a run states that property.

**Runtime.**

* `WorkerProofs!TypeCorrect`: `TypeOK`. Types are not trivial here: `budget` stays a natural
  number because `success` compares before it subtracts, and the integer division needs its own
  lemma (`DivBounds`).
* `WorkerProofs!Safety`: `IInv` is inductive, with `TypeOK`. It says who holds the mutex, which
  connections in the queue may be ready, and for each a balance of time (`Timely`): what its
  budget has lost is covered by the time it really had. `NoLostWakeup`, `SettledIsFinal` and
  `NoEarlyTimeout` are not inductive alone: the first needs to know that only a notification to
  come makes something ready without the mutex, the second that a connection with an outstanding
  operation is not ready (`Sound`), the third the balance. They follow as `WakeupsArrive`,
  `ErasedOnlyWhenFinal` and `NobodyTimesOutEarly`; the last assumes that no config has headers,
  where the code is refuted.
* `WorkerProofs!Refinement`: `Spec => AsyncSpec`, when no mode reads the cache (`Uncached`)
  and requests and tasks are different things. With the cache it is false: `worker_stale` shows
  the settlement that comes too early.

**Kernels.**

* `KernelsProofs!KernelsServe`: `Spec => ServiceSpec`. A kernel is there for its clients as long as
  an outstanding handler of its pipes holds the object (`Life`); its queue is the line, and its
  destruction finishes who is left in it. That the first of the line is the one whose result
  comes out of the pipe is what `KInv` gives; that the last handler, and no other step, ends the
  service is shown for each action.
* `KernelsProofs!Safety`: `KInv` is inductive. Its core is `Exchange`: a child is given the front
  request only, and that request is at one place of the loop from pipe to pool to pipe. `Queued`
  puts each waiting request at one place of one queue. `Awaited` says that no handler runs before
  a child whose input was closed is gone; without it a failing write could leave a queue standing
  next to a running process. `AnswersAreOwn`, `QueuesMove` and `HandlesFinishOnce` follow. The
  steps fall into four kinds, with a lemma each: those that leave queues alone (`SameQueue`),
  change no kernel (`Quiet`), append (`Push`), and leave (`LeaveKeeps`).

**Notebooks.**

* `NotebooksProofs!FolderSafe`: `FolderInv` is inductive, a crash being a step like any other. It
  says how far a save or a result's renames have come and what is on disk by then; `FolderKeeps`
  (`TextSurvives`: the very text that was stored, not some text) is one of its parts and not
  inductive without `StoreStages`.
* `NotebooksProofs!ServesFolder`: whatever the server's threads do, the folder sees its own
  specification, so that `FolderSafe` holds in the server.
* `NotebooksProofs!NotebooksSafe`: `NInv` is inductive, for any renames and any ticks of the clock.
  Since a file's time need not grow when its text changes, the invariant compares it with what the
  name had before (`before`, a ghost): no version is known that the name has not had (`HasHad`), and
  bytecode kept, or on its way, for a version no older than the file's is of the file's text if the
  file is younger than all the name had (`Latest`, `Younger`), whatever was written between reading
  the version and reading the text. `CurrentRuns` and `ToldOfChanges` follow; the first leaves out
  just the notebooks that are not younger, the second what is renamed onto the name.

**Imports.**

* `ModulesProofs!ImportsAreCurrent`: the time of a library is read before its text, and a file's
  time only grows, so what is kept under a time is at least as new as what the file had then; a
  text read halfway is under a time that is about to be passed. From `ModulesAssumption` only
  `Unset \notin Sources` is used for the packages.

**Databases.**

* `DatabasesProofs!LockOwned`, `SeenTogether`, `SecretIsOne`: one inductive invariant, which says
  for each call of each thread what its place in the stack allows (`FrameInv`): who writes has the
  lock, so what it has read of the disk, or of the file, has not changed since, and of a thread's
  calls one at most does (a second would wait for the first). Calls nest to any depth, in any
  number of threads and processes, of which any may die.
* `DatabasesProofs!WalksShowAll`: the encoded order of keys is total and an iterator takes the
  first key after its last. That there is a first of finitely many is proved from the least number
  principle; what was left out would be a key between two that were shown one after the other.

**Pages.**

* `TabsProofs!PagesAreHonest`: for any files, titles, kinds, bounds and failing saves, a book that
  is not marked is in its file as on the page, or is in doubt for a reason that section 6 lists. The
  invariant says of each request under way what its answer will be true of: a rename that is done
  has left the text under the new name, a save that was answered with success has it in the file,
  what was fetched is what the file has unless the file was touched since, and a file that is there
  again after a rename has its books in doubt (`AgainInv`). Marks, links and requests are each
  related to a book by its name, so most of the proof is about names that change while requests with
  the old one are on their way. There is a lemma for each action.

**Files of scripts.**

* `PathsProofs!ReadOnlyIsKept`: `ReadOnlyKept`, for any mounts, trees and paths as they are spelled,
  with `..` too. A path without `..` is its own normal form (`NormalSame`), so that its native path
  is strictly below the directory of its mount; one with `..` either is below that of some mount for
  writing, or strays (`Strays`), and the property excepts what it names. So the native path of
  whatever may be written is granted (`NativeGranted`), and all below it (`GrantedBelow`). `mkdir`
  of a path whose mount is not there yet makes the directories that lead to it, and the property
  says so (`LeadsThere`, `OnTheWay`). What is put into files later needs an invariant: a file has
  one name at most (`OneName`), and whoever still writes to a file was let in by the name that it
  has (`LetIn`), also when it was moved meanwhile.
* `PathsProofs!TextsAreWhole`: `TextsWhole`, for any texts, tasks and changes. The invariant relates
  a file to how far each of its writers has come (`Known`): of each, as many pieces as he has put
  there (`Written`, one less while the last is kept in the stream), in their order, after what the
  file had; who writes at his own place is the only one there, and his place is the end. Every step
  of a writer appends his next piece or changes no file; a copy, or an opening that empties a file
  while others write to it, makes it unknown what should be in it, which is what `meant` records.

**Documents.**

* `DomProofs!ForestKept`: `Forest`, for any documents that are well formed to begin with
  (`CastsAssumption`), any texts that strings may become, and calls with any number of arguments.
  `Forest` is inductive as it stands. That no node comes to be in itself is the part that takes
  work: a node is put only under a node that it is not above (`MutationPlan`), but a call moves
  several, through a fragment, to a place that may move itself, and the check was made before the
  first move. `Acyclic` therefore speaks of sets: no set of nodes holds the parents of all its
  members. Every loop of the model is one operator, `Each`, which keeps what its step keeps; what
  the steps keep, besides the forest, is the set of nodes at and above the new parent (`Around`),
  none of which is ever moved. The other parts say that what XML stores beneath the document is
  marked and stays behind the rest (`Stored`), and that a text that is freed is in nobody's
  children.
* `DomProofs!LiveKept`: `LiveFresh`, for the same, any nodes that a script has collections on or
  sets classes of, and HTML parsers that leave a document one element, which it remembers
  (`CastsAssumption`, too). Two arguments meet in `Current`, which every step of a call keeps. What
  a query finds beneath a node depends only on the children, of those that may have children, at
  and beneath it (`QuerySame`, which looks through the loop of the walk level by level), so a node
  for which the call told nobody is above none of the places that changed (`HeardChange`,
  `OutsideCovers`). And `sync_document` remembers the right element although a fragment may give
  a document several nodes in turn, because an accepted plan has one element at most, whatever the
  number of arguments (`PlanLone`): the plan may have the order of three wrong, as the run
  `documents_order` shows, but never loses one. The invariant `Living` adds what has been read to
  `LiveFresh`, with the root of a collection among the nodes that may have children.

**How the invariants were found.** Each is a conjunction of named parts, which TLC checked first,
in the runs or on instances like theirs; what is proved last is that each action keeps each part.
`KInv`, `IInv`, `NInv` and `Forest` are invariants of runs as well.

**Only model-checked.**

* Liveness (`WaitReturns`, `Served`, `Settles`, `EventuallyCurrent`, `RunsFinish`, `ShutdownEnds`,
  `Answered`): fairness and ENABLED are out of the proof system's reach.
* `PlanKept` is true of calls with at most two arguments, as the run `documents_order` shows with
  three: there is nothing to prove for every value of `MaxArguments`.
* `OrderAgrees` and `Normalized` say what a loop over a path or a sequence computes, not only what
  it keeps, for data of any length: where a node is in the walk of a tree, and between which
  others.
* `StylesFresh`, `ElementsAgree`, `HandlesKept` are put together in `MCDom`, and `RequestsKept`,
  `NativesKept` in `MCStorage`, from several modules, some of which (`Elements`, `Outline`,
  `Encoding`, `Bodies`, `Queries`, `Cells`) read trees and texts by RECURSIVE operators, with which
  the prover loses its arithmetic; `BookKept` is in one of them.  What such a reading computes for
  a text of any length would need an induction over data that none of the provers can instantiate.

Refuted by runs: section 3.

## 5. Plan

Done: the runtime, the kernels, the folder with timers, plugins, watcher and shutdown, imports,
databases, documents, what scripts pass on, the page as a client of kernels and of files; the
theorems of section 4.

Open: `Wrappers` follows what an object holds to a depth of three, which is enough for the bound
on its objects and would have to be a closure for a theorem; the modules that read by RECURSIVE
operators would have to be written with the loop operator of `Dom` (`Each`) first.

## 6. Not modelled

What is left out of a module that models its neighbours, and what the properties therefore do not
say. Several of these are places where the code does something a reader may not expect.

**Runtime.** A wait nested in another script's (`Context::load`, the assert module); the contents
of requests; the data race on `result` and `buffer` as such (its outcomes are the interleavings of
whole writes); endless redirects; the shutdown of a server whose timer is fetching, which does not
end (hazard).

**Kernels and pages.** A window that is lost while its kernel writes more than the pipe holds stops
the server (`Clogged`, excepted by `Served`). The server's own end (`killed`), the context a kernel
keeps between cells and the output on standard error. A book that is closed while its kernel is
asked for is put back into `#books` by the answer (`editor.js:132`); an open book whose first
request is lost is in no map until it is restarted (excused by `lost`). A PUT to a kernel that is
not found is never finished (`window.cpp:286`).

**Folder, timers, plugins.** Listing and rendering; the table of watched directories; `end()` before
the watcher's first step (`inotify.cpp:144`). A save in place that is cut short loses the text, and
a result that was computed before a save takes the saved text's place: both are in the model and
excepted from `TextSurvives`. Versions are compared with `<` (`cacher.cpp:20`), so two texts saved
in one tick of the file's time, or an older file renamed onto the name, leave the earlier bytecode
in use, against timers.md:85 and applications.md:187: in the model, and excepted from `RunsCurrent`
and `EventuallyCurrent` (`Younger`). What is renamed onto a scheduled name is not run until it is
saved (`Resumed`, refuted).

**Imports.** A configured package is never read from the HTTP data by `import`, only by `require`:
the loader's read transaction is still open (`engine.cpp:224`, swallowed in `module.cpp:152`),
though packages.md says otherwise. A thread keeps the sources it has compiled as long as it lives;
an older answer may overwrite a newer source; two texts within one tick of the file's clock leave
stale bytecode (`twice`). One URL used as a script and as a module, paths of packages and
libraries, and the text of the packages' configuration are left out.

**Databases.** The system's databases, values, strings that begin with NUL, empty keys, sharing of
LMDB's database handles, backup, statistics, encryption, the listing of storage. A PUT of invalid
JSON is answered 400 and written (`router.cpp:543`). A script that opens a transaction within one
of its own waits for itself, and the disk thread for it (`router.cpp:823`): modelled, and excused
in `Answered`.

**Documents.** `normalize()` of an XML document itself, which frees texts beneath the document
that a script may hold (hazard at `backend.cpp:122`); `textContent` of XML where it frees held
descendants of nodes nobody holds; `document.element` when the root of an HTML document moved to
another parent; wrap of the 32-bit versions; cloning, comparing, selectors, markup, several
collections; prepared HTML, images and SVG as arguments. `toggleAttribute` leaves a cached Attr
attached (`element.hxx:211`); an Attr got by position has its parsed namespace in its key, so that
removing it by name leaves it attached (`named_node_map.hxx:31`); deleting from a dataset empties
the Attr (`dom_string_map.hxx:33`). Rules that are pending when the text of the style changes
otherwise (`css_style_sheet.cpp:175`); a change told to all sheets detaches the rules of other
sheets (`backend.cpp:232`); a computed style before `el.style` was used
(`css_style_properties.hxx:28`); elements inside `<style>`, at-rules. `rowIndex` of a row that is
not directly of its table or its sections; `rows` with nested tables; `select.add` of a group that
has the select in it; `selectedOptions`, which is a snapshot though dom.yml:3762 says live;
`outerHTML` without a parent; FieldSet. Setting a property without a priority moves it to the end
of the style and drops its priority; removing a property that was declared twice reveals the
earlier. How curves and arcs are flattened; the length of a path that is one point.

**Texts and cells.** The number of replacement characters (it differs from WHATWG's); `decode()`
without arguments that throws leaves `bom_seen` set. A line of code that begins with a boundary
ends the cell there and spoils what follows; outputs gain a line end each time; an off cell that
is run is saved as enabled; storing results keeps only the cells up to the handler, without its
role, and overwrites what the page saved meanwhile; a bare CR stops the parse.

**Books of a page.** A missing notebook is answered by 404 with "[]" and opened as a book without
cells, which cannot be shown (`bare`). DELETE of a missing file is 500, so that a retitled book
whose file is gone is never saved; since the name of a library or application is never its title,
each save deletes first, and a lost PUT then loses the file. A mark is taken away by the answer to a
PUT whatever its status (404, 500 and a failing write are `SaveFails`) and whatever was typed since
(`UnsavedMarked`, refuted); a save's answer removes links of other books of the name; naming a new
book whose PUT is lost leaves it unmarked; opening an open file drops its edits; two PUTs may be
handled in the other order; an old rename's answer renames books that took the name since. In all of
these the model puts the book into `doubt`. A library is one file; side bar search, keys, export and
icons are left out.

**Files of scripts.** Symbolic links, and another `noto:fs` process. A path is let in by its normal
form but kept as it is spelled (`fs.cpp:692-695`), and its mount is looked for in what is spelled
(`fs.cpp:238-272`): with `/t` mounted for writing, `/t/a/../../e` may be written, and is outside of
it, though fs.yml:2, 42 and 293 call paths sandboxed and normalized before use. The model has such
paths; `ReadOnlyKept` excepts what they reach and names them (`Strays`). Copying a directory onto an
existing one does not throw, though the documentation says it does; `copy(dir, {overwrite: true})`
does nothing; copies of directories stop at the first clash; failing writes are not counted;
`relative()`, types of results.

**Forms, queries, messages.** Backslashes and control characters in names; the type "" arrives as
application/octet-stream; `arrayBuffer()` shares memory with a Blob that global.yml:7 calls
immutable, and so does a FormData with a blob; a slice below the beginning; a blob of a response's
body after the body was set. "a=b=c" stops the parse of a query; an empty query has one empty
entry; `url.search = params` sends values encoded twice; sorting is stable up to 16 entries only;
malformed "%" throws; user, password, path and protocol of URLs. `get` finds the first of several
fields of a name although global.yml:342 says all; headers of a configuration override a body's
type; `timeout` is read only without headers, in the `else` of `headers` (global.cpp:2105): with
`WithHeaders = {TRUE}` and a longer timeout than the default, `worker_modes` refutes
`NoEarlyTimeout`; a content without text data
leaves the response as it is.

**Native calls.** Members and mixins never validate their arguments; setters validate by the
first; a tail is never validated; an `Either` of three may accept what its second refuses; with a
tail and more bound than parameters nothing matches. `.allocator` may be deleted by a script
(`loose`); values inside natives whose memory moves.

**Archives.** The result of closing a zip is ignored (`zip.cpp:212`): when the file of an entry is
gone by then, nothing is written and the promise resolves, against zip.yml:101. The model has it,
and `ArchiveWhole` excepts that case by name; empty entries are not read though zip.yml says all are
(excepted, too); an archive without entries is deleted; of two writers at a time the later
overwrites; appending to what is no archive; iterating over an empty archive. The gzip compressor is
closed when the task is destroyed, after the promise: a text read by another thread then may be cut
short (`CompressedWhole` is of one thread); a cut-off gzip is answered as if whole.

**Not at all.** Errors, log, writer and configuration; the command line and the documentation
tools; the modules `noto`, `core`, `assert`, `render`, `doc`; crypto and yaml; console, templates,
Base64; sockets and static files: formatting, input and bindings without state of their own.

------------------------------- MODULE Modules -------------------------------
(* What an import or require runs: a library of the folder, which is compiled again when its  *)
(* file is newer, or the source of a package, which is looked up among the bytecode of the    *)
(* thread, then in the HTTP data kept with the notebooks, then fetched.                       *)
EXTENDS Naturals, FiniteSets

CONSTANTS
    Threads,        \* the threads that run scripts: each has its bytecode and a context
    Aliases,        \* the names of packages
    Sources,        \* the https URLs that packages may have
    ScriptSources,  \* those of them that are scripts, the others being modules
    Library,        \* the name of a library
    MaxTexts,       \* bounds the texts of the library
    MaxClock,       \* bounds the ticks of the clock that files are stamped by
    Unset

ASSUME ModulesAssumption ==
    /\ ScriptSources \subseteq Sources /\ Library \notin Aliases \cup Sources
    /\ Unset \notin Sources
    /\ MaxTexts \in Nat /\ MaxClock \in Nat

VARIABLES
    packages,    \* the sources of the packages
    http,        \* the sources kept in the HTTP data
    library,     \* the file of the library: text, of which 0 is none of it, and time
    clock,
    bytecode,    \* by thread, what it has compiled, by source or path
    versions,    \* and the time of the library that it has
    context,     \* by thread, what the modules of its context are
    job,         \* by thread, what it is loading
    late,        \* the sources that were dropped while they were fetched,
    twice        \* and the times at which the library had more than one text: ghosts

modulesVars == <<packages, http, library, clock, bytecode, versions, context, job, late, twice>>

Urls == {packages[a] : a \in Aliases} \ {Unset}

-----------------------------------------------------------------------------
(* Defect: what is kept of the URLs that are packages no more stays. *)
AllKept(urls) == http

(* set_packages: a name has one URL, and two names may have the same.  What is kept of the    *)
(* other URLs goes.                                                                           *)
KeptOf(urls) == [u \in Sources |-> IF u \in urls THEN http[u] ELSE Unset]

Configurations == [Aliases -> Sources \cup {Unset}]

Configure ==
    /\ \E p \in Configurations \ {packages} :
         LET urls == {p[a] : a \in Aliases}
         IN /\ packages' = p
            /\ http' = KeptOf(urls)
            /\ late' = {job[t].key : t \in {t \in Threads : job[t] # Unset}} \ (urls \cup {Library})
    /\ UNCHANGED <<library, clock, bytecode, versions, context, job, twice>>

Tick ==
    /\ clock < MaxClock
    /\ clock' = clock + 1
    /\ UNCHANGED <<packages, http, library, bytecode, versions, context, job, late, twice>>

(* Folder::save of a library opens its file, which empties it, and writes its text. *)
Stamped(text, last) ==
    /\ library' = [text |-> text, last |-> last, time |-> clock]
    /\ twice' = IF library.time = clock THEN twice \cup {clock} ELSE twice
    /\ UNCHANGED <<packages, http, clock, bytecode, versions, context, job, late>>

BeginSave == library.text # 0 /\ library.last < MaxTexts /\ Stamped(0, library.last)
EndSave == library.text = 0 /\ Stamped(library.last + 1, library.last + 1)

-----------------------------------------------------------------------------
(* The text of a URL or path; those of a URL are not told apart. *)
Text(of, rev) == [of |-> of, rev |-> rev]

(* The context of t has the text under a name; it was asked for as a URL or path. *)
Provides(t, name, key, text) ==
    context' = [context EXCEPT ![t][name] = [asked |-> key, text |-> text]]

Job(name, key) == [name |-> name, key |-> key, time |-> Unset, text |-> Unset]

Compiles(t, key, text) == bytecode' = [bytecode EXCEPT ![t][key] = text]

(* Defect: a thread finds its bytecode by the name of the package. *)
KeyByName(name, url) == name

(* cache_save and cache_load: the key of bytecode is the URL. *)
KeyOf(name, url) == url

(* The loader asks for a name that the context does not have; require asks always. *)
Asks(t, name) == job[t] = Unset /\ (context[t][name] = Unset \/ packages[name] \in ScriptSources)

(* Module::load and http_request for a package.  Only scripts are looked up in the HTTP data: *)
(* the loader of modules still has the transaction open by which it found the URL, and a      *)
(* thread cannot begin another.                                                               *)
LoadPackage(t, a) ==
    LET url == packages[a]
        cached == bytecode[t][KeyOf(a, url)]
    IN /\ url # Unset /\ Asks(t, a)
       /\ \/ /\ cached # Unset
             /\ Provides(t, a, url, cached)
             /\ UNCHANGED <<bytecode, job>>
          \/ /\ cached = Unset /\ url \in ScriptSources /\ http[url] # Unset
             /\ Compiles(t, KeyOf(a, url), http[url]) /\ Provides(t, a, url, http[url])
             /\ UNCHANGED job
          \/ /\ cached = Unset /\ (url \notin ScriptSources \/ http[url] = Unset)
             /\ job' = [job EXCEPT ![t] = Job(a, url)]
             /\ UNCHANGED <<bytecode, context>>
       /\ UNCHANGED <<packages, http, library, clock, versions, late, twice>>

(* http_response: the source is kept, whatever the packages are by now, and compiled. *)
Fetched(t) ==
    /\ job[t] # Unset /\ job[t].key \in Sources
    /\ LET url == job[t].key
           text == Text(url, 0)
       IN /\ http' = [http EXCEPT ![url] = text]
          /\ Compiles(t, KeyOf(job[t].name, url), text)
          /\ Provides(t, job[t].name, url, text)
    /\ job' = [job EXCEPT ![t] = Unset]
    /\ UNCHANGED <<packages, library, clock, versions, late, twice>>

(* The source cannot be had, or it is kept and cannot be compiled: the import fails. *)
FetchFails(t) ==
    /\ job[t] # Unset /\ job[t].key \in Sources
    /\ http' \in {http, [http EXCEPT ![job[t].key] = Text(job[t].key, 0)]}
    /\ job' = [job EXCEPT ![t] = Unset]
    /\ UNCHANGED <<packages, library, clock, bytecode, versions, context, late, twice>>

(* Defect: bytecode of any time serves. *)
AnyTime(t) == bytecode[t][Library] # Unset

(* Bytecode that is as new as the file serves. *)
UpToDate(t) == bytecode[t][Library] # Unset /\ versions[t] >= library.time

LoadLibrary(t) ==
    /\ job[t] = Unset /\ context[t][Library] = Unset
    /\ IF UpToDate(t)
       THEN Provides(t, Library, Library, bytecode[t][Library]) /\ UNCHANGED job
       ELSE /\ job' = [job EXCEPT ![t] = Job(Library, Library)]
            /\ UNCHANGED context
    /\ UNCHANGED <<packages, http, library, clock, bytecode, versions, late, twice>>

(* Defect: the text of the file is read before its time. *)
TextFirst(j) ==
    IF j.text = Unset THEN [j EXCEPT !.text = Text(Library, library.text)]
    ELSE [j EXCEPT !.time = library.time]

(* The disk thread reads the time of the file and then its text, *)
TimeFirst(j) ==
    IF j.time = Unset THEN [j EXCEPT !.time = library.time]
    ELSE [j EXCEPT !.text = Text(Library, library.text)]

ReadLibrary(t) ==
    /\ job[t] # Unset /\ job[t].key = Library /\ Unset \in {job[t].time, job[t].text}
    /\ job' = [job EXCEPT ![t] = TimeFirst(@)]
    /\ UNCHANGED <<packages, http, library, clock, bytecode, versions, context, late, twice>>

(* and the thread that waits for it compiles it. *)
CompileLibrary(t) ==
    /\ job[t] # Unset /\ job[t].key = Library /\ Unset \notin {job[t].time, job[t].text}
    /\ Compiles(t, Library, job[t].text) /\ Provides(t, Library, Library, job[t].text)
    /\ versions' = [versions EXCEPT ![t] = job[t].time]
    /\ job' = [job EXCEPT ![t] = Unset]
    /\ UNCHANGED <<packages, http, library, clock, late, twice>>

(* A new context: the bytecode is the thread's. *)
Reset(t) ==
    /\ job[t] = Unset
    /\ context' = [context EXCEPT ![t] = [n \in Aliases \cup {Library} |-> Unset]]
    /\ UNCHANGED <<packages, http, library, clock, bytecode, versions, job, late, twice>>

-----------------------------------------------------------------------------
ModulesInit ==
    /\ packages = [a \in Aliases |-> Unset]
    /\ http = [u \in Sources |-> Unset]
    /\ library = [text |-> 1, last |-> 1, time |-> 0]
    /\ clock = 0
    /\ bytecode = [t \in Threads |-> [k \in Sources \cup Aliases \cup {Library} |-> Unset]]
    /\ versions = [t \in Threads |-> Unset]
    /\ context = [t \in Threads |-> [n \in Aliases \cup {Library} |-> Unset]]
    /\ job = [t \in Threads |-> Unset]
    /\ late = {} /\ twice = {}

ModulesNext ==
    \/ Configure \/ Tick \/ BeginSave \/ EndSave
    \/ \E t \in Threads :
         \/ \E a \in Aliases : LoadPackage(t, a)
         \/ Fetched(t) \/ FetchFails(t)
         \/ LoadLibrary(t) \/ ReadLibrary(t) \/ CompileLibrary(t) \/ Reset(t)

ModulesSpec == ModulesInit /\ [][ModulesNext]_modulesVars

-----------------------------------------------------------------------------
(* Bytecode that serves an import of the library is of the text that its file has, even       *)
(* if it was read while the file was written, unless the file had two texts at the time it is *)
(* stamped with (Module::load, cache_load and cache_save against Folder::save).               *)
LibraryCurrent ==
    \A t \in Threads :
        UpToDate(t) => bytecode[t][Library].rev = library.text \/ library.time \in twice

(* A context has the source that its package had when it was asked for. *)
SourceAsked ==
    \A t \in Threads, n \in Aliases \cup {Library} :
        context[t][n] # Unset => context[t][n].text.of = context[t][n].asked

(* The HTTP data has the sources of packages only, or of one fetched while it was dropped. *)
OnlyPackages == \A u \in Sources : http[u] # Unset => u \in Urls \cup late

ImportsCurrent == LibraryCurrent /\ SourceAsked /\ OnlyPackages
=============================================================================

---------------------------- MODULE ModulesProofs ----------------------------
(* What imports run is current: the invariants of Modules, for any threads, packages, sources *)
(* and library.  Bytecode is as good as the time under which it is kept, and that time was    *)
(* read before the text: so a text that is kept under the time of the file was read while the *)
(* file had that time, and is the file's unless it had another one within the same tick.      *)
EXTENDS Modules, TLAPS

-----------------------------------------------------------------------------
Paths == Sources \cup {Library}
Keys == Sources \cup Aliases \cup {Library}
Names == Aliases \cup {Library}
Texts == [of : Paths, rev : Nat]
Jobs == [name : Names, key : Paths, time : Nat \cup {Unset}, text : Texts \cup {Unset}]

Contexts == [Names -> [asked : Paths, text : Texts] \cup {Unset}]
Compiled == [Keys -> Texts \cup {Unset}]

TypeInv ==
    /\ packages \in [Aliases -> Sources \cup {Unset}]
    /\ http \in [Sources -> Texts \cup {Unset}]
    /\ library \in [text : Nat, last : Nat, time : Nat]
    /\ clock \in Nat
    /\ bytecode \in [Threads -> Compiled]
    /\ versions \in [Threads -> Nat \cup {Unset}]
    /\ context \in [Threads -> Contexts]
    /\ job \in [Threads -> Jobs \cup {Unset}]

(* Every text is of what it is kept under. *)
OwnTexts ==
    /\ \A u \in Sources : http[u] # Unset => http[u].of = u
    /\ \A t \in Threads, k \in Keys : bytecode[t][k] # Unset => bytecode[t][k].of = k
    /\ \A t \in Threads : job[t] # Unset /\ job[t].text # Unset =>
           job[t].text.of = Library

(* A text read under a time is the one the file has, if the file still has that time and had  *)
(* no two texts in it.                                                                        *)
AsOf(text, time) ==
    /\ time \in Nat /\ time <= library.time
    /\ time = library.time => text.rev = library.text \/ library.time \in twice

TimesHonest ==
    /\ library.time <= clock
    /\ \A t \in Threads :
         /\ bytecode[t][Library] # Unset => AsOf(bytecode[t][Library], versions[t])
         /\ job[t] # Unset /\ job[t].time # Unset => job[t].time <= library.time
         /\ job[t] # Unset /\ job[t].text # Unset =>
                job[t].time # Unset /\ AsOf(job[t].text, job[t].time)

(* What is fetched is a package's, or was dropped meanwhile. *)
JobsNamed ==
    \A t \in Threads : job[t] # Unset => job[t].key \in Urls \cup late \cup {Library}

Inv == TypeInv /\ OwnTexts /\ TimesHonest /\ JobsNamed /\ SourceAsked /\ OnlyPackages

-----------------------------------------------------------------------------
(* A context and the bytecode of a thread take texts. *)
LEMMA ProvidesTyped ==
    ASSUME TypeInv, NEW t \in Threads, NEW name \in Names, NEW key \in Paths, NEW text \in Texts,
           Provides(t, name, key, text)
    PROVE  context' \in [Threads -> Contexts]
<1>1. [asked |-> key, text |-> text] \in [asked : Paths, text : Texts]
  OBVIOUS
<1> DEFINE c == [asked |-> key, text |-> text]
<1> HIDE DEF c
<1>2. context' = [context EXCEPT ![t][name] = c]
  BY DEF Provides, c
<1> QED BY <1>1, <1>2 DEF TypeInv, Contexts, c

LEMMA CompilesTyped ==
    ASSUME TypeInv, NEW t \in Threads, NEW key \in Keys, NEW text \in Texts,
           Compiles(t, key, text)
    PROVE  bytecode' \in [Threads -> Compiled]
BY DEF Compiles, TypeInv, Compiled

(* Texts keep their types and what they are of through whatever a thread does.                *)
LEMMA TypesKept ==
    ASSUME ModulesAssumption, TypeInv, ModulesNext PROVE TypeInv'
<1>1. CASE Configure
  BY <1>1 DEF Configure, KeptOf, Configurations, TypeInv
<1>2. CASE Tick
  BY <1>2 DEF Tick, TypeInv
<1>3. CASE BeginSave
  <2>1. library' \in [text : Nat, last : Nat, time : Nat]
    BY <1>3 DEF BeginSave, Stamped, TypeInv
  <2>2. UNCHANGED <<packages, http, clock, bytecode, versions, context, job>>
    BY <1>3 DEF BeginSave, Stamped
  <2> QED BY <2>1, <2>2 DEF TypeInv
<1>4. CASE EndSave
  <2>1. library' \in [text : Nat, last : Nat, time : Nat]
    BY <1>4 DEF EndSave, Stamped, TypeInv
  <2>2. UNCHANGED <<packages, http, clock, bytecode, versions, context, job>>
    BY <1>4 DEF EndSave, Stamped
  <2> QED BY <2>1, <2>2 DEF TypeInv
<1>5. ASSUME NEW t \in Threads, NEW a \in Aliases, LoadPackage(t, a) PROVE TypeInv'
  <2> DEFINE url == packages[a]
  <2>1. url \in Sources /\ url \in Keys /\ a \in Names
    BY <1>5 DEF LoadPackage, TypeInv, Keys, Names
  <2>2. bytecode[t][url] \in Texts \cup {Unset} /\ http[url] \in Texts \cup {Unset}
    BY <2>1 DEF TypeInv, Compiled
  <2>3. Job(a, url) \in Jobs
    BY <2>1 DEF Job, Jobs, Paths
  <2>4. CASE bytecode[t][url] # Unset
    <3>1. context' \in [Threads -> Contexts]
      BY <1>5, <2>1, <2>2, <2>4, ProvidesTyped DEF LoadPackage, KeyOf, Paths
    <3> QED BY <1>5, <2>4, <3>1 DEF LoadPackage, KeyOf, TypeInv
  <2>5. CASE bytecode[t][url] = Unset /\ url \in ScriptSources /\ http[url] # Unset
    <3>1. context' \in [Threads -> Contexts] /\ bytecode' \in [Threads -> Compiled]
      BY <1>5, <2>1, <2>2, <2>5, ProvidesTyped, CompilesTyped DEF LoadPackage, KeyOf, Paths
    <3> QED BY <1>5, <2>5, <3>1 DEF LoadPackage, KeyOf, TypeInv
  <2>6. CASE bytecode[t][url] = Unset /\ (url \notin ScriptSources \/ http[url] = Unset)
    BY <1>5, <2>1, <2>3, <2>6 DEF LoadPackage, KeyOf, TypeInv
  <2> QED BY <2>4, <2>5, <2>6
<1>6. ASSUME NEW t \in Threads, Fetched(t) PROVE TypeInv'
  <2> DEFINE url == job[t].key
  <2>1. job[t] \in Jobs /\ url \in Sources /\ url \in Keys /\ job[t].name \in Names
    BY <1>6 DEF Fetched, TypeInv, Jobs, Keys
  <2>2. Text(url, 0) \in Texts
    BY <2>1 DEF Text, Texts, Paths
  <2>3. context' \in [Threads -> Contexts] /\ bytecode' \in [Threads -> Compiled]
    BY <1>6, <2>1, <2>2, ProvidesTyped, CompilesTyped DEF Fetched, KeyOf, Paths
  <2> QED BY <1>6, <2>1, <2>2, <2>3 DEF Fetched, TypeInv
<1>7. ASSUME NEW t \in Threads, FetchFails(t) PROVE TypeInv'
  <2>1. job[t].key \in Sources /\ Text(job[t].key, 0) \in Texts
    BY <1>7 DEF FetchFails, Text, Texts, Paths
  <2> QED BY <1>7, <2>1 DEF FetchFails, TypeInv
<1>8. ASSUME NEW t \in Threads, LoadLibrary(t) PROVE TypeInv'
  <2>1. Library \in Keys /\ Library \in Names /\ Library \in Paths
    BY DEF Keys, Names, Paths
  <2>2. Job(Library, Library) \in Jobs
    BY <2>1 DEF Job, Jobs
  <2>3. bytecode[t][Library] \in Texts \cup {Unset}
    BY <2>1 DEF TypeInv, Compiled
  <2>4. CASE UpToDate(t)
    <3>1. context' \in [Threads -> Contexts]
      BY <1>8, <2>1, <2>3, <2>4, ProvidesTyped DEF LoadLibrary, UpToDate
    <3> QED BY <1>8, <2>4, <3>1 DEF LoadLibrary, TypeInv
  <2>5. CASE ~UpToDate(t)
    BY <1>8, <2>2, <2>5 DEF LoadLibrary, TypeInv
  <2> QED BY <2>4, <2>5
<1>9. ASSUME NEW t \in Threads, ReadLibrary(t) PROVE TypeInv'
  <2>1. job[t] \in Jobs
    BY <1>9 DEF ReadLibrary, TypeInv
  <2>2. Text(Library, library.text) \in Texts /\ library.time \in Nat
    BY DEF Text, Texts, TypeInv, Paths
  <2>3. TimeFirst(job[t]) \in Jobs
    BY <2>1, <2>2 DEF TimeFirst, Jobs
  <2> QED BY <1>9, <2>3 DEF ReadLibrary, TypeInv
<1>10. ASSUME NEW t \in Threads, CompileLibrary(t) PROVE TypeInv'
  <2>1. Library \in Keys /\ Library \in Names /\ Library \in Paths
    BY DEF Keys, Names, Paths
  <2>2. job[t].text \in Texts /\ job[t].time \in Nat
    BY <1>10 DEF CompileLibrary, TypeInv, Jobs
  <2>3. context' \in [Threads -> Contexts] /\ bytecode' \in [Threads -> Compiled]
    BY <1>10, <2>1, <2>2, ProvidesTyped, CompilesTyped DEF CompileLibrary
  <2> QED BY <1>10, <2>2, <2>3 DEF CompileLibrary, TypeInv
<1>11. ASSUME NEW t \in Threads, Reset(t) PROVE TypeInv'
  BY <1>11 DEF Reset, TypeInv, Contexts, Names
<1> QED BY <1>1, <1>2, <1>3, <1>4, <1>5, <1>6, <1>7, <1>8, <1>9, <1>10, <1>11 DEF ModulesNext

-----------------------------------------------------------------------------
(* What is compiled and provided is found where it was put, and the rest as it was.           *)
LEMMA Found ==
    ASSUME TypeInv, NEW t \in Threads, NEW key \in Keys, NEW text, Compiles(t, key, text)
    PROVE  \A s \in Threads, k \in Keys :
               bytecode'[s][k] = IF s = t /\ k = key THEN text ELSE bytecode[s][k]
BY DEF Compiles, TypeInv, Compiled

LEMMA Given ==
    ASSUME TypeInv, NEW t \in Threads, NEW name \in Names, NEW key, NEW text,
           Provides(t, name, key, text)
    PROVE  \A s \in Threads, n \in Names :
               context'[s][n] = IF s = t /\ n = name THEN [asked |-> key, text |-> text]
                                ELSE context[s][n]
<1> DEFINE c == [asked |-> key, text |-> text]
<1> HIDE DEF c
<1>1. context' = [context EXCEPT ![t][name] = c]
  BY DEF Provides, c
<1>2. \A s \in Threads, n \in Names :
          context'[s][n] = IF s = t /\ n = name THEN c ELSE context[s][n]
  BY <1>1 DEF TypeInv, Contexts
<1> QED BY <1>2 DEF c

(* The names, keys and texts that an import deals with. *)
LEMMA Loads ==
    ASSUME ModulesAssumption, TypeInv, NEW t \in Threads, NEW a \in Aliases, LoadPackage(t, a)
    PROVE  /\ packages[a] \in Sources /\ packages[a] \in Keys /\ packages[a] \in Urls
           /\ a \in Names /\ packages[a] # Library
           /\ UNCHANGED <<packages, http, library, clock, versions, late, twice>>
           /\ \/ /\ bytecode[t][packages[a]] # Unset
                 /\ Provides(t, a, packages[a], bytecode[t][packages[a]])
                 /\ UNCHANGED <<bytecode, job>>
              \/ /\ http[packages[a]] # Unset
                 /\ Compiles(t, packages[a], http[packages[a]])
                 /\ Provides(t, a, packages[a], http[packages[a]])
                 /\ UNCHANGED job
              \/ /\ job' = [job EXCEPT ![t] = Job(a, packages[a])]
                 /\ UNCHANGED <<bytecode, context>>
BY DEF LoadPackage, KeyOf, TypeInv, Keys, Names, Urls, ModulesAssumption

LEMMA Fetches ==
    ASSUME ModulesAssumption, TypeInv, NEW t \in Threads, Fetched(t)
    PROVE  LET url == job[t].key
               name == job[t].name
           IN /\ job[t] # Unset
              /\ url \in Sources /\ url \in Keys /\ url # Library /\ name \in Names
              /\ http' = [http EXCEPT ![url] = Text(url, 0)]
              /\ Compiles(t, url, Text(url, 0)) /\ Provides(t, name, url, Text(url, 0))
              /\ job' = [job EXCEPT ![t] = Unset]
              /\ UNCHANGED <<packages, library, clock, versions, late, twice>>
<1>1. job[t] \in Jobs
  BY DEF Fetched, TypeInv
<1> QED BY <1>1 DEF Fetched, KeyOf, Jobs, Keys, ModulesAssumption

LEMMA LibraryNamed == Library \in Keys /\ Library \in Names /\ Library \in Paths
BY DEF Keys, Names, Paths

-----------------------------------------------------------------------------
(* A text is kept only under what it is of.                                                   *)
LEMMA OwnTextsKept ==
    ASSUME ModulesAssumption, TypeInv, OwnTexts, ModulesNext PROVE OwnTexts'
<1>1. CASE Configure
  BY <1>1 DEF Configure, KeptOf, OwnTexts, TypeInv
<1>2. CASE Tick
  BY <1>2 DEF Tick, OwnTexts
<1>3. CASE BeginSave \/ EndSave
  BY <1>3 DEF BeginSave, EndSave, Stamped, OwnTexts
<1>5. ASSUME NEW t \in Threads, NEW a \in Aliases, LoadPackage(t, a) PROVE OwnTexts'
  <2> DEFINE url == packages[a]
  <2>1. CASE bytecode' = bytecode /\ job' = job
    BY <1>5, <2>1, Loads DEF OwnTexts
  <2>2. CASE http[url] # Unset /\ Compiles(t, url, http[url]) /\ UNCHANGED job
    BY <1>5, <2>2, Loads, Found DEF OwnTexts
  <2>3. CASE job' = [job EXCEPT ![t] = Job(a, url)] /\ UNCHANGED bytecode
    BY <1>5, <2>3, Loads DEF OwnTexts, Job, TypeInv
  <2> QED BY <1>5, <2>1, <2>2, <2>3, Loads
<1>6. ASSUME NEW t \in Threads, Fetched(t) PROVE OwnTexts'
  <2> DEFINE url == job[t].key
  <2>1. Text(url, 0).of = url
    BY DEF Text
  <2>2. \A u \in Sources : http'[u] # Unset => http'[u].of = u
    BY <1>6, <2>1, Fetches DEF OwnTexts, TypeInv
  <2>3. \A s \in Threads, k \in Keys : bytecode'[s][k] # Unset => bytecode'[s][k].of = k
    BY <1>6, <2>1, Fetches, Found DEF OwnTexts
  <2> QED BY <1>6, <2>2, <2>3, Fetches DEF OwnTexts, TypeInv
<1>7. ASSUME NEW t \in Threads, FetchFails(t) PROVE OwnTexts'
  <2>1. Text(job[t].key, 0).of = job[t].key
    BY DEF Text
  <2>2. \A u \in Sources : http'[u] # Unset => http'[u].of = u
    BY <1>7, <2>1 DEF FetchFails, OwnTexts, TypeInv
  <2> QED BY <1>7, <2>2 DEF FetchFails, OwnTexts, TypeInv
<1>8. ASSUME NEW t \in Threads, LoadLibrary(t) PROVE OwnTexts'
  BY <1>8 DEF LoadLibrary, Job, OwnTexts, TypeInv
<1>9. ASSUME NEW t \in Threads, ReadLibrary(t) PROVE OwnTexts'
  <2>1. job[t] \in Jobs
    BY <1>9 DEF ReadLibrary, TypeInv
  <2>2. TimeFirst(job[t]).text # Unset => TimeFirst(job[t]).text.of = Library
    BY <1>9, <2>1 DEF TimeFirst, Text, OwnTexts, Jobs, ReadLibrary
  <2> QED BY <1>9, <2>2 DEF ReadLibrary, OwnTexts, TypeInv
<1>10. ASSUME NEW t \in Threads, CompileLibrary(t) PROVE OwnTexts'
  <2>1. \A s \in Threads, k \in Keys : bytecode'[s][k] # Unset => bytecode'[s][k].of = k
    BY <1>10, LibraryNamed, Found DEF CompileLibrary, OwnTexts
  <2> QED BY <1>10, <2>1 DEF CompileLibrary, OwnTexts, TypeInv
<1>11. ASSUME NEW t \in Threads, Reset(t) PROVE OwnTexts'
  BY <1>11 DEF Reset, OwnTexts
<1> QED BY <1>1, <1>2, <1>3, <1>5, <1>6, <1>7, <1>8, <1>9, <1>10, <1>11 DEF ModulesNext

-----------------------------------------------------------------------------
(* The time that a thread has of the library is older than the file's, or the text with it is *)
(* the file's.                                                                                *)
LEMMA TimesHonestKept ==
    ASSUME ModulesAssumption, TypeInv, TimesHonest, ModulesNext PROVE TimesHonest'
<1>1. CASE Configure
  BY <1>1 DEF Configure, TimesHonest, AsOf
<1>2. CASE Tick
  BY <1>2 DEF Tick, TimesHonest, AsOf, TypeInv
<1>3. ASSUME NEW text \in Nat, NEW last \in Nat, Stamped(text, last) PROVE TimesHonest'
  <2>1. library'.time = clock /\ library'.text = text /\ clock \in Nat /\ library.time \in Nat
    BY <1>3 DEF Stamped, TypeInv
  <2>2. UNCHANGED <<clock, bytecode, versions, job>>
    BY <1>3 DEF Stamped
  <2>3. library.time = clock => clock \in twice'
    BY <1>3 DEF Stamped
  <2>4. library.time <= clock
    BY DEF TimesHonest
  <2>5. \A x, time : AsOf(x, time) => AsOf(x, time)'
    BY <2>1, <2>3, <2>4 DEF AsOf
  <2>6. \A s \in Threads : job[s] # Unset /\ job[s].time # Unset => job[s].time \in Nat
    BY DEF TypeInv, Jobs
  <2> QED BY <2>1, <2>2, <2>4, <2>5, <2>6 DEF TimesHonest
<1>4. CASE BeginSave \/ EndSave
  BY <1>3, <1>4 DEF BeginSave, EndSave, TypeInv
<1>5. ASSUME NEW t \in Threads, NEW a \in Aliases, LoadPackage(t, a) PROVE TimesHonest'
  <2> DEFINE url == packages[a]
  <2>0. UNCHANGED <<library, clock, versions, twice>>
    BY <1>5, Loads
  <2>1. CASE bytecode' = bytecode /\ job' = job
    BY <2>0, <2>1 DEF TimesHonest, AsOf
  <2>2. CASE Compiles(t, url, http[url]) /\ UNCHANGED job
    <3>1. \A s \in Threads : bytecode'[s][Library] = bytecode[s][Library]
      BY <1>5, <2>2, Loads, LibraryNamed, Found
    <3> QED BY <2>0, <2>2, <3>1 DEF TimesHonest, AsOf
  <2>3. CASE job' = [job EXCEPT ![t] = Job(a, url)] /\ UNCHANGED bytecode
    BY <2>0, <2>3 DEF TimesHonest, AsOf, Job, TypeInv
  <2> QED BY <1>5, <2>1, <2>2, <2>3, Loads
<1>6. ASSUME NEW t \in Threads, Fetched(t) PROVE TimesHonest'
  <2>1. \A s \in Threads : bytecode'[s][Library] = bytecode[s][Library]
    BY <1>6, Fetches, LibraryNamed, Found
  <2> QED BY <1>6, <2>1, Fetches DEF TimesHonest, AsOf, TypeInv
<1>7. ASSUME NEW t \in Threads, FetchFails(t) PROVE TimesHonest'
  BY <1>7 DEF FetchFails, TimesHonest, AsOf, TypeInv
<1>8. ASSUME NEW t \in Threads, LoadLibrary(t) PROVE TimesHonest'
  BY <1>8 DEF LoadLibrary, Job, TimesHonest, AsOf, TypeInv
<1>9. ASSUME NEW t \in Threads, ReadLibrary(t) PROVE TimesHonest'
  <2>1. job[t] \in Jobs /\ library.time \in Nat
    BY <1>9 DEF ReadLibrary, TypeInv
  <2> DEFINE j == TimeFirst(job[t])
  <2>2. j.time # Unset => j.time <= library.time
    BY <1>9, <2>1 DEF TimeFirst, TimesHonest, ReadLibrary, Jobs
  <2>3. j.text # Unset => j.time # Unset /\ AsOf(j.text, j.time)
    <3>1. CASE job[t].time = Unset
      BY <1>9, <2>1, <3>1 DEF TimeFirst, TimesHonest, ReadLibrary, Jobs
    <3>2. CASE job[t].time # Unset
      <4>1. j.text = Text(Library, library.text) /\ j.time = job[t].time
        BY <2>1, <3>2 DEF TimeFirst, Jobs
      <4>2. j.time \in Nat /\ j.time <= library.time
        BY <1>9, <2>1, <3>2, <4>1 DEF TimesHonest, ReadLibrary, Jobs
      <4> QED BY <3>2, <4>1, <4>2 DEF AsOf, Text
    <3> QED BY <3>1, <3>2
  <2>4. \A s \in Threads : job'[s] = IF s = t THEN j ELSE job[s]
    BY <1>9 DEF ReadLibrary, TypeInv
  <2>5. UNCHANGED <<library, clock, bytecode, versions, twice>>
    BY <1>9 DEF ReadLibrary
  <2> HIDE DEF j
  <2> QED BY <2>2, <2>3, <2>4, <2>5 DEF TimesHonest, AsOf
<1>10. ASSUME NEW t \in Threads, CompileLibrary(t) PROVE TimesHonest'
  <2>1. job[t] # Unset /\ job[t].text # Unset
    BY <1>10 DEF CompileLibrary
  <2>2. AsOf(job[t].text, job[t].time)
    BY <2>1 DEF TimesHonest
  <2>3. \A s \in Threads :
            /\ bytecode'[s][Library] = IF s = t THEN job[t].text ELSE bytecode[s][Library]
            /\ versions'[s] = IF s = t THEN job[t].time ELSE versions[s]
            /\ job'[s] = IF s = t THEN Unset ELSE job[s]
    BY <1>10, LibraryNamed, Found DEF CompileLibrary, TypeInv
  <2>4. UNCHANGED <<library, clock, twice>>
    BY <1>10 DEF CompileLibrary
  <2> QED BY <2>2, <2>3, <2>4 DEF TimesHonest, AsOf
<1>11. ASSUME NEW t \in Threads, Reset(t) PROVE TimesHonest'
  BY <1>11 DEF Reset, TimesHonest, AsOf
<1> QED BY <1>1, <1>2, <1>4, <1>5, <1>6, <1>7, <1>8, <1>9, <1>10, <1>11 DEF ModulesNext

(* A package that is dropped while its source is fetched is among the late ones.              *)
LEMMA JobsNamedKept ==
    ASSUME ModulesAssumption, TypeInv, JobsNamed, ModulesNext PROVE JobsNamed'
<1>1. CASE Configure
  <2>1. PICK p \in Configurations :
            /\ packages' = p
            /\ late' = {job[t].key : t \in {t \in Threads : job[t] # Unset}}
                           \ ({p[a] : a \in Aliases} \cup {Library})
    BY <1>1 DEF Configure
  <2>2. \A t \in Threads : job[t] # Unset => job[t].key # Unset \/ job[t].key = Library
    BY DEF TypeInv, Jobs, Paths, ModulesAssumption
  <2>3. Urls' = {p[a] : a \in Aliases} \ {Unset}
    BY <2>1 DEF Urls
  <2>4. UNCHANGED job
    BY <1>1 DEF Configure
  <2> QED BY <2>1, <2>2, <2>3, <2>4 DEF JobsNamed
<1>2. CASE Tick \/ BeginSave \/ EndSave
  BY <1>2 DEF Tick, BeginSave, EndSave, Stamped, JobsNamed, Urls
<1>5. ASSUME NEW t \in Threads, NEW a \in Aliases, LoadPackage(t, a) PROVE JobsNamed'
  <2>1. UNCHANGED <<packages, late>> /\ packages[a] \in Urls
    BY <1>5, Loads
  <2>2. job' = job \/ job' = [job EXCEPT ![t] = Job(a, packages[a])]
    BY <1>5, Loads
  <2> QED BY <2>1, <2>2 DEF JobsNamed, Job, TypeInv, Urls
<1>6. ASSUME NEW t \in Threads, Fetched(t) PROVE JobsNamed'
  BY <1>6, Fetches DEF JobsNamed, TypeInv, Urls
<1>7. ASSUME NEW t \in Threads, FetchFails(t) PROVE JobsNamed'
  BY <1>7 DEF FetchFails, JobsNamed, TypeInv, Urls
<1>8. ASSUME NEW t \in Threads, LoadLibrary(t) PROVE JobsNamed'
  BY <1>8 DEF LoadLibrary, Job, JobsNamed, TypeInv, Urls
<1>9. ASSUME NEW t \in Threads, ReadLibrary(t) PROVE JobsNamed'
  <2>1. job[t] \in Jobs
    BY <1>9 DEF ReadLibrary, TypeInv
  <2>2. TimeFirst(job[t]).key = job[t].key
    BY <2>1 DEF TimeFirst, Jobs
  <2> QED BY <1>9, <2>2 DEF ReadLibrary, JobsNamed, TypeInv, Urls
<1>10. ASSUME NEW t \in Threads, CompileLibrary(t) PROVE JobsNamed'
  BY <1>10 DEF CompileLibrary, JobsNamed, TypeInv, Urls
<1>11. ASSUME NEW t \in Threads, Reset(t) PROVE JobsNamed'
  BY <1>11 DEF Reset, JobsNamed, Urls
<1> QED BY <1>1, <1>2, <1>5, <1>6, <1>7, <1>8, <1>9, <1>10, <1>11 DEF ModulesNext

(* A text is provided for what it was asked for as.                                           *)
LEMMA SourceAskedKept ==
    ASSUME ModulesAssumption, TypeInv, OwnTexts, SourceAsked, ModulesNext PROVE SourceAsked'
<1>0. ASSUME UNCHANGED context PROVE SourceAsked'
  BY <1>0 DEF SourceAsked
<1>1. ASSUME NEW t \in Threads, NEW name \in Names, NEW key, NEW text, text.of = key,
             Provides(t, name, key, text)
      PROVE  SourceAsked'
  <2>1. \A s \in Threads, n \in Names :
            context'[s][n] = IF s = t /\ n = name THEN [asked |-> key, text |-> text]
                             ELSE context[s][n]
    BY <1>1, Given
  <2>2. [asked |-> key, text |-> text].text.of = [asked |-> key, text |-> text].asked
    BY <1>1
  <2> QED BY <2>1, <2>2 DEF SourceAsked, Names
<1>2. CASE Configure \/ Tick \/ BeginSave \/ EndSave
  BY <1>0, <1>2 DEF Configure, Tick, BeginSave, EndSave, Stamped
<1>5. ASSUME NEW t \in Threads, NEW a \in Aliases, LoadPackage(t, a) PROVE SourceAsked'
  <2> DEFINE url == packages[a]
  <2>1. CASE bytecode[t][url] # Unset /\ Provides(t, a, url, bytecode[t][url])
    <3>1. bytecode[t][url].of = url
      BY <1>5, <2>1, Loads DEF OwnTexts
    <3> QED BY <1>1, <1>5, <2>1, <3>1, Loads
  <2>2. CASE http[url] # Unset /\ Provides(t, a, url, http[url])
    <3>1. http[url].of = url
      BY <1>5, <2>2, Loads DEF OwnTexts
    <3> QED BY <1>1, <1>5, <2>2, <3>1, Loads
  <2> QED BY <1>0, <1>5, <2>1, <2>2, Loads
<1>6. ASSUME NEW t \in Threads, Fetched(t) PROVE SourceAsked'
  <2>1. Text(job[t].key, 0).of = job[t].key
    BY DEF Text
  <2> QED BY <1>1, <1>6, <2>1, Fetches
<1>7. ASSUME NEW t \in Threads, FetchFails(t) \/ ReadLibrary(t) PROVE SourceAsked'
  BY <1>0, <1>7 DEF FetchFails, ReadLibrary
<1>8. ASSUME NEW t \in Threads, LoadLibrary(t) PROVE SourceAsked'
  <2>1. CASE UpToDate(t)
    <3>1. bytecode[t][Library].of = Library
      BY <2>1, LibraryNamed DEF UpToDate, OwnTexts
    <3> QED BY <1>1, <1>8, <2>1, <3>1, LibraryNamed DEF LoadLibrary
  <2> QED BY <1>0, <1>8, <2>1 DEF LoadLibrary
<1>10. ASSUME NEW t \in Threads, CompileLibrary(t) PROVE SourceAsked'
  <2>1. job[t].text.of = Library
    BY <1>10 DEF CompileLibrary, OwnTexts
  <2> QED BY <1>1, <1>10, <2>1, LibraryNamed DEF CompileLibrary
<1>11. ASSUME NEW t \in Threads, Reset(t) PROVE SourceAsked'
  BY <1>11 DEF Reset, SourceAsked, TypeInv
<1> QED BY <1>2, <1>5, <1>6, <1>7, <1>8, <1>10, <1>11 DEF ModulesNext

(* The sources kept are those of packages, or late.                                           *)
LEMMA OnlyPackagesKept ==
    ASSUME ModulesAssumption, TypeInv, JobsNamed, OnlyPackages, ModulesNext PROVE OnlyPackages'
<1>0. ASSUME UNCHANGED <<packages, http, late>> PROVE OnlyPackages'
  BY <1>0 DEF OnlyPackages, Urls
<1>1. CASE Configure
  <2>1. PICK p \in Configurations : packages' = p /\ http' = KeptOf({p[a] : a \in Aliases})
    BY <1>1 DEF Configure
  <2> QED BY <2>1 DEF OnlyPackages, KeptOf, Urls, ModulesAssumption
<1>2. CASE Tick \/ BeginSave \/ EndSave
  BY <1>0, <1>2 DEF Tick, BeginSave, EndSave, Stamped
<1>5. ASSUME NEW t \in Threads, NEW a \in Aliases, LoadPackage(t, a) PROVE OnlyPackages'
  BY <1>0, <1>5, Loads
<1>6. ASSUME NEW t \in Threads, Fetched(t) PROVE OnlyPackages'
  <2>1. job[t].key \in Urls \cup late
    BY <1>6, Fetches DEF JobsNamed
  <2>2. \A u \in Sources : u # job[t].key => http'[u] = http[u]
    BY <1>6, Fetches DEF TypeInv
  <2> QED BY <1>6, <2>1, <2>2, Fetches DEF OnlyPackages, Urls
<1>7. ASSUME NEW t \in Threads, FetchFails(t) PROVE OnlyPackages'
  <2>1. job[t].key \in Urls \cup late
    BY <1>7 DEF FetchFails, JobsNamed
  <2>2. \A u \in Sources : u # job[t].key => http'[u] = http[u]
    BY <1>7 DEF FetchFails, TypeInv
  <2> QED BY <1>7, <2>1, <2>2 DEF FetchFails, OnlyPackages, Urls
<1>8. ASSUME NEW t \in Threads,
             LoadLibrary(t) \/ ReadLibrary(t) \/ CompileLibrary(t) \/ Reset(t)
      PROVE  OnlyPackages'
  BY <1>0, <1>8 DEF LoadLibrary, ReadLibrary, CompileLibrary, Reset
<1> QED BY <1>1, <1>2, <1>5, <1>6, <1>7, <1>8 DEF ModulesNext

-----------------------------------------------------------------------------
LEMMA ModulesBegins == ASSUME ModulesInit PROVE Inv
<1>1. TypeInv
  BY DEF ModulesInit, TypeInv, Contexts, Compiled, Keys, Names
<1>2. OwnTexts /\ SourceAsked
  BY DEF ModulesInit, OwnTexts, SourceAsked, Keys
<1>3. TimesHonest
  BY LibraryNamed DEF ModulesInit, TimesHonest, Keys
<1>4. JobsNamed /\ OnlyPackages
  BY DEF ModulesInit, JobsNamed, OnlyPackages
<1> QED BY <1>1, <1>2, <1>3, <1>4 DEF Inv

LEMMA InvKept == ASSUME ModulesAssumption, Inv, [ModulesNext]_modulesVars PROVE Inv'
<1>1. CASE ModulesNext
  BY <1>1, TypesKept, OwnTextsKept, TimesHonestKept, JobsNamedKept, SourceAskedKept,
     OnlyPackagesKept DEF Inv
<1>2. CASE UNCHANGED modulesVars
  BY <1>2 DEF modulesVars, Inv, TypeInv, OwnTexts, TimesHonest, AsOf, JobsNamed, Urls,
     SourceAsked, OnlyPackages
<1> QED BY <1>1, <1>2

(* Bytecode that is as new as the file has the file's own time. *)
LEMMA InvSaysCurrent == ASSUME Inv PROVE ImportsCurrent
<1>1. ASSUME NEW t \in Threads, UpToDate(t)
      PROVE  bytecode[t][Library].rev = library.text \/ library.time \in twice
  <2>1. AsOf(bytecode[t][Library], versions[t])
    BY <1>1 DEF Inv, TimesHonest, UpToDate
  <2>2. versions[t] = library.time
    BY <1>1, <2>1 DEF UpToDate, AsOf, Inv, TypeInv
  <2> QED BY <2>1, <2>2 DEF AsOf
<1> QED BY <1>1 DEF Inv, ImportsCurrent, LibraryCurrent

(* Whoever saves, configures and imports in whatever order: bytecode that serves is the       *)
(* file's, a context has what its package named, and what is kept is a package's              *)
(* (Module::load, cache_save, http_response and set_packages, from any number of threads).    *)
THEOREM ImportsAreCurrent == ModulesSpec => []ImportsCurrent
<1>1. ModulesInit => Inv
  BY ModulesBegins
<1>2. Inv /\ [ModulesNext]_modulesVars => Inv'
  BY InvKept, ModulesAssumption
<1>3. Inv => ImportsCurrent
  BY InvSaysCurrent
<1> QED BY <1>1, <1>2, <1>3, PTL DEF ModulesSpec
=============================================================================

-------------------------------- MODULE Paths ---------------------------------
(* The module noto:fs: a virtual file system of mounts, what scripts do with its paths, and   *)
(* the reading and writing of files, which the I/O thread does in pieces of 16 KB while       *)
(* scripts go on.  Paths are sequences of names, as they are spelled: path() accepts what is  *)
(* mounted in normal form, and keeps the spelling.                                            *)
EXTENDS Naturals, FiniteSets, SequencesExt

CONSTANTS
    FileNames,   \* the names of files and directories
    Tables,      \* the mounts: virtual paths, and the native directory and access of each
    Virtuals,    \* the paths that scripts make; ".." may be in them
    Hidden,      \* the names that begin with a dot
    Trees,       \* the files there are at first
    Sizes,       \* how many pieces a text may have
    MaxTasks,    \* bounds the files read and written
    MaxChanges   \* bounds what else is done

VARIABLES
    mount,       \* the mounts of the configuration
    tree,        \* the native directories, and the inodes of files
    inode,       \* what is in a file: pieces
    task,        \* the reads and writes begun
    changes,     \* how much was done
    meant        \* ghost: what a file had in it when only appending began, and who appended

pathsVars == <<mount, tree, inode, task, changes, meant>>

Up == ".."
Spelled == FileNames \cup {Up}
Dir == 0
Nowhere == <<"nowhere">>
Unsure == [sure |-> FALSE, base |-> <<>>, adds |-> {}]
Certain(text) == [sure |-> TRUE, base |-> text, adds |-> {}]

(* A piece of a file: whose it is, and which of its pieces; nobody's where there is a hole.   *)
Piece(t, k) == [by |-> t, k |-> k]
Hole == Piece(0, 0)

Access == [root : Seq(FileNames), rw : BOOLEAN]

ASSUME PathsAssumption ==
    /\ MaxTasks \in Nat /\ MaxChanges \in Nat /\ Sizes \subseteq Nat
    /\ Up \notin FileNames /\ Virtuals \subseteq Seq(Spelled)
    /\ \A table \in Tables :
         \A q \in DOMAIN table : q \in Seq(FileNames) /\ table[q] \in Access
    /\ \A t \in Trees :
         /\ IsFiniteSet(DOMAIN t) /\ <<>> \in DOMAIN t /\ t[<<>>] = Dir
         /\ Nowhere \notin DOMAIN t
         /\ \A n \in DOMAIN t : n \in Seq(FileNames) /\ t[n] \in Nat

-----------------------------------------------------------------------------
(* lexically_normal() of an absolute path.                                                    *)
Normal(p) ==
    LET upto[i \in 0 .. Len(p)] ==
          IF i = 0 THEN <<>>
          ELSE IF p[i] # Up THEN Append(upto[i - 1], p[i])
          ELSE IF upto[i - 1] = <<>> THEN <<>> ELSE Front(upto[i - 1])
    IN upto[Len(p)]

(* In normal form a path that ends in ".." has a slash at its end: it names no file.          *)
Slashed(p) == p # <<>> /\ Last(p) = Up

(* The mounts are tried the innermost first, with the path as it is spelled.  A name that     *)
(* begins with a dot, as ".." does, is not under the mount it is next to; the mount itself is *)
(* there, but cannot be written.  The native path is put into normal form: a path that goes   *)
(* up often enough leaves the directory of its mount, with the access of that mount.          *)
Under(p, q) == IsPrefix(q, p) /\ (Len(p) > Len(q) => p[Len(q) + 1] \notin Hidden \cup {Up})

MountsOf(p) == {q \in DOMAIN mount : Under(p, q)}
MountOf(p) == CHOOSE q \in MountsOf(p) : \A other \in MountsOf(p) : Len(other) <= Len(q)
Rest(p, q) == SubSeq(p, Len(q) + 1, Len(p))

IsMounted(p) == MountsOf(p) # {}
NativeOf(p) ==
    IF ~IsMounted(p) THEN Nowhere
    ELSE LET q == MountOf(p) IN Normal(mount[q].root \o Rest(p, q))
RW(p) == IsMounted(p) /\ p \notin DOMAIN mount /\ mount[MountOf(p)].rw

-----------------------------------------------------------------------------
(* The native file system. *)
There(n) == n \in DOMAIN tree
IsDir(n) == There(n) /\ tree[n] = Dir
IsFile(n) == There(n) /\ tree[n] # Dir
Below(n) == {m \in DOMAIN tree : IsPrefix(n, m)}
Children(n) == {m \in Below(n) : Len(m) = Len(n) + 1}
Creatable(n) == n # <<>> /\ n # Nowhere /\ IsDir(Front(n))
FileAt(p) == IsFile(NativeOf(p)) /\ ~Slashed(p)

(* A script has the paths that it makes, their parents that are mounted as they are spelled   *)
(* (which is any such path), and those that a directory is found to have in it.               *)
Having ==
    {p \in Virtuals :
        \/ IsMounted(Normal(p)) \/ IsMounted(p)
        \/ (/\ p # <<>> /\ IsMounted(Front(p))
            /\ There(Append(NativeOf(Front(p)), Last(p))))}

Going(t) == task[t].at # "done"
Writers(i) == {t \in DOMAIN task : task[t].kind = "write" /\ task[t].inode = i /\ Going(t)}

(* Whoever reads a file that is changed meanwhile may see anything. *)
Disturbed(i) ==
    [t \in DOMAIN task |->
        IF task[t].kind = "read" /\ task[t].inode = i /\ Going(t)
        THEN [task[t] EXCEPT !.sure = FALSE] ELSE task[t]]

(* A name has a new file, or what it had is another's. *)
WithName(n, i) == [m \in DOMAIN tree \cup {n} |-> IF m = n THEN i ELSE tree[m]]
NewInode == Len(inode) + 1

-----------------------------------------------------------------------------
(* What scripts do at once.  What fails changes nothing. *)
Deeds == changes < MaxChanges /\ changes' = changes + 1

(* What a copy of a file should have in it. *)
MeantBy(i) == IF Writers(i) = {} THEN Certain(inode[i]) ELSE Unsure

(* copy_file: over a file that is there, or a new one. *)
CopyOneFile(from, to, over) ==
    LET i == tree[from] IN
    IF There(to)
    THEN LET j == tree[to] IN
         /\ IsFile(to) /\ over /\ j # i
         /\ inode' = [inode EXCEPT ![j] = inode[i]]
         /\ meant' = [meant EXCEPT ![j] = IF Writers(j) = {} THEN MeantBy(i) ELSE Unsure]
         /\ task' = Disturbed(j)
         /\ UNCHANGED tree
    ELSE /\ Creatable(to)
         /\ tree' = WithName(to, NewInode)
         /\ inode' = Append(inode, inode[i])
         /\ meant' = Append(meant, MeantBy(i))
         /\ UNCHANGED task

(* A directory is copied without the directories in it, and not at all by a copy that         *)
(* overwrites.  It stops at a file that is there already: what was copied before is left.     *)
CopyDir(from, to, over) ==
    /\ ~over /\ from # to /\ (IsDir(to) \/ (~There(to) /\ Creatable(to)))
    /\ LET files == {m \in Children(from) : IsFile(m)}
           Target(m) == Append(to, Last(m))
           clash == {m \in files : There(Target(m))}
       IN \E done \in SUBSET (files \ clash) :
            /\ clash = {} => done = files
            /\ LET list == SetToSeq(done)
                   Copied(n) == {k \in DOMAIN list : Target(list[k]) = n}
               IN /\ tree' = [n \in DOMAIN tree \cup {to} \cup {Target(m) : m \in done} |->
                                IF Copied(n) # {} THEN Len(inode) + CHOOSE k \in Copied(n) : TRUE
                                ELSE IF n = to THEN Dir ELSE tree[n]]
                  /\ inode' = inode \o [k \in DOMAIN list |-> inode[tree[list[k]]]]
                  /\ meant' = meant \o [k \in DOMAIN list |-> MeantBy(tree[list[k]])]
    /\ UNCHANGED task

(* Defect: the access to the other path is asked for. *)
MayCopyTo(p, q) == RW(p)

MayCopy(p, q) == RW(q)

Copy(p, q, over) ==
    /\ Deeds
    /\ MayCopy(p, q) /\ There(NativeOf(p))
    /\ LET from == NativeOf(p)
           to == NativeOf(q)
       IN \/ FileAt(p) /\ ~IsDir(to) /\ ~Slashed(q) /\ CopyOneFile(from, to, over)
          \/ FileAt(p) /\ IsDir(to) /\ CopyOneFile(from, Append(to, Last(from)), over)
          \/ IsDir(from) /\ CopyDir(from, to, over)
    /\ UNCHANGED mount

(* rename: a file over a file, a directory over an empty one, never into itself. *)
Move(p, q) ==
    LET from == NativeOf(p)
        to == NativeOf(q)
        Moved(n) == to \o Rest(n, from)
    IN /\ Deeds
       /\ RW(q) /\ RW(p)
       /\ There(from) /\ to # from /\ Creatable(to) /\ ~IsPrefix(from, to)
       /\ There(to) => (IsDir(from) <=> IsDir(to)) /\ Children(to) = {}
       /\ IsFile(from) => ~Slashed(p) /\ ~Slashed(q)
       /\ tree' = [m \in {Moved(n) : n \in Below(from)} \cup (DOMAIN tree \ Below(from)) |->
                     IF \E n \in Below(from) : Moved(n) = m
                     THEN tree[CHOOSE n \in Below(from) : Moved(n) = m] ELSE tree[m]]
       /\ UNCHANGED <<mount, inode, task, meant>>

MakeDir(p, recursive) ==
    LET n == NativeOf(p)
        made == IF recursive THEN {SubSeq(n, 1, k) : k \in 1 .. Len(n)} ELSE {n}
    IN /\ Deeds
       /\ RW(p) /\ ~There(n)
       /\ IF recursive THEN \A m \in made : ~IsFile(m) ELSE Creatable(n)
       /\ tree' = [m \in DOMAIN tree \cup made |-> IF There(m) THEN tree[m] ELSE Dir]
       /\ UNCHANGED <<mount, inode, task, meant>>

(* Whoever reads or writes a file goes on when its name is gone.  The native root stays.      *)
RemovePath(p, recursive) ==
    LET n == NativeOf(p)
    IN /\ Deeds
       /\ RW(p) /\ There(n) /\ (IsFile(n) => ~Slashed(p))
       /\ recursive \/ Children(n) = {}
       /\ tree' = [m \in DOMAIN tree \ (Below(n) \ {<<>>}) |-> tree[m]]
       /\ UNCHANGED <<mount, inode, task, meant>>

-----------------------------------------------------------------------------
(* The file is opened at once, and emptied unless the text is appended; the I/O thread writes *)
(* the text later, 16 KB at a time.  A last piece that is short may stay in the stream until  *)
(* it is closed, which is before the script hears of it.                                      *)
Begun(kind, i, size, append, sure, want) ==
    [kind |-> kind, inode |-> i, size |-> size, append |-> append, at |-> "going", pos |-> 0,
     kept |-> FALSE, got |-> <<>>, sure |-> sure, want |-> want]

MeantNow(i, t, append) ==
    IF ~append
    THEN IF Writers(i) = {} THEN [Certain(<<>>) EXCEPT !.adds = {t}] ELSE Unsure
    ELSE IF Writers(i) = {} THEN [Certain(inode[i]) EXCEPT !.adds = {t}]
    ELSE IF meant[i].sure /\ \A u \in Writers(i) : task[u].append
    THEN [meant[i] EXCEPT !.adds = @ \cup {t}]
    ELSE Unsure

StartWrite(p, size, append) ==
    LET n == NativeOf(p)
        t == Len(task) + 1
        new == ~There(n)
        i == IF new THEN NewInode ELSE tree[n]
    IN /\ t <= MaxTasks
       /\ RW(p)
       /\ FileAt(p) \/ (new /\ Creatable(n) /\ ~Slashed(p))
       /\ IF new
          THEN /\ tree' = WithName(n, i)
               /\ inode' = Append(inode, <<>>)
               /\ meant' = Append(meant, [Certain(<<>>) EXCEPT !.adds = {t}])
          ELSE /\ inode' = IF append THEN inode ELSE [inode EXCEPT ![i] = <<>>]
               /\ meant' = [meant EXCEPT ![i] = MeantNow(i, t, append)]
               /\ UNCHANGED tree
       /\ task' = Append(Disturbed(i), Begun("write", i, size, append, TRUE, <<>>))
       /\ UNCHANGED <<mount, changes>>

(* Defect: what is appended goes to the place it was left at. *)
WithAt(text, pos, append, piece) ==
    [k \in 1 .. IF pos > Len(text) THEN pos ELSE Len(text) |->
        IF k = pos THEN piece ELSE IF k <= Len(text) THEN text[k] ELSE Hole]

(* What is appended goes to the end there is by then; other text to the place it was left at. *)
With(text, pos, append, piece) ==
    IF append THEN Append(text, piece)
    ELSE [k \in 1 .. IF pos > Len(text) THEN pos ELSE Len(text) |->
            IF k = pos THEN piece ELSE IF k <= Len(text) THEN text[k] ELSE Hole]

PutPiece(t, pos) ==
    LET w == task[t]
    IN inode' = [inode EXCEPT ![w.inode] = With(@, pos, w.append, Piece(t, pos))]

StepWrite(t) ==
    LET w == task[t]
        next == w.pos + 1
        end == next >= w.size
    IN /\ w.kind = "write" /\ w.at = "going"
       /\ \E keep \in BOOLEAN :
            /\ keep => next = w.size
            /\ task' = [task EXCEPT ![t].pos = next, ![t].kept = keep,
                                    ![t].at = IF end THEN "ending" ELSE "going"]
            /\ IF keep \/ next > w.size THEN UNCHANGED inode ELSE PutPiece(t, next)
       /\ UNCHANGED <<mount, tree, changes, meant>>

(* Defect: the script hears of it before the stream is closed. *)
Unflushed(t) == UNCHANGED inode

Flushed(t) == IF task[t].kept THEN PutPiece(t, task[t].pos) ELSE UNCHANGED inode

ThenWrite(t) ==
    /\ task[t].kind = "write" /\ task[t].at = "ending"
    /\ task' = [task EXCEPT ![t].at = "done", ![t].kept = FALSE]
    /\ Flushed(t)
    /\ UNCHANGED <<mount, tree, changes, meant>>

(* A file is read until less than 16 KB are got.  The last piece may be short, or whole: then *)
(* one more step finds nothing.                                                               *)
StartRead(p) ==
    LET n == NativeOf(p)
    IN /\ Len(task) < MaxTasks
       /\ FileAt(p)
       /\ task' = Append(task, Begun("read", tree[n], 0, FALSE, Writers(tree[n]) = {},
                                     inode[tree[n]]))
       /\ UNCHANGED <<mount, tree, inode, changes, meant>>

StepRead(t) ==
    LET me == task[t]
        text == inode[me.inode]
        more == me.pos < Len(text)
    IN /\ me.kind = "read" /\ me.at = "going"
       /\ \E end \in BOOLEAN :
            /\ me.pos + 1 < Len(text) => ~end
            /\ ~more => end
            /\ task' = [task EXCEPT ![t].pos = IF more THEN @ + 1 ELSE @,
                                    ![t].got = IF more THEN Append(@, text[me.pos + 1]) ELSE @,
                                    ![t].at = IF end THEN "ending" ELSE "going"]
       /\ UNCHANGED <<mount, tree, inode, changes, meant>>

ThenRead(t) ==
    /\ task[t].kind = "read" /\ task[t].at = "ending"
    /\ task' = [task EXCEPT ![t].at = "done"]
    /\ UNCHANGED <<mount, tree, inode, changes, meant>>

-----------------------------------------------------------------------------
PathsInit ==
    /\ mount \in Tables
    /\ \E files \in Trees :
         \E list \in {SetToSeq({n \in DOMAIN files : files[n] # Dir})} :
            /\ tree = [n \in DOMAIN files |->
                         IF files[n] = Dir THEN Dir ELSE CHOOSE k \in DOMAIN list : list[k] = n]
            /\ inode = [k \in DOMAIN list |-> [j \in 1 .. files[list[k]] |-> Piece(0, k * 10 + j)]]
            /\ meant = [k \in DOMAIN list |-> Certain(inode[k])]
    /\ task = <<>>
    /\ changes = 0

PathsNext ==
    \/ \E p, q \in Having : \E over \in BOOLEAN : Copy(p, q, over)
    \/ \E p, q \in Having : Move(p, q)
    \/ \E p \in Having, recursive \in BOOLEAN : MakeDir(p, recursive)
    \/ \E p \in Having, recursive \in BOOLEAN : RemovePath(p, recursive)
    \/ \E p \in Having, size \in Sizes, append \in BOOLEAN : StartWrite(p, size, append)
    \/ \E p \in Having : StartRead(p)
    \/ \E t \in DOMAIN task : StepWrite(t)
    \/ \E t \in DOMAIN task : ThenWrite(t)
    \/ \E t \in DOMAIN task : StepRead(t)
    \/ \E t \in DOMAIN task : ThenRead(t)

PathsSpec == PathsInit /\ [][PathsNext]_pathsVars

-----------------------------------------------------------------------------
(* A file that nobody writes has in it what it had and all that was appended since, whoever   *)
(* appended and however they took turns: no piece is lost, doubled or out of its order.  The  *)
(* only text written to a file from its beginning is all there is in it.  A file that nobody  *)
(* changes is read as it is.                                                                  *)
Whole(i) ==
    LET text == inode[i]
        m == meant[i]
        added == Len(m.base) + 1 .. Len(text)
    IN /\ IsPrefix(m.base, text)
       /\ \A k \in added : text[k].by \in m.adds /\ text[k].k \in 1 .. task[text[k].by].size
       /\ \A t \in m.adds : \A j \in 1 .. task[t].size : \E k \in added : text[k] = Piece(t, j)
       /\ \A k, l \in added : k < l /\ text[k].by = text[l].by => text[k].k < text[l].k

TextsWhole ==
    /\ \A i \in DOMAIN inode : Writers(i) = {} /\ meant[i].sure => Whole(i)
    /\ \A t \in DOMAIN task :
         task[t].kind = "read" /\ task[t].at = "done" /\ task[t].sure => task[t].got = task[t].want

(* What is not in a directory mounted for writing stays as it is, whatever scripts copy and   *)
(* move there and from there; only the directories that lead to what may be written may be    *)
(* made.  It does not hold of what is named by a path that strays: one that is writable as it *)
(* is spelled, with "..", and whose normal form is outside of the directory of its mount (the *)
(* native path alone is put into normal form, fs.cpp:238-272, 692-695; fs.yml:42, 293).       *)
ForScripts(n) ==
    \E q \in DOMAIN mount : mount[q].rw /\ IsPrefix(mount[q].root, n) /\ n # mount[q].root
Strays(p) == RW(p) /\ Up \in Range(p) /\ ~ForScripts(NativeOf(p))

Granted(n) == ForScripts(n) \/ \E p \in Virtuals : Strays(p) /\ IsPrefix(NativeOf(p), n)
LeadsThere(n) ==
    \/ \E q \in DOMAIN mount : mount[q].rw /\ IsPrefix(n, mount[q].root)
    \/ \E p \in Virtuals : Strays(p) /\ IsPrefix(n, NativeOf(p))

Stays(n) ==
    /\ There(n) /\ n \in DOMAIN tree' /\ tree'[n] = tree[n]
    /\ tree[n] # Dir => inode'[tree[n]] = inode[tree[n]]
IsMade(n) == ~There(n) /\ n \in DOMAIN tree' /\ tree'[n] = Dir

ReadOnlyStays ==
    \A n \in DOMAIN tree \cup DOMAIN tree' : Stays(n) \/ Granted(n) \/ (LeadsThere(n) /\ IsMade(n))

ReadOnlyKept == [][ReadOnlyStays]_pathsVars
=============================================================================

----------------------------- MODULE PathsProofs ------------------------------
(* Proofs about the files of scripts: what no mount gives away for writing stays, and texts   *)
(* that are written and appended in turns come out whole.                                     *)
EXTENDS Paths, TLAPS, SequenceTheorems, FiniteSetTheorems, WellFoundedInduction

Pieces == [by : Nat, k : Nat]
Texts == Seq(Pieces)
Meanings == [sure : BOOLEAN, base : Texts, adds : SUBSET Nat]
Tasks ==
    [kind : {"read", "write"}, inode : Nat, size : Nat, append : BOOLEAN,
     at : {"going", "ending", "done"}, pos : Nat, kept : BOOLEAN, got : Texts, sure : BOOLEAN,
     want : Texts]

-----------------------------------------------------------------------------
(* The invariant. *)
MountInv == \A q \in DOMAIN mount : q \in Seq(FileNames) /\ mount[q] \in Access

TreeInv ==
    /\ IsFiniteSet(DOMAIN tree)
    /\ \A n \in DOMAIN tree : n \in Seq(FileNames) /\ tree[n] \in 0 .. Len(inode)
    /\ <<>> \in DOMAIN tree /\ tree[<<>>] = Dir

TextInv ==
    /\ inode \in Seq(Texts) /\ meant \in Seq(Meanings) /\ Len(meant) = Len(inode)
    /\ task \in Seq(Tasks)
    /\ \A t \in DOMAIN task : task[t].inode \in 1 .. Len(inode)

(* A file has one name at most, and whoever still writes to it was let in by that name.       *)
OneName == \A m, n \in DOMAIN tree : tree[m] = tree[n] /\ tree[m] # Dir => m = n

IsWriter(t) == task[t].kind = "write" /\ Going(t)
LetIn ==
    \A t \in DOMAIN task :
        IsWriter(t) => \A n \in DOMAIN tree : tree[n] = task[t].inode => Granted(n)

(* How much of its text a writer has put into the file. *)
Written(w) == IF w.kept THEN w.pos - 1 ELSE IF w.pos <= w.size THEN w.pos ELSE w.size

Stage(w) ==
    w.kind = "write" =>
        /\ w.at # "going" => w.pos >= w.size
        /\ w.at = "going" => ~w.kept /\ (w.pos < w.size \/ w.pos = 0)
        /\ w.kept => w.at = "ending" /\ w.pos = w.size /\ w.pos > 0
StageInv == \A t \in DOMAIN task : Stage(task[t])

(* A file of which it is known what it should have has that, and of each who appends, or      *)
(* writes alone, what was written until now.                                                  *)
Known(text, m, i, tasks) ==
    LET added == Len(m.base) + 1 .. Len(text)
    IN /\ IsPrefix(m.base, text)
       /\ \A t \in m.adds : t \in DOMAIN tasks /\ tasks[t].kind = "write" /\ tasks[t].inode = i
       /\ \A t \in DOMAIN tasks :
            tasks[t].kind = "write" /\ tasks[t].inode = i /\ tasks[t].at # "done" => t \in m.adds
       /\ \A k \in added : text[k].by \in m.adds /\ text[k].k \in 1 .. Written(tasks[text[k].by])
       /\ \A t \in m.adds : \A j \in 1 .. Written(tasks[t]) : \E k \in added : text[k] = Piece(t, j)
       /\ \A k, l \in added : k < l /\ text[k].by = text[l].by => text[k].k < text[l].k
       /\ \A t \in m.adds :
            ~tasks[t].append => m.adds = {t} /\ m.base = <<>> /\ Len(text) = Written(tasks[t])
KnownInv == \A i \in 1 .. Len(inode) : meant[i].sure => Known(inode[i], meant[i], i, task)

(* Whoever reads a file that nobody has touched has the beginning of it, and in the end all.  *)
Reader(r, texts, tasks) ==
    r.kind = "read" /\ r.sure =>
        /\ r.at # "done" =>
             /\ r.want = texts[r.inode]
             /\ \A t \in DOMAIN tasks :
                  ~(tasks[t].kind = "write" /\ tasks[t].inode = r.inode /\ tasks[t].at # "done")
        /\ Len(r.got) = r.pos /\ r.pos <= Len(r.want)
        /\ \A k \in 1 .. r.pos : r.got[k] = r.want[k]
        /\ r.at # "going" => r.pos = Len(r.want)
ReaderInv == \A t \in DOMAIN task : Reader(task[t], inode, task)

PathsInv ==
    MountInv /\ TreeInv /\ TextInv /\ OneName /\ LetIn /\ StageInv /\ KnownInv /\ ReaderInv

-----------------------------------------------------------------------------
(* Sequences: prefixes, name by name. *)
LEMMA PrefixIs ==
    ASSUME NEW S, NEW s \in Seq(S), NEW t \in Seq(S)
    PROVE  IsPrefix(s, t) <=> Len(s) <= Len(t) /\ \A k \in 1 .. Len(s) : s[k] = t[k]
<1>1. SubSeq(s, 1, Len(s)) = s
  BY SubSeqFull
<1>2. CASE Len(s) <= Len(t)
  <2>1. /\ SubSeq(t, 1, Len(s)) \in Seq(S) /\ Len(SubSeq(t, 1, Len(s))) = Len(s)
        /\ \A k \in 1 .. Len(s) : SubSeq(t, 1, Len(s))[k] = t[k]
    <3>1. \A k \in 1 .. Len(s) : t[k] \in S
      BY <1>2, LenProperties, ElementOfSeq
    <3>2. Len(s) \in Nat
      BY LenProperties
    <3> QED BY <3>1, <3>2, SubSeqProperties
  <2>2. s = SubSeq(t, 1, Len(s)) <=> \A k \in 1 .. Len(s) : s[k] = SubSeq(t, 1, Len(s))[k]
    BY <2>1, SeqEqual
  <2> QED BY <1>1, <1>2, <2>1, <2>2 DEF IsPrefix
<1>3. CASE ~(Len(s) <= Len(t))
  BY <1>3 DEF IsPrefix
<1> QED BY <1>2, <1>3

LEMMA PrefixTransitive ==
    ASSUME NEW S, NEW s \in Seq(S), NEW t \in Seq(S), NEW u \in Seq(S),
           IsPrefix(s, t), IsPrefix(t, u)
    PROVE  IsPrefix(s, u)
<1>1. /\ Len(s) <= Len(t) /\ \A k \in 1 .. Len(s) : s[k] = t[k]
      /\ Len(t) <= Len(u) /\ \A k \in 1 .. Len(t) : t[k] = u[k]
  BY PrefixIs
<1>2. Len(s) \in Nat /\ Len(t) \in Nat /\ Len(u) \in Nat
  BY LenProperties
<1>3. Len(s) <= Len(u) /\ \A k \in 1 .. Len(s) : s[k] = u[k]
  BY <1>1, <1>2
<1> QED BY <1>3, PrefixIs

LEMMA PrefixOfConcat ==
    ASSUME NEW S, NEW s \in Seq(S), NEW t \in Seq(S)
    PROVE  s \o t \in Seq(S) /\ IsPrefix(s, s \o t) /\ (t # <<>> => s \o t # s)
<1>1. /\ s \o t \in Seq(S) /\ Len(s \o t) = Len(s) + Len(t)
      /\ \A k \in 1 .. Len(s) + Len(t) : (s \o t)[k] = IF k <= Len(s) THEN s[k] ELSE t[k - Len(s)]
  BY ConcatProperties
<1>2. Len(s) \in Nat /\ Len(t) \in Nat
  BY LenProperties
<1>3. Len(s) <= Len(s \o t) /\ \A k \in 1 .. Len(s) : s[k] = (s \o t)[k]
  BY <1>1, <1>2
<1>4. IsPrefix(s, s \o t)
  BY <1>1, <1>3, PrefixIs
<1>5. t # <<>> => s \o t # s
  BY ConcatEqualIffEmpty
<1> QED BY <1>1, <1>4, <1>5

LEMMA PrefixOfAppend ==
    ASSUME NEW S, NEW s \in Seq(S), NEW e \in S
    PROVE  Append(s, e) \in Seq(S) /\ IsPrefix(s, Append(s, e))
<1>1. <<e>> \in Seq(S)
  OBVIOUS
<1>2. Append(s, e) = s \o <<e>>
  BY AppendIsConcat
<1> QED BY <1>1, <1>2, PrefixOfConcat

LEMMA RestOf ==
    ASSUME NEW S, NEW p \in Seq(S), NEW q \in Seq(S), IsPrefix(q, p)
    PROVE  /\ Rest(p, q) \in Seq(S)
           /\ p = q \o Rest(p, q)
           /\ p # q => Rest(p, q) # <<>>
<1>1. Len(q) \in Nat /\ Len(p) \in Nat /\ Len(q) <= Len(p)
  BY LenProperties, PrefixIs
<1>2. \A k \in Len(q) + 1 .. Len(p) : p[k] \in S
  BY <1>1, LenProperties, ElementOfSeq
<1>3. /\ Rest(p, q) \in Seq(S)
      /\ Len(Rest(p, q)) = IF Len(q) + 1 <= Len(p) THEN Len(p) - (Len(q) + 1) + 1 ELSE 0
      /\ \A k \in 1 .. Len(p) - (Len(q) + 1) + 1 : Rest(p, q)[k] = p[Len(q) + 1 + k - 1]
  <2>1. Len(q) + 1 \in Int /\ Len(p) \in Int
    BY <1>1
  <2> QED BY <1>2, <2>1, SubSeqProperties DEF Rest
<1>4. /\ q \o Rest(p, q) \in Seq(S) /\ Len(q \o Rest(p, q)) = Len(q) + Len(Rest(p, q))
      /\ \A k \in 1 .. Len(q) + Len(Rest(p, q)) :
           (q \o Rest(p, q))[k] = IF k <= Len(q) THEN q[k] ELSE Rest(p, q)[k - Len(q)]
  BY <1>3, ConcatProperties
<1>5. Len(q \o Rest(p, q)) = Len(p)
  BY <1>1, <1>3, <1>4
<1>6. \A k \in 1 .. Len(q) : q[k] = p[k]
  BY PrefixIs
<1>7. \A k \in 1 .. Len(p) : p[k] = (q \o Rest(p, q))[k]
  <2>1. TAKE k \in 1 .. Len(p)
  <2>2. CASE k <= Len(q)
    BY <1>1, <1>3, <1>4, <1>6, <2>2
  <2>3. CASE ~(k <= Len(q))
    <3>1. k - Len(q) \in 1 .. Len(p) - (Len(q) + 1) + 1 /\ Len(q) + 1 + (k - Len(q)) - 1 = k
      BY <1>1, <2>3
    <3>2. Rest(p, q)[k - Len(q)] = p[k]
      BY <1>3, <3>1
    <3> QED BY <1>1, <1>3, <1>4, <2>3, <3>2
  <2> QED BY <2>2, <2>3
<1>8. p = q \o Rest(p, q)
  BY <1>4, <1>5, <1>7, SeqEqual
<1>9. p # q => Rest(p, q) # <<>>
  BY <1>8, ConcatEmptySeq
<1> QED BY <1>3, <1>8, <1>9

-----------------------------------------------------------------------------
(* Mounts: a script's path has an innermost mount, and what may be written is below it.       *)
LEMMA Least == ASSUME NEW S, S \in SUBSET Nat, S # {} PROVE \E n \in S : \A m \in S : n <= m
<1> DEFINE R == {ss \in Nat \X Nat : ss[1] < ss[2]}
<1>1. OpToRel(<, Nat) = R
  BY DEF OpToRel
<1>2. IsWellFoundedOn(OpToRel(<, Nat), Nat)
  BY NatLessThanWellFounded
<1>3. IsWellFoundedOn(R, Nat)
  BY <1>1, <1>2
<1> HIDE DEF R
<1>4. PICK n \in S : \A m \in S : ~ (<<m, n>> \in R)
  BY <1>3, WFMin
<1>5. \A m \in S : ~ (m < n)
  BY <1>4 DEF R
<1> QED BY <1>5

LEMMA Wider == ASSUME NEW p \in Seq(FileNames) PROVE p \in Seq(Spelled)
<1>1. FileNames \subseteq Spelled
  BY DEF Spelled
<1>2. p \in [1 .. Len(p) -> FileNames] /\ Len(p) \in Nat
  BY LenProperties
<1>3. p \in [1 .. Len(p) -> Spelled]
  BY <1>1, <1>2
<1> QED BY <1>2, <1>3, SeqDef

LEMMA MountOfIs ==
    ASSUME MountInv, NEW p \in Seq(Spelled), IsMounted(p)
    PROVE  MountOf(p) \in DOMAIN mount /\ Under(p, MountOf(p))
<1>1. \A q \in MountsOf(p) : q \in Seq(Spelled) /\ Len(q) \in Nat /\ Len(q) <= Len(p)
  BY PrefixIs, LenProperties, Wider DEF MountsOf, Under, MountInv
<1>2. Len(p) \in Nat
  BY LenProperties
<1> DEFINE S == {Len(p) - Len(q) : q \in MountsOf(p)}
<1>3. S \in SUBSET Nat /\ S # {}
  BY <1>1, <1>2 DEF IsMounted
<1>4. PICK n \in S : \A m \in S : n <= m
  BY <1>3, Least
<1>5. PICK q \in MountsOf(p) : n = Len(p) - Len(q)
  BY <1>4
<1>6. \A other \in MountsOf(p) : Len(other) <= Len(q)
  <2>1. TAKE other \in MountsOf(p)
  <2>2. Len(p) - Len(q) <= Len(p) - Len(other)
    BY <1>4, <1>5
  <2> QED BY <1>1, <1>2, <2>2
<1>7. MountOf(p) \in MountsOf(p)
  BY <1>5, <1>6 DEF MountOf
<1> QED BY <1>7 DEF MountsOf

(* How the normal form of a path is found, name by name. *)
Rises(s, name) == IF name # Up THEN Append(s, name) ELSE IF s = <<>> THEN <<>> ELSE Front(s)

LEMMA NormalSteps ==
    ASSUME NEW p \in Seq(Spelled)
    PROVE  \E upto :
             /\ upto[0] = <<>> /\ Normal(p) = upto[Len(p)]
             /\ \A i \in 1 .. Len(p) : upto[i] = Rises(upto[i - 1], p[i])
<1> DEFINE n == Len(p)
           step(s, i) == IF p[i] # Up THEN Append(s, p[i])
                         ELSE IF s = <<>> THEN <<>> ELSE Front(s)
           Does(f, m) == f = [i \in 0 .. m |-> IF i = 0 THEN <<>> ELSE step(f[i - 1], i)]
<1>1. n \in Nat
  BY LenProperties
<1> HIDE DEF n, step
<1>2. \A m \in 0 .. n : \E f : Does(f, m)
  <2> DEFINE S == {m \in 0 .. n : ~ \E f : Does(f, m)}
  <2> SUFFICES ASSUME S # {} PROVE FALSE
    OBVIOUS
  <2>1. S \in SUBSET Nat
    BY <1>1
  <2>2. PICK m \in S : \A k \in S : m <= k
    <3> HIDE DEF S
    <3> QED BY <2>1, Least
  <2>3. CASE m = 0
    <3>1. Does([i \in 0 .. 0 |-> <<>>], 0)
      OBVIOUS
    <3> QED BY <2>2, <2>3, <3>1
  <2>4. CASE m # 0
    <3>1. m - 1 \in 0 .. n /\ m - 1 \notin S
      <4>1. m \in 0 .. n
        OBVIOUS
      <4>2. m - 1 \in 0 .. n /\ ~ (m <= m - 1)
        BY <1>1, <2>4, <4>1
      <4> HIDE DEF S
      <4> QED BY <2>2, <4>2
    <3>2. PICK f : Does(f, m - 1)
      BY <3>1
    <3> DEFINE g == [i \in 0 .. m |-> IF i = m THEN step(f[m - 1], m) ELSE f[i]]
    <3>3. \A i \in 0 .. m : g[i] = IF i = 0 THEN <<>> ELSE step(g[i - 1], i)
      <4> SUFFICES ASSUME NEW i \in 0 .. m PROVE g[i] = IF i = 0 THEN <<>> ELSE step(g[i - 1], i)
        OBVIOUS
      <4>1. CASE i = m
        <5>1. m - 1 \in 0 .. m /\ m - 1 # m
          BY <3>1
        <5> QED BY <2>4, <4>1, <5>1
      <4>2. CASE i # m
        <5>1. i \in 0 .. (m - 1) /\ (i # 0 => i - 1 \in 0 .. m /\ i - 1 # m)
          BY <3>1, <4>2
        <5> QED BY <3>2, <4>2, <5>1
      <4> QED BY <4>1, <4>2
    <3>4. Does(g, m)
      <4> DEFINE h == [i \in 0 .. m |-> IF i = 0 THEN <<>> ELSE step(g[i - 1], i)]
      <4>1. \A i \in 0 .. m : g[i] = h[i]
        BY <3>3
      <4>2. g = h
        BY <4>1
      <4> QED BY <4>2
    <3> QED BY <2>2, <3>4
  <2> QED BY <2>3, <2>4
<1> DEFINE upto == CHOOSE f : Does(f, n)
<1>3. Does(upto, n)
  <2>1. \E f : Does(f, n)
    BY <1>1, <1>2
  <2> HIDE DEF Does
  <2> QED BY <2>1, Zenon DEF upto
<1>4. Normal(p) = upto[n]
  BY DEF Normal, n, step
<1> HIDE DEF upto, Does
<1>5. upto[0] = <<>> /\ \A i \in 1 .. n : upto[i] = step(upto[i - 1], i)
  BY <1>1, <1>3 DEF Does
<1>6. \A i \in 1 .. n : upto[i] = Rises(upto[i - 1], p[i])
  BY <1>5 DEF step, Rises
<1> QED BY <1>4, <1>5, <1>6 DEF n

(* A path in normal form has no ".." in it. *)
LEMMA NormalIs == ASSUME NEW p \in Seq(Spelled) PROVE Normal(p) \in Seq(FileNames)
<1> DEFINE n == Len(p)
<1>1. n \in Nat
  BY LenProperties
<1>2. PICK upto :
        /\ upto[0] = <<>> /\ Normal(p) = upto[n]
        /\ \A i \in 1 .. n : upto[i] = Rises(upto[i - 1], p[i])
  BY NormalSteps
<1>3. \A i \in 1 .. Len(p) : \A s \in Seq(FileNames) : Rises(s, p[i]) \in Seq(FileNames)
  <2> SUFFICES ASSUME NEW i \in 1 .. Len(p), NEW s \in Seq(FileNames) PROVE Rises(s, p[i]) \in Seq(FileNames)
    OBVIOUS
  <2>1. p[i] \in Spelled
    BY ElementOfSeq
  <2>2. CASE p[i] # Up
    <3>1. p[i] \in FileNames
      BY <2>1, <2>2 DEF Spelled
    <3> QED BY <2>2, <3>1, AppendProperties DEF Rises
  <2>3. CASE p[i] = Up /\ s # <<>>
    <3>1. Len(s) \in Nat /\ Len(s) - 1 \in Int /\ 1 \in Int
      BY LenProperties
    <3>2. \A k \in 1 .. Len(s) - 1 : s[k] \in FileNames
      BY <3>1, ElementOfSeq
    <3>3. Front(s) \in Seq(FileNames)
      BY <3>1, <3>2, SubSeqProperties DEF Front
    <3> QED BY <2>3, <3>3 DEF Rises
  <2>4. CASE p[i] = Up /\ s = <<>>
    BY <2>4 DEF Rises
  <2> QED BY <2>2, <2>3, <2>4
<1> HIDE DEF n
<1>4. \A i \in 1 .. n : \A s \in Seq(FileNames) : Rises(s, p[i]) \in Seq(FileNames)
  BY <1>3 DEF n
<1> DEFINE Bad == {i \in 0 .. n : upto[i] \notin Seq(FileNames)}
<1>5. Bad = {}
  <2> SUFFICES ASSUME Bad # {} PROVE FALSE
    OBVIOUS
  <2>1. PICK m \in Bad : \A k \in Bad : m <= k
    <3>1. Bad \in SUBSET Nat
      BY <1>1
    <3> HIDE DEF Bad
    <3> QED BY <3>1, Least
  <2>2. m # 0
    <3>1. <<>> \in Seq(FileNames)
      OBVIOUS
    <3>2. m \in 0 .. n /\ upto[m] \notin Seq(FileNames)
      OBVIOUS
    <3> QED BY ONLY <1>2, <3>1, <3>2
  <2>3. m \in 1 .. n /\ m - 1 \in 0 .. n /\ ~ (m <= m - 1)
    BY <1>1, <2>2
  <2>4. upto[m - 1] \in Seq(FileNames)
    BY <2>1, <2>3
  <2> QED BY <1>4, <1>2, <2>1, <2>3, <2>4
<1>6. upto[n] \in Seq(FileNames)
  BY <1>1, <1>5
<1> QED BY <1>2, <1>6

(* One without it is in normal form. *)
LEMMA NormalSame ==
    ASSUME NEW p \in Seq(FileNames), Up \notin FileNames
    PROVE  Normal(p) = p
<1> DEFINE n == Len(p)
<1>1. n \in Nat /\ \A i \in 1 .. n : p[i] \in FileNames /\ p[i] # Up
  BY LenProperties, ElementOfSeq
<1>2. PICK upto :
        /\ upto[0] = <<>> /\ Normal(p) = upto[n]
        /\ \A i \in 1 .. n : upto[i] = Rises(upto[i - 1], p[i])
  BY NormalSteps, Wider
<1> HIDE DEF n
<1> DEFINE Good(s, i) == s \in Seq(FileNames) /\ Len(s) = i /\ \A k \in 1 .. i : s[k] = p[k]
           Bad == {i \in 0 .. n : ~Good(upto[i], i)}
<1>3. ASSUME NEW i \in 1 .. n, Good(upto[i - 1], i - 1) PROVE Good(upto[i], i)
  <2> DEFINE s == upto[i - 1]
  <2>1. upto[i] = Append(s, p[i])
    BY <1>1, <1>2 DEF Rises
  <2>2. s \in Seq(FileNames) /\ Len(s) = i - 1 /\ \A k \in 1 .. i - 1 : s[k] = p[k]
    BY <1>3
  <2> HIDE DEF s
  <2>3. /\ Append(s, p[i]) \in Seq(FileNames) /\ Len(Append(s, p[i])) = Len(s) + 1
        /\ \A k \in 1 .. Len(s) : Append(s, p[i])[k] = s[k]
        /\ Append(s, p[i])[Len(s) + 1] = p[i]
    BY <1>1, <2>2, AppendProperties
  <2>4. i \in Nat /\ Len(s) + 1 = i
    BY <1>1, <2>2
  <2>5. \A k \in 1 .. i : Append(s, p[i])[k] = p[k]
    BY <2>2, <2>3, <2>4
  <2> QED BY <2>1, <2>3, <2>4, <2>5
<1>4. Good(upto[0], 0)
  BY <1>2
<1>5. Bad = {}
  <2> HIDE DEF Good
  <2> SUFFICES ASSUME Bad # {} PROVE FALSE
    OBVIOUS
  <2>1. PICK m \in Bad : \A k \in Bad : m <= k
    <3>1. Bad \in SUBSET Nat
      BY <1>1
    <3> HIDE DEF Bad
    <3> QED BY <3>1, Least
  <2>2. m # 0
    <3>1. ~Good(upto[m], m)
      OBVIOUS
    <3> QED BY <1>4, <3>1
  <2>3. m \in 1 .. n /\ m - 1 \in 0 .. n /\ ~ (m <= m - 1)
    BY <1>1, <2>2
  <2>4. Good(upto[m - 1], m - 1)
    BY <2>1, <2>3
  <2> QED BY <1>3, <2>1, <2>3, <2>4
<1>6. Good(upto[n], n)
  BY <1>1, <1>5
<1>7. upto[n] = p
  BY <1>6, SeqEqual DEF n
<1> QED BY <1>2, <1>7

LEMMA Straight ==
    ASSUME NEW p \in Seq(Spelled), Up \notin Range(p)
    PROVE  p \in Seq(FileNames)
<1>1. Len(p) \in Nat /\ DOMAIN p = 1 .. Len(p) /\ p = [i \in 1 .. Len(p) |-> p[i]]
  BY LenProperties
<1>2. \A i \in 1 .. Len(p) : p[i] \in FileNames
  BY <1>1, ElementOfSeq DEF Range, Spelled
<1>3. p \in [1 .. Len(p) -> FileNames]
  BY <1>1, <1>2
<1> QED BY <1>1, <1>3, SeqDef

(* A path that may be written is granted: that of its mount, unless it goes up out of it. *)
LEMMA NativeGranted ==
    ASSUME MountInv, NEW p \in Virtuals, RW(p)
    PROVE  /\ NativeOf(p) \in Seq(FileNames)
           /\ Granted(NativeOf(p)) /\ (ForScripts(NativeOf(p)) \/ Strays(p))
<1> DEFINE q == MountOf(p)
<1>0. p \in Seq(Spelled) /\ Up \notin FileNames
  BY PathsAssumption
<1>1. q \in DOMAIN mount /\ Under(p, q) /\ mount[q].rw /\ p # q /\ IsMounted(p)
  BY <1>0, MountOfIs DEF RW
<1>2. q \in Seq(FileNames) /\ mount[q].root \in Seq(FileNames)
  BY <1>1 DEF MountInv, Access
<1>3. Rest(p, q) \in Seq(Spelled) /\ q \in Seq(Spelled) /\ mount[q].root \in Seq(Spelled)
  BY <1>0, <1>1, <1>2, RestOf, Wider DEF Under
<1>4. NativeOf(p) = Normal(mount[q].root \o Rest(p, q))
  BY <1>1 DEF NativeOf
<1> HIDE DEF q
<1>5. NativeOf(p) \in Seq(FileNames)
  BY <1>3, <1>4, ConcatProperties, NormalIs
<1>6. IsPrefix(NativeOf(p), NativeOf(p))
  <2> DEFINE n == NativeOf(p)
  <2>1. n \in Seq(FileNames) /\ Len(n) \in Nat
    BY <1>5, LenProperties
  <2> HIDE DEF n
  <2>2. IsPrefix(n, n)
    BY <2>1, PrefixIs
  <2> QED BY <2>2 DEF n
<1>7. CASE Up \in Range(p)
  BY <1>5, <1>6, <1>7 DEF Granted, Strays
<1>8. CASE Up \notin Range(p)
  <2>1. p \in Seq(FileNames)
    BY <1>0, <1>8, Straight
  <2>2. Rest(p, q) \in Seq(FileNames) /\ Rest(p, q) # <<>>
    BY <1>1, <1>2, <2>1, RestOf DEF Under
  <2>3. NativeOf(p) = mount[q].root \o Rest(p, q)
    BY <1>0, <1>2, <1>4, <2>2, ConcatProperties, NormalSame
  <2>4. IsPrefix(mount[q].root, NativeOf(p)) /\ NativeOf(p) # mount[q].root
    BY <1>2, <2>2, <2>3, PrefixOfConcat
  <2> QED BY <1>1, <1>5, <2>4 DEF Granted, ForScripts
<1> QED BY <1>7, <1>8

LEMMA GrantedBelow ==
    ASSUME MountInv, NEW n \in Seq(FileNames), NEW m \in Seq(FileNames),
           Granted(n), IsPrefix(n, m)
    PROVE  Granted(m)
<1>1. CASE ForScripts(n)
  <2>1. PICK q \in DOMAIN mount : mount[q].rw /\ IsPrefix(mount[q].root, n) /\ n # mount[q].root
    BY <1>1 DEF ForScripts
  <2> DEFINE root == mount[q].root
  <2>2. root \in Seq(FileNames)
    BY DEF MountInv, Access
  <2> HIDE DEF root
  <2>3. IsPrefix(root, n) /\ n # root
    BY <2>1 DEF root
  <2>4. IsPrefix(root, m)
    BY <2>2, <2>3, PrefixTransitive
  <2>5. m # root
    <3>1. SUFFICES ASSUME m = root PROVE FALSE
      OBVIOUS
    <3>2. Len(n) <= Len(root) /\ Len(root) <= Len(n) /\ \A k \in 1 .. Len(root) : root[k] = n[k]
      BY <2>2, <2>3, <3>1, PrefixIs
    <3>3. Len(n) \in Nat /\ Len(root) \in Nat
      BY <2>2, LenProperties
    <3>4. n = root
      BY <2>2, <3>2, <3>3, SeqEqual
    <3> QED BY <2>3, <3>4
  <2> QED BY <2>1, <2>4, <2>5 DEF Granted, ForScripts, root
<1>2. ASSUME NEW p \in Virtuals, Strays(p), IsPrefix(NativeOf(p), n) PROVE Granted(m)
  <2>1. NativeOf(p) \in Seq(FileNames)
    BY <1>2, NativeGranted DEF Strays
  <2>2. IsPrefix(NativeOf(p), m)
    BY <1>2, <2>1, PrefixTransitive
  <2> QED BY <1>2, <2>2 DEF Granted
<1> QED BY <1>1, <1>2 DEF Granted

(* What is granted depends on the mounts alone, which stay. *)
LEMMA GrantStays == ASSUME mount' = mount, NEW n PROVE Granted(n)' <=> Granted(n)
BY DEF Granted, ForScripts, Strays, RW, NativeOf, MountOf, MountsOf, IsMounted

(* A directory on the way to what may be written may be written itself, or leads to it.       *)
LEMMA OnTheWay ==
    ASSUME MountInv, NEW p \in Virtuals, RW(p), NEW j \in 1 .. Len(NativeOf(p))
    PROVE  /\ SubSeq(NativeOf(p), 1, j) \in Seq(FileNames)
           /\ Granted(SubSeq(NativeOf(p), 1, j)) \/ LeadsThere(SubSeq(NativeOf(p), 1, j))
<1> DEFINE n == NativeOf(p)
           m == SubSeq(n, 1, j)
<1>1. n \in Seq(FileNames) /\ Len(n) \in Nat /\ j \in Nat /\ j <= Len(n)
  BY NativeGranted, LenProperties
<1>2. \A k \in 1 .. j : n[k] \in FileNames
  BY <1>1, ElementOfSeq, LenProperties
<1>3. m \in Seq(FileNames) /\ Len(m) = j /\ \A k \in 1 .. j : m[k] = n[k]
  <2>1. 1 \in Int /\ j \in Int
    OBVIOUS
  <2> HIDE DEF n
  <2>2. /\ SubSeq(n, 1, j) \in Seq(FileNames)
        /\ Len(SubSeq(n, 1, j)) = IF 1 <= j THEN j - 1 + 1 ELSE 0
        /\ \A k \in 1 .. j - 1 + 1 : SubSeq(n, 1, j)[k] = n[1 + k - 1]
    BY <1>2, <2>1, SubSeqProperties
  <2> QED BY <1>1, <2>2
<1>4. CASE ForScripts(n)
  <2>1. PICK q \in DOMAIN mount :
          /\ mount[q].rw /\ mount[q].root \in Seq(FileNames)
          /\ IsPrefix(mount[q].root, n) /\ n # mount[q].root
    BY <1>4 DEF ForScripts, MountInv, Access
  <2> DEFINE root == mount[q].root
  <2>2. Len(root) \in Nat
    BY <2>1, LenProperties
  <2>3. Len(root) <= Len(n) /\ \A k \in 1 .. Len(root) : root[k] = n[k]
    BY <1>1, <2>1, PrefixIs
  <2> HIDE DEF n, m
  <2>4. CASE j <= Len(root)
    <3>1. Len(m) <= Len(root) /\ \A k \in 1 .. Len(m) : m[k] = root[k]
      BY <1>1, <1>3, <2>2, <2>3, <2>4
    <3>2. IsPrefix(m, root)
      BY <1>3, <2>1, <3>1, PrefixIs
    <3> QED BY <1>3, <2>1, <3>2 DEF LeadsThere, m, n
  <2>5. CASE ~(j <= Len(root))
    <3>1. Len(root) <= Len(m) /\ \A k \in 1 .. Len(root) : root[k] = m[k]
      BY <1>1, <1>3, <2>2, <2>3, <2>5
    <3>2. IsPrefix(root, m)
      BY <1>3, <2>1, <3>1, PrefixIs
    <3>3. m # root
      BY <1>1, <1>3, <2>2, <2>5
    <3> QED BY <1>3, <2>1, <3>2, <3>3 DEF Granted, ForScripts, m, n
  <2> QED BY <1>1, <2>2, <2>4, <2>5
<1>5. CASE Strays(p)
  <2> HIDE DEF n, m
  <2>1. IsPrefix(m, n)
    BY <1>1, <1>3, PrefixIs
  <2> QED BY <1>3, <1>5, <2>1 DEF LeadsThere, m, n
<1> QED BY <1>4, <1>5, NativeGranted

-----------------------------------------------------------------------------
(* Tasks: who disturbs readers changes nothing else of any task. *)
Alike(r, s) ==
    /\ s.kind = r.kind /\ s.inode = r.inode /\ s.size = r.size /\ s.append = r.append
    /\ s.at = r.at /\ s.pos = r.pos /\ s.kept = r.kept /\ s.got = r.got /\ s.want = r.want
    /\ s.sure => r.sure

LEMMA DisturbedAre ==
    ASSUME TextInv, NEW i
    PROVE  /\ Disturbed(i) \in Seq(Tasks) /\ Len(Disturbed(i)) = Len(task)
           /\ \A t \in DOMAIN task :
                /\ Alike(task[t], Disturbed(i)[t])
                /\ task[t].kind = "read" /\ task[t].inode = i /\ Going(t)
                     => ~Disturbed(i)[t].sure
<1>1. Len(task) \in Nat /\ DOMAIN task = 1 .. Len(task) /\ \A t \in DOMAIN task : task[t] \in Tasks
  BY LenProperties, ElementOfSeq DEF TextInv
<1>2. \A t \in DOMAIN task : Disturbed(i)[t] \in Tasks /\ Alike(task[t], Disturbed(i)[t])
  BY <1>1 DEF Disturbed, Alike, Tasks
<1>3. \A t \in DOMAIN task :
        task[t].kind = "read" /\ task[t].inode = i /\ Going(t) => ~Disturbed(i)[t].sure
  BY <1>1 DEF Disturbed, Tasks
<1>4. DOMAIN Disturbed(i) = 1 .. Len(task)
  BY <1>1 DEF Disturbed
<1>5. Disturbed(i) = [t \in 1 .. Len(task) |-> Disturbed(i)[t]]
  BY <1>1 DEF Disturbed
<1> DEFINE d == Disturbed(i)
<1> HIDE DEF d
<1>6. d \in [1 .. Len(task) -> Tasks]
  BY <1>1, <1>2, <1>5 DEF d
<1>7. d \in Seq(Tasks) /\ Len(d) = Len(task)
  BY <1>1, <1>6, SeqDef, LenProperties
<1> QED BY <1>2, <1>3, <1>7 DEF d

LEMMA TaskTypes ==
    ASSUME TextInv
    PROVE  /\ Len(task) \in Nat /\ DOMAIN task = 1 .. Len(task)
           /\ \A t \in DOMAIN task : task[t] \in Tasks /\ task[t].inode \in 1 .. Len(inode)
           /\ Len(inode) \in Nat /\ DOMAIN inode = 1 .. Len(inode) /\ Len(meant) = Len(inode)
           /\ \A i \in 1 .. Len(inode) : inode[i] \in Texts /\ meant[i] \in Meanings
<1>1. Len(task) \in Nat /\ DOMAIN task = 1 .. Len(task) /\ \A t \in DOMAIN task : task[t] \in Tasks
  BY LenProperties, ElementOfSeq DEF TextInv
<1>2. /\ Len(inode) \in Nat /\ DOMAIN inode = 1 .. Len(inode)
      /\ \A i \in 1 .. Len(inode) : inode[i] \in Texts
  BY LenProperties, ElementOfSeq DEF TextInv
<1>3. \A i \in 1 .. Len(inode) : meant[i] \in Meanings
  BY LenProperties, ElementOfSeq DEF TextInv
<1> QED BY <1>1, <1>2, <1>3 DEF TextInv

(* No task is new, none writes to another file, and none that was done goes on. *)
NoOther ==
    /\ DOMAIN task' = DOMAIN task
    /\ \A t \in DOMAIN task :
         /\ task'[t].kind = task[t].kind /\ task'[t].inode = task[t].inode
         /\ task'[t].at # "done" => task[t].at # "done"

LEMMA DisturbedNoOther ==
    ASSUME TextInv, NEW i, task' = Disturbed(i)
    PROVE  NoOther
<1>1. DOMAIN task' = DOMAIN task
  BY DEF Disturbed
<1> QED BY <1>1, DisturbedAre DEF NoOther, Alike

-----------------------------------------------------------------------------
(* Names: what steps do to the tree, and that the rest stays. *)
LetInNow ==
    \A t \in DOMAIN task' :
        IsWriter(t)' => \/ t \in DOMAIN task /\ IsWriter(t) /\ task'[t].inode = task[t].inode
                        \/ \A n \in DOMAIN tree' : tree'[n] = task'[t].inode => Granted(n)

LEMMA NoOtherIsLetIn == ASSUME NoOther PROVE LetInNow
BY DEF NoOther, LetInNow, IsWriter, Going

NamesInv == TreeInv /\ OneName /\ LetIn

(* Whoever was let in is: a file that has a name has had it, or has it from a script.         *)
LEMMA StillLetIn ==
    ASSUME TextInv, LetIn, mount' = mount, LetInNow,
           \A n \in DOMAIN tree' :
              \/ Granted(n)
              \/ tree'[n] \notin 1 .. Len(inode)
              \/ \E m \in DOMAIN tree : tree[m] = tree'[n] /\ (Granted(m) => Granted(n))
    PROVE  LetIn'
<1>1. SUFFICES ASSUME NEW t \in DOMAIN task', IsWriter(t)', NEW n \in DOMAIN tree',
                      tree'[n] = task'[t].inode
               PROVE  Granted(n)'
  BY DEF LetIn
<1>2. CASE \A k \in DOMAIN tree' : tree'[k] = task'[t].inode => Granted(k)
  BY <1>1, <1>2, GrantStays
<1>a. SUFFICES ASSUME t \in DOMAIN task, IsWriter(t), task'[t].inode = task[t].inode
               PROVE  Granted(n)'
  BY <1>1, <1>2 DEF LetInNow
<1>3. task[t].inode \in 1 .. Len(inode)
  BY <1>a DEF TextInv
<1>4. Granted(n)
  BY <1>1, <1>a, <1>3 DEF LetIn
<1> QED BY <1>4, GrantStays

(* A text is copied over another one's: names stay as they are. *)
LEMMA OverwriteNames ==
    ASSUME MountInv, TextInv, NamesInv, mount' = mount, LetInNow, tree' = tree,
           NEW i \in 1 .. Len(inode), \A n \in DOMAIN tree : tree[n] = i => Granted(n),
           NEW text, inode' = [inode EXCEPT ![i] = text]
    PROVE  NamesInv' /\ ReadOnlyStays
<1>1. inode \in Seq(Texts) /\ Len(inode) \in Nat /\ DOMAIN inode = 1 .. Len(inode)
  BY TaskTypes DEF TextInv
<1>3. Len(inode') = Len(inode)
  <2>1. DOMAIN inode' = 1 .. Len(inode)
    BY <1>1
  <2>2. inode' = [k \in 1 .. Len(inode) |-> inode'[k]]
    BY <1>1
  <2> QED BY <1>1, <2>2
<1>4. ReadOnlyStays
  <2>1. SUFFICES ASSUME NEW n \in DOMAIN tree, ~Granted(n) PROVE Stays(n)
    BY DEF ReadOnlyStays
  <2>2. tree[n] # i
    BY <2>1
  <2>3. tree[n] # Dir => tree[n] \in 1 .. Len(inode)
    BY <1>1 DEF NamesInv, TreeInv, Dir
  <2> QED BY <1>1, <2>1, <2>2, <2>3 DEF Stays, There
<1>5. TreeInv'
  BY <1>3 DEF NamesInv, TreeInv
<1>6. OneName'
  BY DEF NamesInv, OneName
<1>7. LetIn'
  <2>1. LetIn
    BY DEF NamesInv
  <2> QED BY <2>1, StillLetIn
<1> QED BY <1>4, <1>5, <1>6, <1>7 DEF NamesInv

(* New files have numbers of their own, and names that scripts may make. *)
LEMMA NewNames ==
    ASSUME MountInv, TextInv, NamesInv, mount' = mount, LetInNow,
           Len(inode') \in Nat, Len(inode') >= Len(inode),
           \A i \in 1 .. Len(inode) : inode'[i] = inode[i],
           IsFiniteSet(DOMAIN tree'), DOMAIN tree \subseteq DOMAIN tree',
           \A n \in DOMAIN tree : tree'[n] = tree[n],
           \A n \in DOMAIN tree' \ DOMAIN tree :
              /\ n \in Seq(FileNames) /\ (Granted(n) \/ (LeadsThere(n) /\ tree'[n] = Dir))
              /\ tree'[n] \in 0 .. Len(inode') /\ tree'[n] \notin 1 .. Len(inode),
           \A m, n \in DOMAIN tree' \ DOMAIN tree :
              tree'[m] = tree'[n] /\ tree'[m] # Dir => m = n
    PROVE  NamesInv' /\ ReadOnlyStays
<1>1. Len(inode) \in Nat /\ DOMAIN inode = 1 .. Len(inode)
  BY TaskTypes DEF TextInv
<1>2. \A n \in DOMAIN tree : n \in Seq(FileNames) /\ tree[n] \in 0 .. Len(inode)
  BY DEF NamesInv, TreeInv
<1>3. ReadOnlyStays
  <2>1. SUFFICES ASSUME NEW n \in DOMAIN tree', ~Granted(n)
                 PROVE  Stays(n) \/ (LeadsThere(n) /\ IsMade(n))
    BY DEF ReadOnlyStays
  <2>2. CASE n \in DOMAIN tree
    BY <1>1, <1>2, <2>2 DEF Stays, There, Dir
  <2>3. CASE n \notin DOMAIN tree
    BY <2>1, <2>3 DEF IsMade, There
  <2> QED BY <2>2, <2>3
<1>4. TreeInv'
  <2>1. \A n \in DOMAIN tree' : n \in Seq(FileNames) /\ tree'[n] \in 0 .. Len(inode')
    BY <1>1, <1>2
  <2>2. <<>> \in DOMAIN tree' /\ tree'[<<>>] = Dir
    BY DEF NamesInv, TreeInv
  <2> QED BY <2>1, <2>2 DEF TreeInv
<1>5. OneName'
  <2>1. SUFFICES ASSUME NEW m \in DOMAIN tree', NEW n \in DOMAIN tree', tree'[m] = tree'[n],
                        tree'[m] # Dir
                 PROVE  m = n
    BY DEF OneName
  <2>2. CASE m \in DOMAIN tree /\ n \in DOMAIN tree
    BY <2>1, <2>2 DEF NamesInv, OneName
  <2>3. CASE m \notin DOMAIN tree /\ n \notin DOMAIN tree
    BY <2>1, <2>3
  <2>4. CASE m \in DOMAIN tree /\ n \notin DOMAIN tree
    BY <1>1, <1>2, <2>1, <2>4 DEF Dir
  <2>5. CASE m \notin DOMAIN tree /\ n \in DOMAIN tree
    BY <1>1, <1>2, <2>1, <2>5 DEF Dir
  <2> QED BY <2>2, <2>3, <2>4, <2>5
<1>6. LetIn'
  <2>1. LetIn
    BY DEF NamesInv
  <2>2. \A n \in DOMAIN tree' :
          \/ Granted(n)
          \/ tree'[n] \notin 1 .. Len(inode)
          \/ \E m \in DOMAIN tree : tree[m] = tree'[n] /\ (Granted(m) => Granted(n))
    OBVIOUS
  <2> QED BY ONLY <2>1, <2>2, TextInv, mount' = mount, LetInNow, StillLetIn
<1> QED BY <1>3, <1>4, <1>5, <1>6 DEF NamesInv

LEMMA NoneNew == ASSUME task' = task PROVE NoOther
BY DEF NoOther

(* The names of one new file. *)
LEMMA WithNameNames ==
    ASSUME MountInv, TextInv, NamesInv, mount' = mount, LetInNow,
           NEW n \in Seq(FileNames), ~There(n), Granted(n), NEW text \in Texts,
           tree' = WithName(n, NewInode), inode' = Append(inode, text)
    PROVE  NamesInv' /\ ReadOnlyStays
<1>1. Len(inode) \in Nat /\ inode \in Seq(Texts)
  BY TaskTypes DEF TextInv
<1>2. Len(inode') = Len(inode) + 1 /\ \A i \in 1 .. Len(inode) : inode'[i] = inode[i]
  BY <1>1, AppendProperties
<1>3. DOMAIN tree' = DOMAIN tree \cup {n} /\ tree'[n] = Len(inode) + 1
  BY DEF WithName, NewInode
<1>4. \A m \in DOMAIN tree : tree'[m] = tree[m]
  BY DEF WithName, There
<1>5. IsFiniteSet(DOMAIN tree')
  BY <1>3, FS_AddElement DEF NamesInv, TreeInv
<1>6. \A m \in DOMAIN tree' \ DOMAIN tree :
        /\ m \in Seq(FileNames) /\ (Granted(m) \/ (LeadsThere(m) /\ tree'[m] = Dir))
        /\ tree'[m] \in 0 .. Len(inode') /\ tree'[m] \notin 1 .. Len(inode)
  BY <1>1, <1>2, <1>3
<1>7. \A k, m \in DOMAIN tree' \ DOMAIN tree : tree'[k] = tree'[m] /\ tree'[k] # Dir => k = m
  BY <1>3
<1>8. Len(inode') \in Nat /\ Len(inode') >= Len(inode) /\ DOMAIN tree \subseteq DOMAIN tree'
  BY <1>1, <1>2, <1>3
<1> QED
  BY ONLY <1>2, <1>4, <1>5, <1>6, <1>7, <1>8, MountInv, TextInv, NamesInv, mount' = mount, LetInNow,
          NewNames

LEMMA CopyOneFileNames ==
    ASSUME MountInv, TextInv, NamesInv, mount' = mount, NEW over,
           NEW from \in DOMAIN tree, IsFile(from), NEW to \in Seq(FileNames), Granted(to),
           CopyOneFile(from, to, over)
    PROVE  NamesInv' /\ ReadOnlyStays
<1> DEFINE i == tree[from]
<1>1. i \in 1 .. Len(inode) /\ inode[i] \in Texts
  BY TaskTypes DEF NamesInv, TreeInv, IsFile, Dir
<1>2. CASE There(to)
  <2>1. /\ IsFile(to) /\ inode' = [inode EXCEPT ![tree[to]] = inode[i]]
        /\ task' = Disturbed(tree[to]) /\ tree' = tree /\ to \in DOMAIN tree
    BY <1>2 DEF CopyOneFile, There
  <2>2. LetInNow
    BY <2>1, DisturbedNoOther, NoOtherIsLetIn
  <2>3. tree[to] \in 1 .. Len(inode) /\ \A n \in DOMAIN tree : tree[n] = tree[to] => Granted(n)
    BY <2>1, TaskTypes DEF NamesInv, TreeInv, OneName, IsFile, Dir
  <2> HIDE DEF i
  <2> QED BY <2>1, <2>2, <2>3, OverwriteNames
<1>3. CASE ~There(to)
  <2>1. /\ tree' = WithName(to, NewInode) /\ inode' = Append(inode, inode[i]) /\ task' = task
    BY <1>3 DEF CopyOneFile
  <2>2. LetInNow
    BY <2>1, NoneNew, NoOtherIsLetIn
  <2> HIDE DEF i
  <2> QED BY <1>1, <1>3, <2>1, <2>2, WithNameNames
<1> QED BY <1>2, <1>3

-----------------------------------------------------------------------------
(* A directory is copied: each file of it gets a number and a name of its own. *)
LEMMA ListIs ==
    ASSUME NEW S, IsFiniteSet(S)
    PROVE  /\ SetToSeq(S) \in Seq(S) /\ Len(SetToSeq(S)) \in Nat
           /\ DOMAIN SetToSeq(S) = 1 .. Len(SetToSeq(S))
           /\ \A k \in DOMAIN SetToSeq(S) : SetToSeq(S)[k] \in S
           /\ \A x \in S : \E k \in DOMAIN SetToSeq(S) : SetToSeq(S)[k] = x
           /\ \A k, l \in DOMAIN SetToSeq(S) : SetToSeq(S)[k] = SetToSeq(S)[l] => k = l
<1> DEFINE c == Cardinality(S)
           IsList(f) == f \in [1 .. c -> S] /\ IsInjective(f)
<1>1. c \in Nat
  BY FS_CardinalityType
<1>2. PICK g : g \in Bijection(1 .. c, S)
  BY FS_CardinalityType DEF ExistsBijection
<1>3. IsList(g)
  BY <1>2 DEF Bijection, Injection, IsInjective
<1> DEFINE f == SetToSeq(S)
<1>4. f = CHOOSE h \in [1 .. c -> S] : IsInjective(h)
  BY DEF SetToSeq
<1> HIDE DEF f, c
<1>5. f \in [1 .. c -> S] /\ IsInjective(f)
  BY <1>3, <1>4
<1>6. IsFiniteSet(1 .. c) /\ Cardinality(1 .. c) = c
  <2>1. 1 \in Int /\ c \in Int
    BY <1>1
  <2> QED BY <1>1, <2>1, FS_Interval
<1>7. f \in Surjection(1 .. c, S)
  <2>1. f \in Injection(1 .. c, S)
    BY <1>5 DEF Injection
  <2> QED BY <1>6, <2>1, FS_Injection DEF c
<1>8. f \in Seq(S) /\ Len(f) = c /\ DOMAIN f = 1 .. c
  BY <1>1, <1>5, SeqDef, LenProperties
<1>9. \A x \in S : \E k \in DOMAIN f : f[k] = x
  BY <1>7, <1>8 DEF Surjection
<1>10. \A k, l \in DOMAIN f : f[k] = f[l] => k = l
  BY <1>5 DEF IsInjective
<1> QED BY <1>1, <1>5, <1>8, <1>9, <1>10 DEF f

(* What CopyDir does, with its local names. *)
Inside(from) == {m \in Children(from) : IsFile(m)}
InDir(to, m) == Append(to, Last(m))
CopiedTo(list, to, n) == {k \in DOMAIN list : InDir(to, list[k]) = n}

(* A directory is copied: of the files in it those that are done.                              *)
Copies(to, done) ==
    /\ tree' = [n \in DOMAIN tree \cup {to} \cup {InDir(to, m) : m \in done} |->
                  IF CopiedTo(SetToSeq(done), to, n) # {}
                  THEN Len(inode) + CHOOSE k \in CopiedTo(SetToSeq(done), to, n) : TRUE
                  ELSE IF n = to THEN Dir ELSE tree[n]]
    /\ inode' = inode \o [k \in DOMAIN SetToSeq(done) |-> inode[tree[SetToSeq(done)[k]]]]
    /\ meant' = meant \o [k \in DOMAIN SetToSeq(done) |-> MeantBy(tree[SetToSeq(done)[k]])]

LEMMA CopyDirIs ==
    ASSUME NEW from, NEW to, NEW over, CopyDir(from, to, over)
    PROVE  /\ from # to /\ (IsDir(to) \/ (~There(to) /\ Creatable(to))) /\ task' = task
           /\ \E done \in SUBSET {m \in Inside(from) : ~There(InDir(to, m))} : Copies(to, done)
<1>1. PICK done \in SUBSET (Inside(from) \ {m \in Inside(from) : There(InDir(to, m))}) :
        Copies(to, done)
  BY Zenon DEF CopyDir, Inside, InDir, CopiedTo, Copies
<1>2. done \in SUBSET {m \in Inside(from) : ~There(InDir(to, m))}
  BY <1>1
<1>3. from # to /\ (IsDir(to) \/ (~There(to) /\ Creatable(to))) /\ task' = task
  BY DEF CopyDir
<1> QED BY <1>1, <1>2, <1>3

LEMMA CopyDirNames ==
    ASSUME MountInv, TextInv, NamesInv, mount' = mount, NEW over,
           NEW from \in DOMAIN tree, NEW to \in Seq(FileNames), Granted(to),
           CopyDir(from, to, over)
    PROVE  NamesInv' /\ ReadOnlyStays
<1>a. PICK done \in SUBSET {m \in Inside(from) : ~There(InDir(to, m))} : Copies(to, done)
  BY CopyDirIs
<1>1. /\ tree' = [n \in DOMAIN tree \cup {to} \cup {InDir(to, m) : m \in done} |->
                    IF CopiedTo(SetToSeq(done), to, n) # {}
                    THEN Len(inode) + CHOOSE k \in CopiedTo(SetToSeq(done), to, n) : TRUE
                    ELSE IF n = to THEN Dir ELSE tree[n]]
      /\ inode' = inode \o
            [k \in DOMAIN SetToSeq(done) |-> inode[tree[SetToSeq(done)[k]]]]
      /\ meant' = meant \o
            [k \in DOMAIN SetToSeq(done) |-> MeantBy(tree[SetToSeq(done)[k]])]
  BY <1>a DEF Copies
<1> DEFINE list == SetToSeq(done)
           new == {InDir(to, m) : m \in done}
           c(n) == CHOOSE k \in CopiedTo(list, to, n) : TRUE
<1>2. IsDir(to) \/ ~There(to)
  BY CopyDirIs
<1>3. LetInNow
  BY CopyDirIs, NoneNew, NoOtherIsLetIn
<1>4. IsFiniteSet(done)
  <2>1. done \subseteq DOMAIN tree
    BY DEF Inside, Children, Below
  <2> QED BY <2>1, FS_Subset DEF NamesInv, TreeInv
<1>5. /\ list \in Seq(done) /\ Len(list) \in Nat /\ DOMAIN list = 1 .. Len(list)
      /\ \A k \in DOMAIN list : list[k] \in done
      /\ \A x \in done : \E k \in DOMAIN list : list[k] = x
  BY <1>4, ListIs
<1>6. \A m \in done :
        /\ m \in DOMAIN tree /\ m \in Seq(FileNames) /\ Last(m) \in FileNames
        /\ tree[m] \in 1 .. Len(inode) /\ ~There(InDir(to, m))
        /\ InDir(to, m) \in Seq(FileNames) /\ Granted(InDir(to, m))
  <2>1. TAKE m \in done
  <2>2. m \in DOMAIN tree /\ Len(m) = Len(from) + 1 /\ tree[m] # Dir /\ ~There(InDir(to, m))
    BY DEF Inside, Children, Below, IsFile
  <2>3. m \in Seq(FileNames) /\ from \in Seq(FileNames) /\ tree[m] \in 0 .. Len(inode)
    BY <2>2 DEF NamesInv, TreeInv
  <2>4. Len(from) \in Nat /\ Len(m) \in 1 .. Len(m)
    BY <2>2, <2>3, LenProperties
  <2>5. Last(m) \in FileNames
    BY <2>3, <2>4, ElementOfSeq DEF Last
  <2>6. InDir(to, m) \in Seq(FileNames) /\ IsPrefix(to, InDir(to, m))
    BY <2>5, PrefixOfAppend DEF InDir
  <2>7. Granted(InDir(to, m))
    BY <2>6, GrantedBelow
  <2>8. tree[m] \in 1 .. Len(inode)
    BY <2>2, <2>3, TaskTypes DEF Dir
  <2> QED BY <2>2, <2>3, <2>5, <2>6, <2>7, <2>8
<1>7. Len(inode) \in Nat /\ inode \in Seq(Texts)
  BY TaskTypes DEF TextInv
<1> DEFINE more == [k \in DOMAIN list |-> inode[tree[list[k]]]]
<1>8. more \in Seq(Texts) /\ Len(more) = Len(list)
  <2>1. \A k \in 1 .. Len(list) : inode[tree[list[k]]] \in Texts
    BY <1>5, <1>6, TaskTypes
  <2>2. more \in [1 .. Len(list) -> Texts]
    BY <1>5, <2>1
  <2> HIDE DEF more, list
  <2> QED BY <1>5, <2>2, SeqDef, LenProperties
<1> DEFINE all == inode'
<1>9. /\ all = inode \o more
      /\ Len(all) = Len(inode) + Len(list) /\ \A i \in 1 .. Len(inode) : all[i] = inode[i]
  <2>1. all = inode \o more
    BY <1>1
  <2>2. Len(more) \in Nat /\ Len(more) = Len(list)
    BY <1>5, <1>8
  <2> HIDE DEF more, list, all
  <2>3. /\ Len(all) = Len(inode) + Len(more)
        /\ \A i \in 1 .. Len(inode) + Len(more) :
             all[i] = IF i <= Len(inode) THEN inode[i] ELSE more[i - Len(inode)]
    BY <1>7, <1>8, <2>1, ConcatProperties
  <2> QED BY <1>7, <2>1, <2>2, <2>3
<1>10. \A n \in new : CopiedTo(list, to, n) # {}
  <2>1. TAKE n \in new
  <2>2. PICK m \in done : n = InDir(to, m)
    OBVIOUS
  <2>3. PICK k \in DOMAIN list : list[k] = m
    BY <1>5
  <2> QED BY <2>2, <2>3 DEF CopiedTo
<1>11. \A n : CopiedTo(list, to, n) # {} =>
         /\ c(n) \in 1 .. Len(list) /\ n = InDir(to, list[c(n)]) /\ n \in new /\ ~There(n)
  <2>1. TAKE n
  <2>2. SUFFICES ASSUME CopiedTo(list, to, n) # {}
                 PROVE  /\ c(n) \in 1 .. Len(list) /\ n = InDir(to, list[c(n)])
                        /\ n \in new /\ ~There(n)
    OBVIOUS
  <2>3. c(n) \in CopiedTo(list, to, n)
    BY <2>2
  <2>4. c(n) \in DOMAIN list /\ InDir(to, list[c(n)]) = n
    BY <2>3 DEF CopiedTo
  <2> HIDE DEF list, c
  <2>5. list[c(n)] \in done
    BY <1>5, <2>4
  <2> QED BY <1>5, <1>6, <2>4, <2>5
<1>12. /\ DOMAIN tree' = DOMAIN tree \cup {to} \cup new
       /\ \A n \in DOMAIN tree' : tree'[n] = IF CopiedTo(list, to, n) # {} THEN Len(inode) + c(n)
                                             ELSE IF n = to THEN Dir ELSE tree[n]
  BY <1>1
<1> HIDE DEF list, c, more
<1>13. IsFiniteSet(DOMAIN tree')
  <2> DEFINE f == [m \in done |-> InDir(to, m)]
  <2>1. f \in Surjection(done, new)
    BY DEF Surjection
  <2> HIDE DEF f, new
  <2>2. IsFiniteSet(new)
    BY <1>4, <2>1, FS_Surjection
  <2>3. IsFiniteSet(DOMAIN tree \cup {to})
    BY FS_AddElement DEF NamesInv, TreeInv
  <2> QED BY <1>12, <2>2, <2>3, FS_Union
<1> HIDE DEF new
<1>14. \A n \in DOMAIN tree : tree'[n] = tree[n]
  <2>1. TAKE n \in DOMAIN tree
  <2>2. CopiedTo(list, to, n) = {}
    BY <1>11 DEF There
  <2>3. n = to => tree[n] = Dir
    BY <1>2 DEF IsDir, There
  <2> QED BY <1>12, <2>2, <2>3
<1>15. \A n \in DOMAIN tree' \ DOMAIN tree :
         /\ n \in Seq(FileNames) /\ (Granted(n) \/ (LeadsThere(n) /\ tree'[n] = Dir))
         /\ tree'[n] \in 0 .. Len(all) /\ tree'[n] \notin 1 .. Len(inode)
  <2>1. TAKE n \in DOMAIN tree' \ DOMAIN tree
  <2>2. CASE CopiedTo(list, to, n) # {}
    <3>1. c(n) \in 1 .. Len(list) /\ list[c(n)] \in done /\ n = InDir(to, list[c(n)])
      BY <1>5, <1>11, <2>2
    <3>2. tree'[n] = Len(inode) + c(n)
      BY <1>12, <2>2
    <3>3. n \in Seq(FileNames) /\ Granted(n)
      BY <1>6, <3>1
    <3> QED BY <1>5, <1>7, <1>9, <3>1, <3>2, <3>3
  <2>3. CASE CopiedTo(list, to, n) = {}
    <3>1. n = to
      BY <1>10, <1>12, <2>3
    <3>2. tree'[n] = Dir
      BY <1>12, <2>3, <3>1
    <3> QED BY <1>5, <1>7, <1>9, <3>1, <3>2 DEF Dir
  <2> QED BY <2>2, <2>3
<1>16. \A m, n \in DOMAIN tree' \ DOMAIN tree : tree'[m] = tree'[n] /\ tree'[m] # Dir => m = n
  <2>1. SUFFICES ASSUME NEW m \in DOMAIN tree' \ DOMAIN tree, NEW n \in DOMAIN tree' \ DOMAIN tree,
                        tree'[m] = tree'[n], tree'[m] # Dir
                 PROVE  m = n
    OBVIOUS
  <2>2. CopiedTo(list, to, m) # {} /\ CopiedTo(list, to, n) # {}
    BY <1>10, <1>12, <2>1
  <2>3. tree'[m] = Len(inode) + c(m) /\ tree'[n] = Len(inode) + c(n)
    BY <1>12, <2>2
  <2>4. c(m) \in Nat /\ c(n) \in Nat
    BY <1>5, <1>11, <2>2
  <2>5. c(m) = c(n)
    <3>1. \A a, b \in Nat : Len(inode) + a = Len(inode) + b => a = b
      BY <1>7
    <3>2. Len(inode) + c(m) = Len(inode) + c(n)
      BY <2>1, <2>3
    <3> QED BY <2>4, <3>1, <3>2
  <2> QED BY <1>11, <2>2, <2>5
<1>17. Len(all) \in Nat /\ Len(all) >= Len(inode) /\ DOMAIN tree \subseteq DOMAIN tree'
  BY <1>5, <1>7, <1>9, <1>12
<1> QED
  BY ONLY <1>3, <1>9, <1>13, <1>14, <1>15, <1>16, <1>17, MountInv, TextInv, NamesInv,
            mount' = mount,
          NewNames

-----------------------------------------------------------------------------
(* Names, action by action. *)
LEMMA HavingIs ==
    ASSUME NEW p \in Having PROVE p \in Virtuals /\ p \in Seq(Spelled)
BY PathsAssumption DEF Having

LEMMA FileHasName ==
    ASSUME TreeInv, NEW n, IsFile(n)
    PROVE  n \in DOMAIN tree /\ n \in Seq(FileNames) /\ Last(n) \in FileNames
<1>1. n \in DOMAIN tree /\ n \in Seq(FileNames) /\ n # <<>>
  BY DEF TreeInv, IsFile, There
<1>2. Len(n) \in Nat /\ Len(n) # 0
  BY <1>1, LenProperties, EmptySeq
<1>3. Len(n) \in 1 .. Len(n)
  BY <1>2
<1> QED BY <1>1, <1>3, ElementOfSeq DEF Last

LEMMA CopyNames ==
    ASSUME MountInv, TextInv, NamesInv, NEW p \in Having, NEW q \in Having, NEW over,
           Copy(p, q, over)
    PROVE  NamesInv' /\ ReadOnlyStays
<1> DEFINE from == NativeOf(p)
           to == NativeOf(q)
<1>1. RW(q) /\ There(from) /\ mount' = mount
  BY DEF Copy, MayCopy
<1>2. to \in Seq(FileNames) /\ Granted(to)
  BY <1>1, HavingIs, NativeGranted
<1>3. from \in DOMAIN tree
  BY <1>1 DEF There
<1> HIDE DEF from, to
<1>4. CASE IsFile(from) /\ ~IsDir(to) /\ CopyOneFile(from, to, over)
  BY <1>1, <1>2, <1>3, <1>4, CopyOneFileNames
<1>5. CASE IsFile(from) /\ IsDir(to) /\ CopyOneFile(from, Append(to, Last(from)), over)
  <2>1. Append(to, Last(from)) \in Seq(FileNames) /\ Granted(Append(to, Last(from)))
    <3>1. Last(from) \in FileNames
      BY <1>5, FileHasName DEF NamesInv
    <3> QED BY <1>2, <3>1, PrefixOfAppend, GrantedBelow
  <2> QED BY <1>1, <1>3, <1>5, <2>1, CopyOneFileNames
<1>6. CASE IsDir(from) /\ CopyDir(from, to, over)
  BY <1>1, <1>2, <1>3, <1>6, CopyDirNames
<1>7. \/ IsFile(from) /\ ~IsDir(to) /\ CopyOneFile(from, to, over)
      \/ IsFile(from) /\ IsDir(to) /\ CopyOneFile(from, Append(to, Last(from)), over)
      \/ IsDir(from) /\ CopyDir(from, to, over)
  BY DEF Copy, FileAt, from, to
<1> QED BY <1>4, <1>5, <1>6, <1>7

(* The names below a directory that is moved. *)
MovedTo(n, from, to) == to \o Rest(n, from)

LEMMA MovedNames ==
    ASSUME MountInv, TreeInv, NEW from \in Seq(FileNames), NEW to \in Seq(FileNames),
           Granted(from), Granted(to)
    PROVE  /\ \A n \in Below(from) :
                /\ n \in DOMAIN tree /\ n \in Seq(FileNames) /\ Granted(n)
                /\ MovedTo(n, from, to) \in Seq(FileNames) /\ Granted(MovedTo(n, from, to))
           /\ \A m, n \in Below(from) : MovedTo(m, from, to) = MovedTo(n, from, to) => m = n
<1>1. ASSUME NEW n \in Below(from)
      PROVE  /\ n \in DOMAIN tree /\ n \in Seq(FileNames) /\ Granted(n)
             /\ MovedTo(n, from, to) \in Seq(FileNames) /\ Granted(MovedTo(n, from, to))
             /\ Rest(n, from) \in Seq(FileNames) /\ n = from \o Rest(n, from)
  <2>1. n \in DOMAIN tree /\ n \in Seq(FileNames) /\ IsPrefix(from, n)
    BY DEF Below, TreeInv
  <2>2. Rest(n, from) \in Seq(FileNames) /\ n = from \o Rest(n, from)
    BY <2>1, RestOf
  <2>3. MovedTo(n, from, to) \in Seq(FileNames) /\ IsPrefix(to, MovedTo(n, from, to))
    BY <2>2, PrefixOfConcat DEF MovedTo
  <2> QED BY <2>1, <2>2, <2>3, GrantedBelow
<1>2. ASSUME NEW m \in Below(from), NEW n \in Below(from),
             MovedTo(m, from, to) = MovedTo(n, from, to)
      PROVE  m = n
  <2>1. to \o Rest(m, from) = to \o Rest(n, from)
    BY <1>2 DEF MovedTo
  <2>2. Rest(m, from) = Rest(n, from)
    BY <1>1, <2>1, ConcatSimplifications
  <2> QED BY <1>1, <2>2
<1> QED BY <1>1, <1>2

LEMMA MoveNames ==
    ASSUME MountInv, TextInv, NamesInv, NEW p \in Having, NEW q \in Having, Move(p, q)
    PROVE  NamesInv' /\ ReadOnlyStays
<1> DEFINE from == NativeOf(p)
           to == NativeOf(q)
           image == {MovedTo(n, from, to) : n \in Below(from)}
           same == DOMAIN tree \ Below(from)
<1>1. /\ RW(p) /\ RW(q) /\ mount' = mount /\ inode' = inode /\ task' = task
      /\ tree' = [m \in image \cup same |->
                    IF \E n \in Below(from) : MovedTo(n, from, to) = m
                    THEN tree[CHOOSE n \in Below(from) : MovedTo(n, from, to) = m] ELSE tree[m]]
  BY DEF Move, MovedTo
<1>2. from \in Seq(FileNames) /\ Granted(from) /\ to \in Seq(FileNames) /\ Granted(to)
  BY <1>1, HavingIs, NativeGranted
<1>a. to # <<>> /\ ~IsPrefix(from, to)
  BY DEF Move, Creatable
<1> HIDE DEF from, to
<1>3. /\ \A n \in Below(from) :
           /\ n \in DOMAIN tree /\ n \in Seq(FileNames) /\ Granted(n)
           /\ MovedTo(n, from, to) \in Seq(FileNames) /\ Granted(MovedTo(n, from, to))
      /\ \A m, n \in Below(from) : MovedTo(m, from, to) = MovedTo(n, from, to) => m = n
  BY <1>2, MovedNames DEF NamesInv
<1>4. DOMAIN tree' = image \cup same
  BY <1>1
<1>5. \A m \in DOMAIN tree' :
        \/ \E n \in Below(from) : MovedTo(n, from, to) = m /\ tree'[m] = tree[n]
        \/ m \in same /\ m \notin image /\ tree'[m] = tree[m]
  <2>1. TAKE m \in DOMAIN tree'
  <2>2. CASE \E n \in Below(from) : MovedTo(n, from, to) = m
    <3> DEFINE n == CHOOSE k \in Below(from) : MovedTo(k, from, to) = m
    <3>1. n \in Below(from) /\ MovedTo(n, from, to) = m
      BY <2>2
    <3>2. tree'[m] = tree[n]
      BY <1>1, <2>2
    <3> QED BY <3>1, <3>2
  <2>3. CASE ~\E n \in Below(from) : MovedTo(n, from, to) = m
    BY <1>1, <1>4, <2>3
  <2> QED BY <2>2, <2>3
<1>6. LetInNow
  BY <1>1, NoneNew, NoOtherIsLetIn
<1>7. ReadOnlyStays
  <2>1. SUFFICES ASSUME NEW n \in DOMAIN tree \cup DOMAIN tree', ~Granted(n) PROVE Stays(n)
    BY DEF ReadOnlyStays
  <2>2. n \notin image /\ n \notin Below(from)
    BY <1>3, <2>1
  <2>3. n \in same /\ n \in DOMAIN tree'
    BY <1>4, <2>1, <2>2
  <2>4. tree'[n] = tree[n]
    BY <1>5, <2>2, <2>3
  <2> QED BY <1>1, <2>3, <2>4 DEF Stays, There
<1>8. IsFiniteSet(DOMAIN tree')
  <2>1. IsFiniteSet(Below(from)) /\ IsFiniteSet(same)
    <3>1. Below(from) \subseteq DOMAIN tree /\ same \subseteq DOMAIN tree
      BY DEF Below
    <3> QED BY <3>1, FS_Subset DEF NamesInv, TreeInv
  <2> DEFINE f == [n \in Below(from) |-> MovedTo(n, from, to)]
  <2>2. f \in Surjection(Below(from), image)
    BY DEF Surjection
  <2> HIDE DEF f, image, same
  <2>3. IsFiniteSet(image)
    BY <2>1, <2>2, FS_Surjection
  <2> QED BY <1>4, <2>1, <2>3, FS_Union
<1>9. TreeInv'
  <2>1. \A n \in DOMAIN tree : n \in Seq(FileNames) /\ tree[n] \in 0 .. Len(inode)
    BY DEF NamesInv, TreeInv
  <2>2. \A n \in DOMAIN tree' : n \in Seq(FileNames) /\ tree'[n] \in 0 .. Len(inode')
    BY <1>1, <1>3, <1>5, <2>1
  <2>3. <<>> \in DOMAIN tree' /\ tree'[<<>>] = Dir
    <3>1. <<>> \in Seq(FileNames) /\ Len(<<>>) = 0 /\ Len(to) \in Nat /\ Len(from) \in Nat
      BY <1>2, LenProperties
    <3>2. <<>> \notin Below(from)
      <4>1. from # <<>>
        <5>1. SUFFICES ASSUME from = <<>> PROVE FALSE
          OBVIOUS
        <5>2. Len(from) = 0
          BY <3>1, <5>1
        <5>3. Len(from) <= Len(to) /\ \A k \in 1 .. Len(from) : from[k] = to[k]
          BY <3>1, <5>2
        <5>4. IsPrefix(from, to)
          BY <1>2, <5>3, PrefixIs
        <5> QED BY <1>a, <5>4
      <4>2. IsPrefix(from, <<>>) => Len(from) <= 0
        BY <1>2, <3>1, PrefixIs
      <4>3. Len(from) <= 0 => from = <<>>
        BY <1>2, <3>1, EmptySeq
      <4> QED BY <4>1, <4>2, <4>3 DEF Below
    <3>3. <<>> \notin image
      <4>1. SUFFICES ASSUME NEW n \in Below(from), MovedTo(n, from, to) = <<>> PROVE FALSE
        OBVIOUS
      <4>2. Rest(n, from) \in Seq(FileNames)
        <5>1. n \in Seq(FileNames) /\ IsPrefix(from, n)
          BY DEF Below, NamesInv, TreeInv
        <5> QED BY <1>2, <5>1, RestOf
      <4>3. IsPrefix(to, <<>>)
        BY <1>2, <4>1, <4>2, PrefixOfConcat DEF MovedTo
      <4>4. Len(to) <= 0
        BY <1>2, <3>1, <4>3, PrefixIs
      <4> QED BY <1>2, <1>a, <3>1, <4>4, EmptySeq
    <3>4. <<>> \in same /\ tree[<<>>] = Dir
      BY <3>2 DEF NamesInv, TreeInv
    <3> QED BY <1>4, <1>5, <3>3, <3>4
  <2> QED BY <1>8, <2>2, <2>3 DEF TreeInv
<1>10. OneName'
  <2>1. SUFFICES ASSUME NEW m \in DOMAIN tree', NEW n \in DOMAIN tree', tree'[m] = tree'[n],
                        tree'[m] # Dir
                 PROVE  m = n
    BY DEF OneName
  <2>2. \A k, l \in DOMAIN tree : tree[k] = tree[l] /\ tree[k] # Dir => k = l
    BY DEF NamesInv, OneName
  <2>3. CASE m \notin image /\ n \notin image
    BY <1>5, <2>1, <2>2, <2>3
  <2>4. CASE m \in image /\ n \in image
    <3>1. PICK k \in Below(from) : MovedTo(k, from, to) = m /\ tree'[m] = tree[k]
      BY <1>5, <2>4
    <3>2. PICK l \in Below(from) : MovedTo(l, from, to) = n /\ tree'[n] = tree[l]
      BY <1>5, <2>4
    <3> QED BY <1>3, <2>1, <2>2, <3>1, <3>2
  <2>5. CASE m \in image /\ n \notin image
    <3>1. PICK k \in Below(from) : MovedTo(k, from, to) = m /\ tree'[m] = tree[k]
      BY <1>5, <2>5
    <3>2. n \in same /\ tree'[n] = tree[n]
      BY <1>5, <2>5
    <3> QED BY <1>3, <2>1, <2>2, <3>1, <3>2
  <2>6. CASE m \notin image /\ n \in image
    <3>1. PICK k \in Below(from) : MovedTo(k, from, to) = n /\ tree'[n] = tree[k]
      BY <1>5, <2>6
    <3>2. m \in same /\ tree'[m] = tree[m]
      BY <1>5, <2>6
    <3> QED BY <1>3, <2>1, <2>2, <3>1, <3>2
  <2> QED BY <2>3, <2>4, <2>5, <2>6
<1>11. LetIn'
  <2>1. \A n \in DOMAIN tree' :
          \/ Granted(n)
          \/ tree'[n] \notin 1 .. Len(inode)
          \/ \E m \in DOMAIN tree : tree[m] = tree'[n] /\ (Granted(m) => Granted(n))
    BY <1>3, <1>5
  <2>2. LetIn
    BY DEF NamesInv
  <2> QED BY ONLY <1>1, <1>6, <2>1, <2>2, TextInv, StillLetIn
<1> QED BY <1>7, <1>9, <1>10, <1>11 DEF NamesInv

(* Fewer names, and the same files. *)
LEMMA RemoveNames ==
    ASSUME MountInv, TextInv, NamesInv, NEW p \in Having, NEW recursive, RemovePath(p, recursive)
    PROVE  NamesInv' /\ ReadOnlyStays
<1> DEFINE n == NativeOf(p)
<1>1. /\ RW(p) /\ mount' = mount /\ inode' = inode /\ task' = task
      /\ tree' = [m \in DOMAIN tree \ (Below(n) \ {<<>>}) |-> tree[m]]
  BY DEF RemovePath
<1>2. n \in Seq(FileNames) /\ Granted(n)
  BY <1>1, HavingIs, NativeGranted
<1> HIDE DEF n
<1>3. /\ DOMAIN tree' = DOMAIN tree \ (Below(n) \ {<<>>})
      /\ \A m \in DOMAIN tree' : m \in DOMAIN tree /\ tree'[m] = tree[m]
  BY <1>1
<1>4. \A m \in Below(n) : Granted(m)
  BY <1>2, GrantedBelow DEF Below, NamesInv, TreeInv
<1>5. ReadOnlyStays
  BY <1>1, <1>3, <1>4 DEF ReadOnlyStays, Stays, There
<1>6. TreeInv'
  <2>1. IsFiniteSet(DOMAIN tree')
    BY <1>3, FS_Subset DEF NamesInv, TreeInv
  <2> QED BY <1>1, <1>3, <2>1 DEF NamesInv, TreeInv
<1>7. OneName'
  BY <1>3 DEF NamesInv, OneName
<1>8. LetIn'
  <2>1. LetInNow
    BY <1>1, NoneNew, NoOtherIsLetIn
  <2>2. \A m \in DOMAIN tree' :
          \/ Granted(m)
          \/ tree'[m] \notin 1 .. Len(inode)
          \/ \E k \in DOMAIN tree : tree[k] = tree'[m] /\ (Granted(k) => Granted(m))
    BY <1>3
  <2>3. LetIn
    BY DEF NamesInv
  <2> QED BY ONLY <1>1, <2>1, <2>2, <2>3, TextInv, StillLetIn
<1> QED BY <1>5, <1>6, <1>7, <1>8 DEF NamesInv

LEMMA MakeDirNames ==
    ASSUME MountInv, TextInv, NamesInv, NEW p \in Having, NEW recursive \in BOOLEAN,
           MakeDir(p, recursive)
    PROVE  NamesInv' /\ ReadOnlyStays
<1> DEFINE n == NativeOf(p)
           made == IF recursive THEN {SubSeq(n, 1, k) : k \in 1 .. Len(n)} ELSE {n}
<1>1. /\ RW(p) /\ mount' = mount /\ inode' = inode /\ task' = task
      /\ tree' = [m \in DOMAIN tree \cup made |-> IF There(m) THEN tree[m] ELSE Dir]
  BY DEF MakeDir
<1>2. n \in Seq(FileNames) /\ Granted(n) /\ Len(n) \in Nat
  BY <1>1, HavingIs, NativeGranted, LenProperties
<1>3. \A m \in made : m \in Seq(FileNames) /\ (Granted(m) \/ LeadsThere(m))
  <2>1. CASE recursive
    BY <1>1, <2>1, HavingIs, OnTheWay
  <2>2. CASE ~recursive
    BY <1>2, <2>2
  <2> QED BY <2>1, <2>2
<1>4. IsFiniteSet(made)
  <2>1. CASE recursive
    <3> DEFINE f == [k \in 1 .. Len(n) |-> SubSeq(n, 1, k)]
    <3>1. f \in Surjection(1 .. Len(n), made)
      BY <2>1 DEF Surjection
    <3>2. IsFiniteSet(1 .. Len(n))
      <4>1. 1 \in Int /\ Len(n) \in Int
        BY <1>2
      <4> QED BY <4>1, FS_Interval
    <3> HIDE DEF f, made
    <3> QED BY <3>1, <3>2, FS_Surjection
  <2>2. CASE ~recursive
    BY <2>2, FS_Singleton
  <2> QED BY <2>1, <2>2
<1> HIDE DEF made, n
<1>5. DOMAIN tree' = DOMAIN tree \cup made
  BY <1>1
<1>6. \A m \in DOMAIN tree : tree'[m] = tree[m]
  BY <1>1 DEF There
<1>7. \A m \in DOMAIN tree' \ DOMAIN tree : tree'[m] = Dir /\ m \in made
  BY <1>1, <1>5 DEF There
<1>8. Len(inode) \in Nat
  BY TaskTypes
<1>9. \A m \in DOMAIN tree' \ DOMAIN tree :
        /\ m \in Seq(FileNames) /\ (Granted(m) \/ (LeadsThere(m) /\ tree'[m] = Dir))
        /\ tree'[m] \in 0 .. Len(inode') /\ tree'[m] \notin 1 .. Len(inode)
  <2>1. TAKE m \in DOMAIN tree' \ DOMAIN tree
  <2>2. tree'[m] = 0 /\ m \in made
    BY <1>7 DEF Dir
  <2>3. tree'[m] \in 0 .. Len(inode') /\ tree'[m] \notin 1 .. Len(inode)
    BY <1>1, <1>8, <2>2
  <2> QED BY <1>3, <2>2, <2>3 DEF Dir
<1>10. IsFiniteSet(DOMAIN tree')
  BY <1>4, <1>5, FS_Union DEF NamesInv, TreeInv
<1>11. LetInNow
  BY <1>1, NoneNew, NoOtherIsLetIn
<1>12. /\ mount' = mount /\ Len(inode') \in Nat /\ Len(inode') >= Len(inode)
       /\ \A i \in 1 .. Len(inode) : inode'[i] = inode[i]
       /\ DOMAIN tree \subseteq DOMAIN tree'
       /\ \A k, m \in DOMAIN tree' \ DOMAIN tree : tree'[k] = tree'[m] /\ tree'[k] # Dir => k = m
  BY <1>1, <1>5, <1>7, <1>8
<1> QED
  BY ONLY <1>6, <1>9, <1>10, <1>11, <1>12, MountInv, TextInv, NamesInv, NewNames

(* A new task is appended to those that are there, which may be disturbed. *)
LEMMA NewTask ==
    ASSUME TextInv, NEW i \in Nat, NEW new \in Tasks, task' = Append(Disturbed(i), new)
    PROVE  /\ task' \in Seq(Tasks) /\ DOMAIN task' = 1 .. Len(task) + 1
           /\ \A t \in DOMAIN task :
                /\ Alike(task[t], task'[t])
                /\ task[t].kind = "read" /\ task[t].inode = i /\ Going(t) => ~task'[t].sure
           /\ task'[Len(task) + 1] = new
<1> DEFINE d == Disturbed(i)
<1>1. /\ d \in Seq(Tasks) /\ Len(d) = Len(task)
      /\ \A t \in DOMAIN task :
           /\ Alike(task[t], d[t])
           /\ task[t].kind = "read" /\ task[t].inode = i /\ Going(t) => ~d[t].sure
  BY DisturbedAre
<1>2. task' = Append(d, new)
  OBVIOUS
<1> HIDE DEF d
<1>3. /\ Append(d, new) \in Seq(Tasks) /\ Len(Append(d, new)) = Len(d) + 1
      /\ \A t \in 1 .. Len(d) : Append(d, new)[t] = d[t]
      /\ Append(d, new)[Len(d) + 1] = new
  BY <1>1, AppendProperties
<1>4. DOMAIN task' = 1 .. Len(task')
  BY <1>2, <1>3, LenProperties
<1>5. DOMAIN task = 1 .. Len(task) /\ Len(task) \in Nat
  BY TaskTypes
<1> QED BY <1>1, <1>2, <1>3, <1>4, <1>5

LEMMA BegunIs ==
    ASSUME NEW kind \in {"read", "write"}, NEW i \in Nat, NEW size \in Nat, NEW append \in BOOLEAN,
           NEW sure \in BOOLEAN, NEW want \in Texts
    PROVE  Begun(kind, i, size, append, sure, want) \in Tasks
<1>1. <<>> \in Texts
  BY DEF Texts
<1> QED BY <1>1 DEF Begun, Tasks

(* What it is to write to a file i of the name n, with the local names of StartWrite.         *)
StartsOn(n, i, size, append) ==
    /\ Granted(n) /\ mount' = mount
    /\ task' = Append(Disturbed(i), Begun("write", i, size, append, TRUE, <<>>))
    /\ Begun("write", i, size, append, TRUE, <<>>) \in Tasks
    /\ \/ /\ ~There(n) /\ i = Len(inode) + 1 /\ tree' = WithName(n, NewInode)
          /\ inode' = Append(inode, <<>>)
          /\ meant' = Append(meant, [Certain(<<>>) EXCEPT !.adds = {Len(task) + 1}])
       \/ /\ n \in DOMAIN tree /\ i = tree[n] /\ i \in 1 .. Len(inode) /\ tree' = tree
          /\ inode' = IF append THEN inode ELSE [inode EXCEPT ![i] = <<>>]
          /\ meant' = [meant EXCEPT ![i] = MeantNow(i, Len(task) + 1, append)]

LEMMA StartWriteIs ==
    ASSUME MountInv, TextInv, NamesInv, NEW p \in Having, NEW size \in Sizes,
           NEW append \in BOOLEAN, StartWrite(p, size, append)
    PROVE  \E n \in Seq(FileNames), i \in 1 .. Len(inode) + 1 : StartsOn(n, i, size, append)
<1> DEFINE n == NativeOf(p)
           i == IF ~There(n) THEN NewInode ELSE tree[n]
<1>1. RW(p) /\ mount' = mount /\ (IsFile(n) \/ (~There(n) /\ Creatable(n)))
  BY DEF StartWrite, FileAt
<1>2. n \in Seq(FileNames) /\ Granted(n)
  BY <1>1, HavingIs, NativeGranted
<1>3. /\ task' = Append(Disturbed(i), Begun("write", i, size, append, TRUE, <<>>))
      /\ IF ~There(n)
         THEN /\ tree' = WithName(n, i)
              /\ inode' = Append(inode, <<>>)
              /\ meant' = Append(meant, [Certain(<<>>) EXCEPT !.adds = {Len(task) + 1}])
         ELSE /\ inode' = IF append THEN inode ELSE [inode EXCEPT ![i] = <<>>]
              /\ meant' = [meant EXCEPT ![i] = MeantNow(i, Len(task) + 1, append)]
              /\ tree' = tree
  BY DEF StartWrite
<1>4. Len(inode) \in Nat /\ size \in Nat /\ <<>> \in Texts
  BY TaskTypes, PathsAssumption DEF Texts
<1>5. i = IF ~There(n) THEN NewInode ELSE tree[n]
  OBVIOUS
<1> HIDE DEF n, i
<1>6. \/ ~There(n) /\ i = Len(inode) + 1 /\ i = NewInode
      \/ There(n) /\ n \in DOMAIN tree /\ i = tree[n] /\ i \in 1 .. Len(inode)
  <2>1. CASE ~There(n)
    BY <1>5, <2>1 DEF NewInode
  <2>2. CASE There(n)
    BY <1>1, <1>4, <1>5, <2>2 DEF There, NamesInv, TreeInv, IsFile, Dir
  <2> QED BY <2>1, <2>2
<1>7. i \in 1 .. Len(inode) + 1 /\ i \in Nat
  BY <1>4, <1>6
<1>8. Begun("write", i, size, append, TRUE, <<>>) \in Tasks
  <2>1. "write" \in {"read", "write"} /\ TRUE \in BOOLEAN
    OBVIOUS
  <2> QED BY <1>4, <1>7, <2>1, BegunIs
<1>9. StartsOn(n, i, size, append)
  BY <1>1, <1>2, <1>3, <1>6, <1>8 DEF StartsOn
<1> QED BY <1>2, <1>7, <1>9

LEMMA StartWriteNames ==
    ASSUME MountInv, TextInv, NamesInv, NEW p \in Having, NEW size \in Sizes,
           NEW append \in BOOLEAN, StartWrite(p, size, append)
    PROVE  NamesInv' /\ ReadOnlyStays
<1>0. PICK n \in Seq(FileNames), i \in 1 .. Len(inode) + 1 : StartsOn(n, i, size, append)
  BY StartWriteIs
<1>1. /\ Granted(n) /\ mount' = mount
      /\ task' = Append(Disturbed(i), Begun("write", i, size, append, TRUE, <<>>))
      /\ Begun("write", i, size, append, TRUE, <<>>) \in Tasks
      /\ \/ /\ ~There(n) /\ i = Len(inode) + 1 /\ tree' = WithName(n, NewInode)
            /\ inode' = Append(inode, <<>>)
            /\ meant' = Append(meant, [Certain(<<>>) EXCEPT !.adds = {Len(task) + 1}])
         \/ /\ n \in DOMAIN tree /\ i = tree[n] /\ i \in 1 .. Len(inode) /\ tree' = tree
            /\ inode' = IF append THEN inode ELSE [inode EXCEPT ![i] = <<>>]
            /\ meant' = [meant EXCEPT ![i] = MeantNow(i, Len(task) + 1, append)]
  BY <1>0 DEF StartsOn
<1> DEFINE new == Begun("write", i, size, append, TRUE, <<>>)
<1>2. Len(inode) \in Nat /\ DOMAIN inode = 1 .. Len(inode) /\ <<>> \in Texts
  BY TaskTypes DEF Texts
<1>3. new \in Tasks /\ new.inode = i /\ task' = Append(Disturbed(i), new)
  BY <1>1 DEF Begun
<1> HIDE DEF new
<1>4. /\ DOMAIN task' = 1 .. Len(task) + 1 /\ task'[Len(task) + 1] = new
      /\ \A t \in DOMAIN task : Alike(task[t], task'[t])
  BY <1>2, <1>3, NewTask
<1>5. DOMAIN task = 1 .. Len(task) /\ Len(task) \in Nat
  BY TaskTypes
<1>6. \A m \in DOMAIN tree : tree[m] \in 0 .. Len(inode)
  BY DEF NamesInv, TreeInv
<1>7. \A m \in DOMAIN tree' : tree'[m] = i => m = n
  <2>1. CASE tree' = WithName(n, NewInode) /\ i = Len(inode) + 1
    BY <1>2, <1>6, <2>1 DEF WithName, NewInode
  <2>2. CASE tree' = tree /\ n \in DOMAIN tree /\ i = tree[n] /\ i \in 1 .. Len(inode)
    BY <1>2, <2>2 DEF NamesInv, OneName, Dir
  <2> QED BY <1>1, <2>1, <2>2
<1>8. LetInNow
  <2>1. SUFFICES ASSUME NEW t \in DOMAIN task', IsWriter(t)'
                 PROVE  \/ t \in DOMAIN task /\ IsWriter(t) /\ task'[t].inode = task[t].inode
                        \/ \A m \in DOMAIN tree' : tree'[m] = task'[t].inode => Granted(m)
    BY DEF LetInNow
  <2>2. CASE t = Len(task) + 1
    BY <1>1, <1>3, <1>4, <1>7, <2>2
  <2>3. CASE t # Len(task) + 1
    <3>1. t \in DOMAIN task /\ Alike(task[t], task'[t])
      BY <1>4, <1>5, <2>3
    <3> QED BY <2>1, <3>1 DEF Alike, IsWriter, Going
  <2> QED BY <2>2, <2>3
<1>9. CASE ~There(n) /\ tree' = WithName(n, NewInode) /\ inode' = Append(inode, <<>>)
  BY <1>1, <1>2, <1>8, <1>9, WithNameNames
<1>10. CASE /\ n \in DOMAIN tree /\ i = tree[n] /\ i \in 1 .. Len(inode) /\ tree' = tree
            /\ inode' = IF append THEN inode ELSE [inode EXCEPT ![i] = <<>>]
  <2>1. \A m \in DOMAIN tree : tree[m] = i => Granted(m)
    BY <1>1, <1>7, <1>10
  <2>2. CASE append
    <3>1. inode' = inode
      BY <1>10, <2>2
    <3>2. inode = [k \in DOMAIN inode |-> inode[k]]
      BY <1>2, LenProperties DEF TextInv
    <3>3. inode' = [inode EXCEPT ![i] = inode[i]]
      BY <1>2, <3>1, <3>2
    <3> QED BY <1>1, <1>8, <1>10, <2>1, <3>3, OverwriteNames
  <2>3. CASE ~append
    BY <1>1, <1>8, <1>10, <2>1, <2>3, OverwriteNames
  <2> QED BY <2>2, <2>3
<1> QED BY <1>1, <1>9, <1>10

(* A writer writes to its own file, or does not write: names and files stay as they are.      *)
LEMMA WriterNames ==
    ASSUME MountInv, TextInv, NamesInv, mount' = mount, tree' = tree, NoOther,
           NEW t \in DOMAIN task, IsWriter(t), NEW text,
           inode' = inode \/ inode' = [inode EXCEPT ![task[t].inode] = text]
    PROVE  NamesInv' /\ ReadOnlyStays
<1> DEFINE i == task[t].inode
<1>1. i \in 1 .. Len(inode) /\ DOMAIN inode = 1 .. Len(inode) /\ inode \in Seq(Texts)
  BY TaskTypes DEF TextInv
<1>2. \A n \in DOMAIN tree : tree[n] = i => Granted(n)
  BY DEF NamesInv, LetIn
<1>3. LetInNow
  BY NoOtherIsLetIn
<1> HIDE DEF i
<1>4. CASE inode' = inode
  <2>1. inode' = [inode EXCEPT ![i] = inode[i]]
    BY <1>1, <1>4
  <2> QED BY <1>1, <1>2, <1>3, <2>1, OverwriteNames
<1>5. CASE inode' = [inode EXCEPT ![task[t].inode] = text]
  <2>1. inode' = [inode EXCEPT ![i] = text]
    BY <1>5 DEF i
  <2> QED BY <1>1, <1>2, <1>3, <2>1, OverwriteNames
<1> QED BY <1>4, <1>5

(* Readers change no file at all, and write none. *)
LEMMA ReaderNames ==
    ASSUME TextInv, NamesInv, mount' = mount, tree' = tree, inode' = inode, LetInNow
    PROVE  NamesInv' /\ ReadOnlyStays
<1>1. ReadOnlyStays
  BY DEF ReadOnlyStays, Stays, There
<1>2. TreeInv' /\ OneName'
  BY DEF NamesInv, TreeInv, OneName
<1>3. LetIn'
  <2>1. LetIn
    BY DEF NamesInv
  <2>2. \A n \in DOMAIN tree' :
          \/ Granted(n)
          \/ tree'[n] \notin 1 .. Len(inode)
          \/ \E m \in DOMAIN tree : tree[m] = tree'[n] /\ (Granted(m) => Granted(n))
    OBVIOUS
  <2> QED BY <2>1, <2>2, StillLetIn
<1> QED BY <1>1, <1>2, <1>3 DEF NamesInv

-----------------------------------------------------------------------------
(* Texts: what keeps it known what a file should have. *)
NoWriters(i, tasks) ==
    \A t \in DOMAIN tasks :
        ~(tasks[t].kind = "write" /\ tasks[t].inode = i /\ tasks[t].at # "done")

TextsInv == TextInv /\ StageInv /\ KnownInv /\ ReaderInv

LEMMA WritersAre == ASSUME NEW i PROVE Writers(i) = {} <=> NoWriters(i, task)
BY DEF Writers, NoWriters, Going

LEMMA WrittenNat ==
    ASSUME NEW w \in Tasks, w.kind = "write", Stage(w)
    PROVE  Written(w) \in Nat /\ Written(w) <= w.size
BY DEF Written, Stage, Tasks

(* The same text means the same while the same is written, and nobody new writes to it.       *)
SameWriting(i, tasks, later) ==
    /\ DOMAIN tasks \subseteq DOMAIN later
    /\ \A t \in DOMAIN tasks :
         /\ later[t].kind = tasks[t].kind /\ later[t].inode = tasks[t].inode
         /\ later[t].append = tasks[t].append /\ later[t].size = tasks[t].size
         /\ tasks[t].kind = "write" /\ tasks[t].inode = i => Written(later[t]) = Written(tasks[t])
         /\ later[t].at # "done" => tasks[t].at # "done"
    /\ \A t \in DOMAIN later \ DOMAIN tasks :
         ~(later[t].kind = "write" /\ later[t].inode = i /\ later[t].at # "done")

LEMMA KnownSame ==
    ASSUME NEW text, NEW m, NEW i, NEW tasks, NEW later, SameWriting(i, tasks, later),
           Known(text, m, i, tasks)
    PROVE  Known(text, m, i, later)
<1> DEFINE added == Len(m.base) + 1 .. Len(text)
<1>1. \A t \in m.adds :
        /\ t \in DOMAIN tasks /\ tasks[t].kind = "write" /\ tasks[t].inode = i
        /\ t \in DOMAIN later /\ later[t].kind = "write" /\ later[t].inode = i
        /\ Written(later[t]) = Written(tasks[t]) /\ later[t].append = tasks[t].append
  BY DEF Known, SameWriting
<1>2. \A t \in DOMAIN later :
        later[t].kind = "write" /\ later[t].inode = i /\ later[t].at # "done" => t \in m.adds
  BY DEF Known, SameWriting
<1>3. \A k \in added : text[k].by \in m.adds /\ text[k].k \in 1 .. Written(later[text[k].by])
  BY <1>1 DEF Known
<1>4. \A t \in m.adds : \A j \in 1 .. Written(later[t]) : \E k \in added : text[k] = Piece(t, j)
  BY <1>1 DEF Known
<1>5. \A t \in m.adds :
        ~later[t].append => m.adds = {t} /\ m.base = <<>> /\ Len(text) = Written(later[t])
  BY <1>1 DEF Known
<1>6. IsPrefix(m.base, text)
  BY DEF Known
<1>7. \A k, l \in added : k < l /\ text[k].by = text[l].by => text[k].k < text[l].k
  BY DEF Known
<1> HIDE DEF added
<1>8. \A t \in m.adds : t \in DOMAIN later /\ later[t].kind = "write" /\ later[t].inode = i
  BY <1>1
<1> QED BY ONLY <1>2, <1>3, <1>4, <1>5, <1>6, <1>7, <1>8 DEF Known, added

LEMMA SameWritingSame ==
    ASSUME NEW i, NEW tasks PROVE SameWriting(i, tasks, tasks)
BY DEF SameWriting

LEMMA AlikeSame ==
    ASSUME NEW i, NEW tasks, NEW later, DOMAIN later = DOMAIN tasks,
           \A t \in DOMAIN tasks : Alike(tasks[t], later[t])
    PROVE  SameWriting(i, tasks, later)
BY DEF SameWriting, Alike, Written

(* A text that nobody writes is what it should be. *)
LEMMA KnownCertain ==
    ASSUME NEW text \in Texts, NEW i, NEW tasks, NoWriters(i, tasks)
    PROVE  Certain(text).sure /\ Known(text, Certain(text), i, tasks)
<1>1. Certain(text).base = text /\ Certain(text).adds = {} /\ Certain(text).sure
  BY DEF Certain
<1>2. Len(text) \in Nat
  BY LenProperties DEF Texts
<1>3. IsPrefix(text, text)
  BY PrefixIs, <1>2 DEF Texts
<1>4. ~ \E k : k \in Len(text) + 1 .. Len(text)
  BY <1>2
<1> HIDE DEF Certain
<1> QED BY <1>1, <1>3, <1>4 DEF Known, NoWriters

LEMMA MeantByIs ==
    ASSUME TextInv, NEW i \in 1 .. Len(inode)
    PROVE  /\ MeantBy(i) \in Meanings
           /\ MeantBy(i).sure => NoWriters(i, task) /\ MeantBy(i) = Certain(inode[i])
<1>1. inode[i] \in Texts /\ <<>> \in Texts
  BY TaskTypes DEF Texts
<1>2. Certain(inode[i]) \in Meanings /\ Unsure \in Meanings /\ ~Unsure.sure
  BY <1>1 DEF Certain, Unsure, Meanings
<1>3. CASE Writers(i) = {}
  BY <1>2, <1>3, WritersAre DEF MeantBy
<1>4. CASE Writers(i) # {}
  BY <1>2, <1>4 DEF MeantBy
<1> QED BY <1>3, <1>4

(* Readers keep what they have; those that somebody disturbs are not sure any more.           *)
LEMMA ReaderSame ==
    ASSUME NEW r, NEW s, NEW texts, NEW tasks, NEW others, NEW later,
           Alike(r, s), Reader(r, texts, tasks),
           s.kind = "read" /\ s.sure /\ s.at # "done" =>
             others[s.inode] = texts[s.inode] /\ NoWriters(s.inode, later)
    PROVE  Reader(s, others, later)
BY DEF Reader, Alike, NoWriters

-----------------------------------------------------------------------------
(* A text is copied over another one's. *)
LEMMA OverwriteTexts ==
    ASSUME TextsInv, NEW i \in 1 .. Len(inode), NEW j \in 1 .. Len(inode), i # j,
           inode' = [inode EXCEPT ![j] = inode[i]],
           meant' = [meant EXCEPT ![j] = IF Writers(j) = {} THEN MeantBy(i) ELSE Unsure],
           task' = Disturbed(j)
    PROVE  TextsInv'
<1> DEFINE m == IF Writers(j) = {} THEN MeantBy(i) ELSE Unsure
<1>1. TextInv
  BY DEF TextsInv
<1>2. m \in Meanings /\ (m.sure => NoWriters(j, task) /\ m = Certain(inode[i]))
  <2>1. Unsure \in Meanings /\ ~Unsure.sure
    BY DEF Unsure, Meanings, Texts
  <2> QED BY <1>1, <2>1, MeantByIs, WritersAre
<1>3. meant' = [meant EXCEPT ![j] = m]
  OBVIOUS
<1> HIDE DEF m
<1>4. /\ inode \in Seq(Texts) /\ meant \in Seq(Meanings) /\ Len(meant) = Len(inode)
      /\ \A k \in 1 .. Len(inode) : inode[k] \in Texts /\ meant[k] \in Meanings
  BY <1>1, TaskTypes DEF TextInv
<1>5. /\ inode' \in Seq(Texts) /\ Len(inode') = Len(inode)
      /\ \A k \in 1 .. Len(inode) : inode'[k] = IF k = j THEN inode[i] ELSE inode[k]
  BY <1>4, ExceptSeq
<1>6. /\ meant' \in Seq(Meanings) /\ Len(meant') = Len(meant)
      /\ \A k \in 1 .. Len(inode) : meant'[k] = IF k = j THEN m ELSE meant[k]
  BY <1>2, <1>3, <1>4, ExceptSeq
<1>7. /\ task' \in Seq(Tasks) /\ Len(task') = Len(task)
      /\ \A t \in DOMAIN task :
           /\ Alike(task[t], task'[t])
           /\ task[t].kind = "read" /\ task[t].inode = j /\ Going(t) => ~task'[t].sure
  BY <1>1, DisturbedAre
<1>8. DOMAIN task' = DOMAIN task
  BY DEF Disturbed
<1>9. TextInv'
  BY <1>1, <1>4, <1>5, <1>6, <1>7, <1>8 DEF TextInv, Alike
<1>10. StageInv'
  BY <1>7, <1>8 DEF TextsInv, StageInv, Stage, Alike
<1>11. \A k : NoWriters(k, task) => NoWriters(k, task')
  BY <1>7, <1>8 DEF NoWriters, Alike
<1>12. KnownInv'
  <2>1. SUFFICES ASSUME NEW k \in 1 .. Len(inode), meant'[k].sure
                 PROVE  Known(inode'[k], meant'[k], k, task')
    BY <1>5 DEF KnownInv
  <2>2. CASE k = j
    <3>1. meant'[k] = Certain(inode[i]) /\ inode'[k] = inode[i] /\ NoWriters(k, task')
      BY <1>2, <1>5, <1>6, <1>11, <2>1, <2>2
    <3> QED BY <1>4, <3>1, KnownCertain
  <2>3. CASE k # j
    <3>1. meant'[k] = meant[k] /\ inode'[k] = inode[k]
      BY <1>5, <1>6, <2>3
    <3>2. Known(inode[k], meant[k], k, task)
      BY <2>1, <3>1 DEF TextsInv, KnownInv
    <3>3. SameWriting(k, task, task')
      BY <1>7, <1>8, AlikeSame
    <3> QED BY <3>1, <3>2, <3>3, KnownSame
  <2> QED BY <2>2, <2>3
<1>13. ReaderInv'
  <2>1. SUFFICES ASSUME NEW t \in DOMAIN task PROVE Reader(task'[t], inode', task')
    BY <1>8 DEF ReaderInv
  <2>2. Reader(task[t], inode, task) /\ Alike(task[t], task'[t])
    BY <1>7 DEF TextsInv, ReaderInv
  <2>3. task'[t].kind = "read" /\ task'[t].sure /\ task'[t].at # "done" =>
          inode'[task'[t].inode] = inode[task'[t].inode] /\ NoWriters(task'[t].inode, task')
    <3>1. SUFFICES ASSUME task'[t].kind = "read", task'[t].sure, task'[t].at # "done"
                   PROVE  inode'[task'[t].inode] = inode[task'[t].inode]
                            /\ NoWriters(task'[t].inode, task')
      OBVIOUS
    <3>2. /\ task[t].kind = "read" /\ task[t].sure /\ Going(t) /\ task'[t].inode = task[t].inode
          /\ task[t].inode # j
      BY <1>7, <2>2, <3>1 DEF Alike, Going
    <3>3. task[t].inode \in 1 .. Len(inode)
      BY <1>1 DEF TextInv
    <3>4. NoWriters(task[t].inode, task)
      BY <2>2, <3>2 DEF Reader, NoWriters, Going
    <3> QED BY <1>5, <1>11, <3>2, <3>3, <3>4
  <2> DEFINE r == task[t]
             s == task'[t]
             texts == inode
             others == inode'
             tasks == task
             later == task'
  <2>4. Alike(r, s) /\ Reader(r, texts, tasks)
    BY <2>2
  <2>5. s.kind = "read" /\ s.sure /\ s.at # "done" =>
          others[s.inode] = texts[s.inode] /\ NoWriters(s.inode, later)
    BY <2>3
  <2> HIDE DEF r, s, texts, others, tasks, later
  <2>6. Reader(s, others, later)
    BY <2>4, <2>5, ReaderSame
  <2> QED BY <2>6 DEF s, others, later
<1> QED BY <1>9, <1>10, <1>12, <1>13 DEF TextsInv

(* New files come with what they should have. *)
LEMMA NewTexts ==
    ASSUME TextsInv, task' = task, NEW more \in Seq(Texts), NEW meanings \in Seq(Meanings),
           Len(meanings) = Len(more), inode' = inode \o more, meant' = meant \o meanings,
           \A k \in 1 .. Len(more) : meanings[k].sure => meanings[k] = Certain(more[k])
    PROVE  TextsInv'
<1>1. /\ inode \in Seq(Texts) /\ meant \in Seq(Meanings) /\ Len(meant) = Len(inode)
      /\ Len(inode) \in Nat /\ Len(more) \in Nat /\ TextInv
      /\ \A t \in DOMAIN task : task[t].inode \in 1 .. Len(inode)
  BY TaskTypes, LenProperties DEF TextsInv, TextInv
<1>2. /\ inode' \in Seq(Texts) /\ Len(inode') = Len(inode) + Len(more)
      /\ \A k \in 1 .. Len(inode) + Len(more) :
           inode'[k] = IF k <= Len(inode) THEN inode[k] ELSE more[k - Len(inode)]
  BY <1>1, ConcatProperties
<1>3. /\ meant' \in Seq(Meanings) /\ Len(meant') = Len(inode) + Len(more)
      /\ \A k \in 1 .. Len(inode) + Len(more) :
           meant'[k] = IF k <= Len(inode) THEN meant[k] ELSE meanings[k - Len(inode)]
  <2>1. /\ meant \o meanings \in Seq(Meanings)
        /\ Len(meant \o meanings) = Len(meant) + Len(meanings)
        /\ \A k \in 1 .. Len(meant) + Len(meanings) :
             (meant \o meanings)[k] = IF k <= Len(meant) THEN meant[k] ELSE meanings[k - Len(meant)]
    BY <1>1, ConcatProperties
  <2> QED BY <1>1, <2>1
<1>4. TextInv'
  BY <1>1, <1>2, <1>3 DEF TextInv
<1>5. StageInv'
  BY DEF TextsInv, StageInv
<1>6. KnownInv'
  <2>1. SUFFICES ASSUME NEW k \in 1 .. Len(inode) + Len(more), meant'[k].sure
                 PROVE  Known(inode'[k], meant'[k], k, task)
    BY <1>2 DEF KnownInv
  <2>2. CASE k <= Len(inode)
    <3>1. k \in 1 .. Len(inode) /\ inode'[k] = inode[k] /\ meant'[k] = meant[k]
      BY <1>1, <1>2, <1>3, <2>2
    <3> QED BY <2>1, <3>1 DEF TextsInv, KnownInv
  <2>3. CASE ~(k <= Len(inode))
    <3> DEFINE l == k - Len(inode)
    <3>1. l \in 1 .. Len(more) /\ inode'[k] = more[l] /\ meant'[k] = meanings[l]
      BY <1>1, <1>2, <1>3, <2>3
    <3> HIDE DEF l
    <3>2. more[l] \in Texts /\ meanings[l] = Certain(more[l])
      BY <2>1, <3>1, ElementOfSeq
    <3>3. NoWriters(k, task)
      BY <1>1, <2>3 DEF NoWriters
    <3> QED BY <3>1, <3>2, <3>3, KnownCertain
  <2> QED BY <2>2, <2>3
<1>7. ReaderInv'
  <2>1. SUFFICES ASSUME NEW t \in DOMAIN task PROVE Reader(task[t], inode', task)
    BY DEF ReaderInv
  <2>2. Reader(task[t], inode, task)
    BY DEF TextsInv, ReaderInv
  <2>3. inode'[task[t].inode] = inode[task[t].inode]
    BY <1>1, <1>2
  <2> QED BY <2>2, <2>3 DEF Reader
<1> QED BY <1>4, <1>5, <1>6, <1>7 DEF TextsInv

LEMMA CopyOneFileTexts ==
    ASSUME TextsInv, NamesInv, NEW from \in DOMAIN tree, IsFile(from), NEW to, NEW over,
           CopyOneFile(from, to, over)
    PROVE  TextsInv'
<1> DEFINE i == tree[from]
<1>0. TextInv
  BY DEF TextsInv
<1>1. i \in 1 .. Len(inode)
  BY <1>0, TaskTypes DEF NamesInv, TreeInv, IsFile, Dir
<1>2. CASE There(to)
  <2> DEFINE j == tree[to]
  <2>1. /\ IsFile(to) /\ j # i /\ inode' = [inode EXCEPT ![j] = inode[i]]
        /\ meant' = [meant EXCEPT ![j] = IF Writers(j) = {} THEN MeantBy(i) ELSE Unsure]
        /\ task' = Disturbed(j) /\ to \in DOMAIN tree
    BY <1>2 DEF CopyOneFile, There
  <2>2. j \in 1 .. Len(inode)
    BY <1>0, <2>1, TaskTypes DEF NamesInv, TreeInv, IsFile, Dir
  <2> HIDE DEF i, j
  <2> QED BY <1>1, <2>1, <2>2, OverwriteTexts
<1>3. CASE ~There(to)
  <2>1. inode' = Append(inode, inode[i]) /\ meant' = Append(meant, MeantBy(i)) /\ task' = task
    BY <1>3 DEF CopyOneFile
  <2> HIDE DEF i
  <2>2. inode[i] \in Texts /\ MeantBy(i) \in Meanings
    BY <1>0, <1>1, TaskTypes, MeantByIs
  <2> DEFINE more == <<inode[i]>>
             meanings == <<MeantBy(i)>>
  <2>3. more \in Seq(Texts) /\ meanings \in Seq(Meanings) /\ Len(more) = 1 /\ Len(meanings) = 1
    BY <2>2
  <2>4. inode' = inode \o more /\ meant' = meant \o meanings
    BY <1>0, <2>1, <2>2, AppendIsConcat DEF TextInv
  <2>5. \A k \in 1 .. Len(more) : meanings[k].sure => meanings[k] = Certain(more[k])
    BY <1>0, <1>1, MeantByIs
  <2> HIDE DEF more, meanings
  <2> QED BY <2>1, <2>3, <2>4, <2>5, NewTexts
<1> QED BY <1>2, <1>3

LEMMA CopyDirTexts ==
    ASSUME TextsInv, NamesInv, NEW from, NEW to, NEW over, CopyDir(from, to, over)
    PROVE  TextsInv'
<1>0. TextInv
  BY DEF TextsInv
<1>a. PICK done \in SUBSET {m \in Inside(from) : ~There(InDir(to, m))} : Copies(to, done)
  BY CopyDirIs
<1>1. /\ tree' = [n \in DOMAIN tree \cup {to} \cup {InDir(to, m) : m \in done} |->
                    IF CopiedTo(SetToSeq(done), to, n) # {}
                    THEN Len(inode) + CHOOSE k \in CopiedTo(SetToSeq(done), to, n) : TRUE
                    ELSE IF n = to THEN Dir ELSE tree[n]]
      /\ inode' = inode \o
            [k \in DOMAIN SetToSeq(done) |-> inode[tree[SetToSeq(done)[k]]]]
      /\ meant' = meant \o
            [k \in DOMAIN SetToSeq(done) |-> MeantBy(tree[SetToSeq(done)[k]])]
  BY <1>a DEF Copies
<1>2. task' = task
  BY CopyDirIs
<1> DEFINE list == SetToSeq(done)
           more == [k \in DOMAIN list |-> inode[tree[list[k]]]]
           meanings == [k \in DOMAIN list |-> MeantBy(tree[list[k]])]
<1>3. IsFiniteSet(done)
  <2>1. done \subseteq DOMAIN tree
    BY DEF Inside, Children, Below
  <2> QED BY <2>1, FS_Subset DEF NamesInv, TreeInv
<1>4. /\ Len(list) \in Nat /\ DOMAIN list = 1 .. Len(list)
      /\ \A k \in DOMAIN list : list[k] \in done
  BY <1>3, ListIs
<1>5. inode' = inode \o more /\ meant' = meant \o meanings
  BY <1>1
<1> HIDE DEF list
<1>6. \A k \in 1 .. Len(list) : tree[list[k]] \in 1 .. Len(inode)
  <2>1. TAKE k \in 1 .. Len(list)
  <2>2. list[k] \in DOMAIN tree /\ tree[list[k]] # Dir
    BY <1>4 DEF Inside, Children, Below, IsFile
  <2> QED BY <1>0, <2>2, TaskTypes DEF NamesInv, TreeInv, Dir
<1>7. more \in Seq(Texts) /\ Len(more) = Len(list)
  <2>1. more \in [1 .. Len(list) -> Texts]
    BY <1>0, <1>4, <1>6, TaskTypes
  <2> HIDE DEF more
  <2> QED BY <1>4, <2>1, SeqDef, LenProperties
<1>8. meanings \in Seq(Meanings) /\ Len(meanings) = Len(list)
  <2>1. meanings \in [1 .. Len(list) -> Meanings]
    BY <1>0, <1>4, <1>6, MeantByIs
  <2> HIDE DEF meanings
  <2> QED BY <1>4, <2>1, SeqDef, LenProperties
<1>9. \A k \in 1 .. Len(more) : meanings[k].sure => meanings[k] = Certain(more[k])
  BY <1>0, <1>4, <1>6, <1>7, MeantByIs
<1> HIDE DEF more, meanings
<1> QED BY <1>2, <1>5, <1>7, <1>8, <1>9, NewTexts

-----------------------------------------------------------------------------
(* Whoever begins to write has written nothing yet: alone, or among others that append.       *)
Beginner(new, i) ==
    /\ new \in Tasks /\ new.kind = "write" /\ new.inode = i /\ new.at = "going" /\ new.pos = 0
    /\ ~new.kept

LEMMA BeginnerWrote ==
    ASSUME NEW new, NEW i, Beginner(new, i) PROVE Written(new) = 0 /\ Stage(new)
BY DEF Beginner, Written, Stage, Tasks

LEMMA KnownAlone ==
    ASSUME NEW text \in Texts, NEW i, NEW tasks, NEW later, NEW T, NoWriters(i, tasks),
           NEW new, Beginner(new, i), new.append \/ text = <<>>,
           DOMAIN later = DOMAIN tasks \cup {T}, T \notin DOMAIN tasks, later[T] = new,
           \A t \in DOMAIN tasks : Alike(tasks[t], later[t])
    PROVE  Known(text, [Certain(text) EXCEPT !.adds = {T}], i, later)
<1> DEFINE m == [Certain(text) EXCEPT !.adds = {T}]
<1>1. m.base = text /\ m.adds = {T}
  BY DEF Certain
<1>2. Len(text) \in Nat
  BY LenProperties DEF Texts
<1>3. IsPrefix(text, text)
  BY PrefixIs, <1>2 DEF Texts
<1>4. ~ \E k : k \in Len(text) + 1 .. Len(text)
  BY <1>2
<1> HIDE DEF m
<1>5. Written(later[T]) = 0 /\ ~ \E j : j \in 1 .. 0
  BY BeginnerWrote
<1>6. \A t \in DOMAIN later :
        later[t].kind = "write" /\ later[t].inode = i /\ later[t].at # "done" => t \in m.adds
  BY <1>1 DEF NoWriters, Alike
<1>7. \A t \in m.adds : t \in DOMAIN later /\ later[t].kind = "write" /\ later[t].inode = i
  BY <1>1 DEF Beginner
<1>8. \A t \in m.adds : ~later[t].append =>
        m.adds = {t} /\ m.base = <<>> /\ Len(text) = Written(later[t])
  BY <1>1, <1>5
<1>9. \A t \in m.adds : \A j \in 1 .. Written(later[t]) :
        \E k \in Len(m.base) + 1 .. Len(text) : text[k] = Piece(t, j)
  BY <1>1, <1>5
<1> HIDE DEF Written
<1>10. Known(text, m, i, later)
  BY ONLY <1>1, <1>3, <1>4, <1>6, <1>7, <1>8, <1>9 DEF Known
<1> QED BY <1>10 DEF m

(* One more appends, and all who still write append.                                          *)
LEMMA KnownAmong ==
    ASSUME NEW text \in Texts, NEW n \in Meanings, NEW i, NEW tasks, NEW later, NEW T,
           Known(text, n, i, tasks), ~NoWriters(i, tasks),
           \A t \in DOMAIN tasks :
             tasks[t].kind = "write" /\ tasks[t].inode = i /\ tasks[t].at # "done"
               => tasks[t].append,
           NEW new, Beginner(new, i), new.append,
           DOMAIN later = DOMAIN tasks \cup {T}, T \notin DOMAIN tasks, later[T] = new,
           \A t \in DOMAIN tasks : Alike(tasks[t], later[t])
    PROVE  Known(text, [n EXCEPT !.adds = @ \cup {T}], i, later)
<1> DEFINE m == [n EXCEPT !.adds = @ \cup {T}]
           added == Len(n.base) + 1 .. Len(text)
<1>1. m.base = n.base /\ m.adds = n.adds \cup {T}
  BY DEF Meanings
<1> HIDE DEF m
<1>2. Written(later[T]) = 0 /\ ~ \E j : j \in 1 .. 0
  BY BeginnerWrote
<1>3. \A t \in n.adds :
        /\ t \in DOMAIN tasks /\ tasks[t].kind = "write" /\ tasks[t].inode = i
        /\ later[t].kind = "write" /\ later[t].inode = i /\ t # T
        /\ later[t].append = tasks[t].append /\ Written(later[t]) = Written(tasks[t])
  <2>1. \A t \in n.adds : t \in DOMAIN tasks /\ tasks[t].kind = "write" /\ tasks[t].inode = i
    BY DEF Known
  <2>2. \A t \in DOMAIN tasks :
          /\ later[t].kind = tasks[t].kind /\ later[t].inode = tasks[t].inode
          /\ later[t].append = tasks[t].append /\ Written(later[t]) = Written(tasks[t])
    BY DEF Alike, Written
  <2> QED BY <2>1, <2>2
<1>4. \A t \in n.adds : tasks[t].append
  <2>1. SUFFICES ASSUME NEW t \in n.adds, ~tasks[t].append PROVE FALSE
    OBVIOUS
  <2>2. n.adds = {t}
    BY <2>1 DEF Known
  <2>3. PICK u \in DOMAIN tasks :
          tasks[u].kind = "write" /\ tasks[u].inode = i /\ tasks[u].at # "done"
    BY DEF NoWriters
  <2>4. u \in n.adds /\ tasks[u].append
    BY <2>3 DEF Known
  <2> QED BY <2>1, <2>2, <2>4
<1>5. \A t \in DOMAIN later :
        later[t].kind = "write" /\ later[t].inode = i /\ later[t].at # "done" => t \in m.adds
  BY <1>1 DEF Known, Alike
<1>6. \A t \in m.adds : t \in DOMAIN later /\ later[t].kind = "write" /\ later[t].inode = i
  BY <1>1, <1>3 DEF Beginner
<1>7. \A t \in m.adds : later[t].append
  BY <1>1, <1>3, <1>4
<1>8. \A k \in added : text[k].by \in n.adds /\ text[k].k \in 1 .. Written(tasks[text[k].by])
  BY DEF Known
<1>9. \A t \in n.adds : \A j \in 1 .. Written(tasks[t]) : \E k \in added : text[k] = Piece(t, j)
  BY DEF Known
<1>10. \A k, l \in added : k < l /\ text[k].by = text[l].by => text[k].k < text[l].k
  BY DEF Known
<1>11. IsPrefix(n.base, text)
  BY DEF Known
<1> HIDE DEF added
<1>12. \A k \in added : text[k].by \in m.adds /\ text[k].k \in 1 .. Written(later[text[k].by])
  BY <1>1, <1>3, <1>8
<1>13. \A t \in m.adds : \A j \in 1 .. Written(later[t]) : \E k \in added : text[k] = Piece(t, j)
  BY <1>1, <1>2, <1>3, <1>9
<1>14. added = Len(m.base) + 1 .. Len(text)
  BY <1>1 DEF added
<1>15. Known(text, m, i, later)
  BY ONLY <1>1, <1>5, <1>6, <1>7, <1>10, <1>11, <1>12, <1>13, <1>14 DEF Known
<1> QED BY <1>15 DEF m

(* A writer begins: what is in files, and what it should be, is as these hypotheses have it.  *)
LEMMA StartTexts ==
    ASSUME TextsInv, NEW i \in 1 .. Len(inode) + 1, NEW new, Beginner(new, i),
           task' = Append(Disturbed(i), new),
           inode' \in Seq(Texts), meant' \in Seq(Meanings), Len(meant') = Len(inode'),
           i \in 1 .. Len(inode'), Len(inode') = Len(inode) \/ (Len(inode') = i /\ i > Len(inode)),
           \A k \in 1 .. Len(inode) : k # i => inode'[k] = inode[k] /\ meant'[k] = meant[k],
           meant'[i].sure =>
             \/ /\ NoWriters(i, task) /\ (new.append \/ inode'[i] = <<>>)
                /\ meant'[i] = [Certain(inode'[i]) EXCEPT !.adds = {Len(task) + 1}]
             \/ /\ i \in 1 .. Len(inode) /\ meant[i].sure /\ new.append /\ inode'[i] = inode[i]
                /\ ~NoWriters(i, task)
                /\ \A t \in DOMAIN task :
                     task[t].kind = "write" /\ task[t].inode = i /\ task[t].at # "done"
                       => task[t].append
                /\ meant'[i] = [meant[i] EXCEPT !.adds = @ \cup {Len(task) + 1}]
    PROVE  TextsInv'
<1>1. TextInv /\ i \in Nat /\ new \in Tasks /\ new.kind = "write" /\ new.inode = i
  BY DEF TextsInv, Beginner
<1>2. /\ Len(inode) \in Nat /\ Len(task) \in Nat /\ DOMAIN task = 1 .. Len(task)
      /\ \A t \in DOMAIN task : task[t].inode \in 1 .. Len(inode)
      /\ \A k \in 1 .. Len(inode) : inode[k] \in Texts /\ meant[k] \in Meanings
  BY <1>1, TaskTypes
<1>3. /\ task' \in Seq(Tasks) /\ DOMAIN task' = 1 .. Len(task) + 1
      /\ \A t \in DOMAIN task :
           /\ Alike(task[t], task'[t])
           /\ task[t].kind = "read" /\ task[t].inode = i /\ Going(t) => ~task'[t].sure
      /\ task'[Len(task) + 1] = new
  BY <1>1, NewTask
<1>4. DOMAIN task' = DOMAIN task \cup {Len(task) + 1} /\ Len(task) + 1 \notin DOMAIN task
  BY <1>2, <1>3
<1>5. inode'[i] \in Texts
  BY ElementOfSeq
<1>6. Len(inode') \in Nat /\ Len(inode') >= Len(inode)
  BY <1>2, LenProperties
<1>7. TextInv'
  <2>1. SUFFICES ASSUME NEW t \in DOMAIN task' PROVE task'[t].inode \in 1 .. Len(inode')
    BY <1>3 DEF TextInv
  <2>2. CASE t = Len(task) + 1
    BY <1>1, <1>3, <2>2
  <2>3. CASE t \in DOMAIN task
    BY <1>2, <1>3, <1>6, <2>3 DEF Alike
  <2> QED BY <1>4, <2>2, <2>3
<1>8. StageInv'
  <2>1. SUFFICES ASSUME NEW t \in DOMAIN task' PROVE Stage(task'[t])
    BY DEF StageInv
  <2>2. CASE t = Len(task) + 1
    <3>1. Stage(new)
      BY BeginnerWrote
    <3>2. task'[t] = new
      BY <1>3, <2>2
    <3> QED BY ONLY <3>1, <3>2
  <2>3. CASE t \in DOMAIN task
    <3>1. Stage(task[t]) /\ Alike(task[t], task'[t])
      BY <1>3, <2>3 DEF TextsInv, StageInv
    <3> QED BY ONLY <3>1 DEF Stage, Alike
  <2> QED BY <1>4, <2>2, <2>3
<1>9. \A k : k # i => SameWriting(k, task, task')
  <2>1. TAKE k
  <2>2. HAVE k # i
  <2>3. \A t \in DOMAIN task :
         /\ task'[t].kind = task[t].kind /\ task'[t].inode = task[t].inode
         /\ task'[t].append = task[t].append /\ task'[t].size = task[t].size
         /\ Written(task'[t]) = Written(task[t])
         /\ task'[t].at # "done" => task[t].at # "done"
    BY <1>3 DEF Alike, Written
  <2>4. \A t \in DOMAIN task' \ DOMAIN task : task'[t].inode # k
    BY <1>1, <1>3, <1>4, <2>2
  <2>5. DOMAIN task \subseteq DOMAIN task'
    BY <1>4
  <2> QED BY ONLY <2>3, <2>4, <2>5 DEF SameWriting
<1>10. KnownInv'
  <2>1. SUFFICES ASSUME NEW k \in 1 .. Len(inode'), meant'[k].sure
                 PROVE  Known(inode'[k], meant'[k], k, task')
    BY DEF KnownInv
  <2>2. CASE k # i
    <3>1. k \in 1 .. Len(inode)
      BY <1>2, <2>2
    <3>2. inode'[k] = inode[k] /\ meant'[k] = meant[k]
      BY <2>2, <3>1
    <3>3. Known(inode[k], meant[k], k, task)
      BY <2>1, <3>1, <3>2 DEF TextsInv, KnownInv
    <3> QED BY <1>9, <2>2, <3>2, <3>3, KnownSame
  <2>3. CASE /\ k = i /\ NoWriters(i, task) /\ (new.append \/ inode'[i] = <<>>)
             /\ meant'[i] = [Certain(inode'[i]) EXCEPT !.adds = {Len(task) + 1}]
    <3> DEFINE text == inode'[i]
               T == Len(task) + 1
               tasks == task
               later == task'
    <3>1. /\ text \in Texts /\ NoWriters(i, tasks) /\ (new.append \/ text = <<>>)
          /\ DOMAIN later = DOMAIN tasks \cup {T} /\ T \notin DOMAIN tasks /\ later[T] = new
          /\ \A t \in DOMAIN tasks : Alike(tasks[t], later[t])
      BY <1>3, <1>4, <1>5, <2>3
    <3>2. meant'[i] = [Certain(text) EXCEPT !.adds = {T}]
      BY <2>3
    <3> HIDE DEF text, T, tasks, later
    <3>3. Known(text, [Certain(text) EXCEPT !.adds = {T}], i, later)
      BY <3>1, KnownAlone
    <3> QED BY <2>3, <3>2, <3>3 DEF text, later
  <2>4. CASE /\ k = i /\ i \in 1 .. Len(inode) /\ meant[i].sure /\ new.append
             /\ inode'[i] = inode[i] /\ ~NoWriters(i, task)
             /\ \A t \in DOMAIN task :
                  task[t].kind = "write" /\ task[t].inode = i /\ task[t].at # "done"
                    => task[t].append
             /\ meant'[i] = [meant[i] EXCEPT !.adds = @ \cup {Len(task) + 1}]
    <3> DEFINE text == inode[i]
               n == meant[i]
               T == Len(task) + 1
               tasks == task
               later == task'
    <3>1. /\ text \in Texts /\ n \in Meanings /\ ~NoWriters(i, tasks) /\ new.append
          /\ DOMAIN later = DOMAIN tasks \cup {T} /\ T \notin DOMAIN tasks /\ later[T] = new
          /\ \A t \in DOMAIN tasks : Alike(tasks[t], later[t])
          /\ \A t \in DOMAIN tasks :
               tasks[t].kind = "write" /\ tasks[t].inode = i /\ tasks[t].at # "done"
                 => tasks[t].append
      BY <1>2, <1>3, <1>4, <2>4
    <3>2. Known(text, n, i, tasks)
      BY <2>4 DEF TextsInv, KnownInv
    <3>3. meant'[i] = [n EXCEPT !.adds = @ \cup {T}] /\ inode'[i] = text
      BY <2>4
    <3> HIDE DEF text, n, T, tasks, later
    <3>4. Known(text, [n EXCEPT !.adds = @ \cup {T}], i, later)
      BY <3>1, <3>2, KnownAmong
    <3> QED BY <2>4, <3>3, <3>4 DEF later
  <2> QED BY <2>1, <2>2, <2>3, <2>4
<1>11. ReaderInv'
  <2>1. SUFFICES ASSUME NEW t \in DOMAIN task', task'[t].kind = "read", task'[t].sure
                 PROVE  Reader(task'[t], inode', task')
    BY DEF ReaderInv, Reader
  <2>2. t \in DOMAIN task
    BY <1>1, <1>3, <1>4, <2>1
  <2>3. Reader(task[t], inode, task) /\ Alike(task[t], task'[t])
    BY <1>3, <2>2 DEF TextsInv, ReaderInv
  <2>4. task'[t].at # "done" =>
          inode'[task'[t].inode] = inode[task'[t].inode] /\ NoWriters(task'[t].inode, task')
    <3>1. SUFFICES ASSUME task'[t].at # "done"
                   PROVE  inode'[task'[t].inode] = inode[task'[t].inode]
                            /\ NoWriters(task'[t].inode, task')
      OBVIOUS
    <3>2. /\ task[t].kind = "read" /\ task[t].sure /\ Going(t) /\ task'[t].inode = task[t].inode
          /\ task[t].inode # i /\ task[t].inode \in 1 .. Len(inode)
      BY <1>2, <1>3, <2>1, <2>2, <2>3, <3>1 DEF Alike, Going
    <3>3. NoWriters(task[t].inode, task)
      BY <2>3, <3>2 DEF Reader, NoWriters, Going
    <3>4. NoWriters(task[t].inode, task')
      <4>1. SameWriting(task[t].inode, task, task')
        BY <1>9, <3>2
      <4> DEFINE k == task[t].inode
                 tasks == task
                 later == task'
      <4>2. SameWriting(k, tasks, later) /\ NoWriters(k, tasks)
        BY <3>3, <4>1
      <4> HIDE DEF k, tasks, later
      <4>3. NoWriters(k, later)
        BY <4>2 DEF SameWriting, NoWriters
      <4> QED BY <4>3 DEF k, later
    <3> QED BY <3>2, <3>4
  <2> DEFINE r == task[t]
             s == task'[t]
             texts == inode
             others == inode'
             tasks == task
             later == task'
  <2>5. Alike(r, s) /\ Reader(r, texts, tasks)
    BY <2>3
  <2>6. s.kind = "read" /\ s.sure /\ s.at # "done" =>
          others[s.inode] = texts[s.inode] /\ NoWriters(s.inode, later)
    BY <2>4
  <2> HIDE DEF r, s, texts, others, tasks, later
  <2>7. Reader(s, others, later)
    BY <2>5, <2>6, ReaderSame
  <2> QED BY <2>7 DEF s, others, later
<1> QED BY <1>7, <1>8, <1>10, <1>11 DEF TextsInv

LEMMA StartWriteTexts ==
    ASSUME MountInv, TextsInv, NamesInv, NEW p \in Having, NEW size \in Sizes,
           NEW append \in BOOLEAN, StartWrite(p, size, append)
    PROVE  TextsInv'
<1>0. TextInv
  BY DEF TextsInv
<1>1. PICK n \in Seq(FileNames), i \in 1 .. Len(inode) + 1 : StartsOn(n, i, size, append)
  BY <1>0, StartWriteIs
<1> DEFINE new == Begun("write", i, size, append, TRUE, <<>>)
           T == Len(task) + 1
<1>2. task' = Append(Disturbed(i), new) /\ Beginner(new, i) /\ new.append = append
  BY <1>1 DEF StartsOn, Begun, Beginner
<1>3. \/ /\ i = Len(inode) + 1 /\ inode' = Append(inode, <<>>)
         /\ meant' = Append(meant, [Certain(<<>>) EXCEPT !.adds = {T}])
      \/ /\ i \in 1 .. Len(inode) /\ inode' = IF append THEN inode ELSE [inode EXCEPT ![i] = <<>>]
         /\ meant' = [meant EXCEPT ![i] = MeantNow(i, T, append)]
  BY <1>1 DEF StartsOn
<1>4. /\ Len(inode) \in Nat /\ Len(task) \in Nat /\ Len(meant) = Len(inode)
      /\ inode \in Seq(Texts) /\ meant \in Seq(Meanings) /\ <<>> \in Texts
      /\ \A t \in DOMAIN task : task[t].inode \in 1 .. Len(inode)
      /\ \A k \in 1 .. Len(inode) : inode[k] \in Texts /\ meant[k] \in Meanings
  BY <1>0, TaskTypes DEF TextInv, Texts
<1>5. T \in Nat
  BY <1>4
<1> HIDE DEF new, T
<1>6. \A text \in Texts : [Certain(text) EXCEPT !.adds = {T}] \in Meanings
  BY <1>5 DEF Certain, Meanings
<1>7. CASE /\ i = Len(inode) + 1 /\ inode' = Append(inode, <<>>)
           /\ meant' = Append(meant, [Certain(<<>>) EXCEPT !.adds = {T}])
  <2> DEFINE m == [Certain(<<>>) EXCEPT !.adds = {T}]
  <2>1. m \in Meanings
    BY <1>4, <1>6
  <2>2. meant' = Append(meant, m)
    BY <1>7
  <2> HIDE DEF m
  <2>3. /\ inode' \in Seq(Texts) /\ Len(inode') = Len(inode) + 1 /\ inode'[i] = <<>>
        /\ \A k \in 1 .. Len(inode) : inode'[k] = inode[k]
    BY <1>4, <1>7, AppendProperties
  <2>4. /\ meant' \in Seq(Meanings) /\ Len(meant') = Len(inode) + 1 /\ meant'[i] = m
        /\ \A k \in 1 .. Len(inode) : meant'[k] = meant[k]
    <3>1. /\ Append(meant, m) \in Seq(Meanings) /\ Len(Append(meant, m)) = Len(meant) + 1
          /\ \A k \in 1 .. Len(meant) : Append(meant, m)[k] = meant[k]
          /\ Append(meant, m)[Len(meant) + 1] = m
      BY <1>4, <2>1, AppendProperties
    <3> QED BY <1>4, <1>7, <2>2, <3>1
  <2>5. NoWriters(i, task)
    BY <1>4, <1>7 DEF NoWriters
  <2>6. meant'[i] = [Certain(inode'[i]) EXCEPT !.adds = {Len(task) + 1}]
    BY <2>3, <2>4 DEF m, T
  <2>7. /\ Len(meant') = Len(inode') /\ i \in 1 .. Len(inode')
        /\ Len(inode') = i /\ i > Len(inode)
    BY <1>4, <1>7, <2>3, <2>4
  <2> QED BY <1>2, <2>3, <2>4, <2>5, <2>6, <2>7, StartTexts
<1>8. CASE /\ i \in 1 .. Len(inode) /\ inode' = IF append THEN inode ELSE [inode EXCEPT ![i] = <<>>]
           /\ meant' = [meant EXCEPT ![i] = MeantNow(i, T, append)]
  <2> DEFINE m == MeantNow(i, T, append)
             text == IF append THEN inode[i] ELSE <<>>
  <2>1. m \in Meanings /\ text \in Texts
    <3>1. Unsure \in Meanings
      BY <1>4 DEF Unsure, Meanings
    <3>2. [meant[i] EXCEPT !.adds = @ \cup {T}] \in Meanings
      BY <1>4, <1>5, <1>8 DEF Meanings
    <3> QED BY <1>4, <1>6, <1>8, <3>1, <3>2 DEF MeantNow
  <2>2. m.sure =>
          \/ /\ NoWriters(i, task) /\ (append \/ text = <<>>)
             /\ m = [Certain(text) EXCEPT !.adds = {T}]
          \/ /\ meant[i].sure /\ append /\ text = inode[i]
             /\ ~NoWriters(i, task)
             /\ \A t \in DOMAIN task :
                  task[t].kind = "write" /\ task[t].inode = i /\ task[t].at # "done"
                    => task[t].append
             /\ m = [meant[i] EXCEPT !.adds = @ \cup {T}]
    <3>1. ~Unsure.sure
      BY DEF Unsure
    <3>2. CASE Writers(i) = {}
      BY <3>1, <3>2, WritersAre DEF MeantNow
    <3>3. CASE Writers(i) # {} /\ ~append
      BY <3>1, <3>3 DEF MeantNow
    <3>4. CASE Writers(i) # {} /\ append
      <4>1. (\A u \in Writers(i) : task[u].append) =>
              \A t \in DOMAIN task :
                  task[t].kind = "write" /\ task[t].inode = i /\ task[t].at # "done"
                    => task[t].append
        BY DEF Writers, Going
      <4>2. ~NoWriters(i, task)
        BY <3>4, WritersAre
      <4> QED BY <3>1, <3>4, <4>1, <4>2 DEF MeantNow
    <3> QED BY <3>2, <3>3, <3>4
  <2>3. meant' = [meant EXCEPT ![i] = m]
    BY <1>8
  <2>4. inode' \in Seq(Texts) /\ Len(inode') = Len(inode)
        /\ \A k \in 1 .. Len(inode) : inode'[k] = IF k = i THEN text ELSE inode[k]
    <3>1. CASE append
      BY <1>4, <1>8, <3>1
    <3>2. CASE ~append
      BY <1>4, <1>8, <3>2, ExceptSeq
    <3> QED BY <3>1, <3>2
  <2> HIDE DEF m, text
  <2>5. meant' \in Seq(Meanings) /\ Len(meant') = Len(meant)
        /\ \A k \in 1 .. Len(inode) : meant'[k] = IF k = i THEN m ELSE meant[k]
    BY <1>4, <1>8, <2>1, <2>3, ExceptSeq
  <2>6. meant'[i] = m /\ inode'[i] = text
    BY <1>8, <2>4, <2>5
  <2>7. /\ Len(meant') = Len(inode') /\ i \in 1 .. Len(inode')
        /\ \A k \in 1 .. Len(inode) : k # i => inode'[k] = inode[k] /\ meant'[k] = meant[k]
    BY <1>4, <1>8, <2>4, <2>5
  <2>8. meant'[i].sure =>
             \/ /\ NoWriters(i, task) /\ (new.append \/ inode'[i] = <<>>)
                /\ meant'[i] = [Certain(inode'[i]) EXCEPT !.adds = {Len(task) + 1}]
             \/ /\ i \in 1 .. Len(inode) /\ meant[i].sure /\ new.append /\ inode'[i] = inode[i]
                /\ ~NoWriters(i, task)
                /\ \A t \in DOMAIN task :
                     task[t].kind = "write" /\ task[t].inode = i /\ task[t].at # "done"
                       => task[t].append
                /\ meant'[i] = [meant[i] EXCEPT !.adds = @ \cup {Len(task) + 1}]
    BY <1>2, <1>8, <2>2, <2>6 DEF T
  <2> QED BY <1>2, <2>4, <2>5, <2>7, <2>8, StartTexts
<1> QED BY <1>3, <1>7, <1>8

-----------------------------------------------------------------------------
(* A piece is put at the end of a text: by who appends, and by who wrote all there is.        *)
LEMMA WithIs ==
    ASSUME NEW text \in Texts, NEW pos, NEW append, NEW piece \in Pieces,
           append \/ pos = Len(text) + 1
    PROVE  With(text, pos, append, piece) = Append(text, piece)
<1>1. CASE append
  BY <1>1 DEF With
<1>2. CASE ~append /\ pos = Len(text) + 1
  <2> DEFINE put == [k \in 1 .. Len(text) + 1 |-> IF k = Len(text) + 1 THEN piece ELSE text[k]]
  <2>1. Len(text) \in Nat /\ \A k \in 1 .. Len(text) : text[k] \in Pieces
    BY LenProperties, ElementOfSeq DEF Texts
  <2>2. With(text, pos, append, piece) =
          [k \in 1 .. Len(text) + 1 |->
             IF k = Len(text) + 1 THEN piece ELSE IF k <= Len(text) THEN text[k] ELSE Hole]
    BY <1>2, <2>1 DEF With
  <2>3. With(text, pos, append, piece) = put
    <3>1. \A k \in 1 .. Len(text) + 1 : k # Len(text) + 1 => k <= Len(text)
      BY <2>1
    <3> QED BY <2>2, <3>1
  <2>4. put \in [1 .. Len(text) + 1 -> Pieces]
    <3>1. \A k \in 1 .. Len(text) + 1 :
            (IF k = Len(text) + 1 THEN piece ELSE text[k]) \in Pieces
      BY <2>1
    <3> QED BY <3>1
  <2>5. /\ put[Len(text) + 1] = piece /\ \A k \in 1 .. Len(text) : put[k] = text[k]
    BY <2>1
  <2> HIDE DEF put
  <2>6. put \in Seq(Pieces) /\ Len(put) = Len(text) + 1
    BY <2>1, <2>4, SeqDef, LenProperties
  <2>7. /\ Append(text, piece) \in Seq(Pieces) /\ Len(Append(text, piece)) = Len(text) + 1
        /\ \A k \in 1 .. Len(text) : Append(text, piece)[k] = text[k]
        /\ Append(text, piece)[Len(text) + 1] = piece
    BY AppendProperties DEF Texts
  <2>8. \A k \in 1 .. Len(put) : put[k] = Append(text, piece)[k]
    BY <2>1, <2>5, <2>6, <2>7
  <2>9. put = Append(text, piece)
    BY <2>6, <2>7, <2>8, SeqEqual
  <2> QED BY <2>3, <2>9
<1> QED BY <1>1, <1>2

LEMMA WithTyped ==
    ASSUME NEW text \in Texts, NEW pos \in Nat, NEW append, NEW piece \in Pieces
    PROVE  With(text, pos, append, piece) \in Texts
<1>1. CASE append
  BY <1>1, AppendProperties DEF With, Texts
<1>2. CASE ~append
  <2> DEFINE L == IF pos > Len(text) THEN pos ELSE Len(text)
             put == [k \in 1 .. L |->
                       IF k = pos THEN piece ELSE IF k <= Len(text) THEN text[k] ELSE Hole]
  <2>1. Len(text) \in Nat /\ \A k \in 1 .. Len(text) : text[k] \in Pieces
    BY LenProperties, ElementOfSeq DEF Texts
  <2>2. L \in Nat /\ Hole \in Pieces
    BY <2>1 DEF Hole, Piece, Pieces
  <2>3. With(text, pos, append, piece) = put
    BY <1>2 DEF With
  <2> HIDE DEF L
  <2>4. put \in [1 .. L -> Pieces]
    BY <2>1, <2>2
  <2> HIDE DEF put
  <2>5. put \in Seq(Pieces)
    BY <2>2, <2>4, SeqDef
  <2> QED BY <2>3, <2>5 DEF Texts
<1> QED BY <1>1, <1>2

(* Whoever adds the next of his pieces at the end leaves it known what is in the file.        *)
LEMMA KnownAppended ==
    ASSUME NEW text \in Texts, NEW m \in Meanings, NEW i, NEW tasks, NEW later, NEW t \in Nat,
           Known(text, m, i, tasks), t \in m.adds, NEW n \in Nat, Written(tasks[t]) = n,
           Written(later[t]) = n + 1, DOMAIN later = DOMAIN tasks,
           \A u \in DOMAIN tasks :
             /\ later[u].kind = tasks[u].kind /\ later[u].inode = tasks[u].inode
             /\ later[u].append = tasks[u].append
             /\ u # t => Written(later[u]) = Written(tasks[u])
             /\ later[u].at # "done" => tasks[u].at # "done"
    PROVE  Known(Append(text, Piece(t, n + 1)), m, i, later)
<1> DEFINE piece == Piece(t, n + 1)
           more == Append(text, piece)
           L == Len(text)
           B == Len(m.base)
<1>1. piece \in Pieces /\ piece.by = t /\ piece.k = n + 1
  BY DEF Piece, Pieces
<1> HIDE DEF piece
<1>2. /\ more \in Texts /\ Len(more) = L + 1 /\ L \in Nat /\ more[L + 1] = piece
      /\ \A k \in 1 .. L : more[k] = text[k]
  BY <1>1, AppendProperties, LenProperties DEF Texts
<1>3. IsPrefix(m.base, more) /\ B \in Nat /\ B <= L
  <2>1. m.base \in Seq(Pieces) /\ text \in Seq(Pieces) /\ more \in Seq(Pieces)
    BY <1>2 DEF Meanings, Texts
  <2>2. IsPrefix(m.base, text)
    BY DEF Known
  <2>3. IsPrefix(text, more)
    BY <1>1, <2>1, PrefixOfAppend
  <2> HIDE DEF more
  <2>4. IsPrefix(m.base, more)
    BY <2>1, <2>2, <2>3, PrefixTransitive
  <2> QED BY <2>1, <2>2, <2>4, PrefixIs, LenProperties
<1>4. \A u \in m.adds :
        /\ u \in DOMAIN tasks /\ tasks[u].kind = "write" /\ tasks[u].inode = i
        /\ later[u].append = tasks[u].append /\ u # t => Written(later[u]) = Written(tasks[u])
  BY DEF Known
<1>5. \A k \in B + 1 .. L : text[k].by \in m.adds /\ text[k].k \in 1 .. Written(tasks[text[k].by])
  BY DEF Known
<1>6. \A u \in m.adds : \A j \in 1 .. Written(tasks[u]) :
        \E k \in B + 1 .. L : text[k] = Piece(u, j)
  BY DEF Known
<1>7. \A k, l \in B + 1 .. L : k < l /\ text[k].by = text[l].by => text[k].k < text[l].k
  BY DEF Known
<1>8. \A u \in m.adds : ~tasks[u].append => m.adds = {u} /\ m.base = <<>> /\ L = Written(tasks[u])
  BY DEF Known
<1>9. \A u \in DOMAIN later :
        later[u].kind = "write" /\ later[u].inode = i /\ later[u].at # "done" => u \in m.adds
  BY DEF Known
<1>10. \A u \in m.adds : u \in DOMAIN later /\ later[u].kind = "write" /\ later[u].inode = i
  BY <1>4
<1> HIDE DEF more, L, B
<1>11. \A k \in B + 1 .. L + 1 :
         k = L + 1 \/ (k \in B + 1 .. L /\ k \in 1 .. L /\ more[k] = text[k])
  BY <1>2, <1>3
<1>12. \A k \in B + 1 .. L + 1 :
         more[k].by \in m.adds /\ more[k].k \in 1 .. Written(later[more[k].by])
  <2>1. TAKE k \in B + 1 .. L + 1
  <2>2. CASE k = L + 1
    BY <1>1, <1>2, <2>2
  <2>3. CASE k \in B + 1 .. L /\ more[k] = text[k]
    <3>1. text[k].by \in m.adds /\ text[k].k \in 1 .. Written(tasks[text[k].by])
      BY <1>5, <2>3
    <3>2. CASE text[k].by = t
      BY <2>3, <3>1, <3>2
    <3>3. CASE text[k].by # t
      BY <1>4, <2>3, <3>1, <3>3
    <3> QED BY <3>2, <3>3
  <2> QED BY <1>11, <2>2, <2>3
<1>13. \A u \in m.adds : \A j \in 1 .. Written(later[u]) :
         \E k \in B + 1 .. L + 1 : more[k] = Piece(u, j)
  <2>1. TAKE u \in m.adds
  <2>2. TAKE j \in 1 .. Written(later[u])
  <2>3. CASE u = t /\ j = n + 1
    <3>1. more[L + 1] = Piece(u, j)
      BY <1>2, <2>3 DEF piece
    <3>2. L + 1 \in B + 1 .. L + 1
      BY <1>2, <1>3
    <3> QED BY <3>1, <3>2
  <2>4. CASE ~(u = t /\ j = n + 1)
    <3>1. j \in 1 .. Written(tasks[u])
      BY <1>4, <2>2, <2>4
    <3>2. PICK k \in B + 1 .. L : text[k] = Piece(u, j)
      BY <1>6, <3>1
    <3>3. k \in B + 1 .. L + 1 /\ more[k] = text[k]
      BY <1>2, <1>3, <3>2
    <3> QED BY <3>2, <3>3
  <2> QED BY <2>3, <2>4
<1>14. \A k, l \in B + 1 .. L + 1 : k < l /\ more[k].by = more[l].by => more[k].k < more[l].k
  <2>1. SUFFICES ASSUME NEW k \in B + 1 .. L + 1, NEW l \in B + 1 .. L + 1,
                        k < l, more[k].by = more[l].by
                 PROVE  more[k].k < more[l].k
    OBVIOUS
  <2>2. k \in B + 1 .. L /\ more[k] = text[k]
    BY <1>2, <1>3, <1>11, <2>1
  <2>3. CASE l = L + 1
    <3>1. text[k].by = t /\ more[l].k = n + 1
      BY <1>1, <1>2, <2>1, <2>2, <2>3
    <3>2. text[k].k \in 1 .. n
      BY <1>5, <2>2, <3>1
    <3> QED BY <2>2, <3>1, <3>2
  <2>4. CASE l \in B + 1 .. L /\ more[l] = text[l]
    BY <1>7, <2>1, <2>2, <2>4
  <2> QED BY <1>11, <2>3, <2>4
<1>15. \A u \in m.adds :
         ~later[u].append => m.adds = {u} /\ m.base = <<>> /\ Len(more) = Written(later[u])
  BY <1>2, <1>4, <1>8
<1>16. Len(m.base) + 1 .. Len(more) = B + 1 .. L + 1
  BY <1>2 DEF B
<1>17. Known(more, m, i, later)
  BY ONLY <1>3, <1>9, <1>10, <1>12, <1>13, <1>14, <1>15, <1>16 DEF Known
<1> QED BY <1>17 DEF more, piece

-----------------------------------------------------------------------------
(* One task goes on. *)
GoesOn(t) ==
    /\ task' \in Seq(Tasks) /\ DOMAIN task' = DOMAIN task /\ meant' = meant
    /\ \A u \in DOMAIN task : u # t => task'[u] = task[u]
    /\ task'[t].kind = task[t].kind /\ task'[t].inode = task[t].inode
    /\ task'[t].append = task[t].append /\ task'[t].size = task[t].size
    /\ task'[t].at # "done" => task[t].at # "done"

LEMMA GoesOnNoOther ==
    ASSUME NEW t \in DOMAIN task, GoesOn(t) PROVE NoOther
BY DEF GoesOn, NoOther

LEMMA GoesOnSame ==
    ASSUME NEW t \in DOMAIN task, GoesOn(t), NEW i,
           task[t].kind = "write" /\ task[t].inode = i => Written(task'[t]) = Written(task[t])
    PROVE  SameWriting(i, task, task')
<1>1. \A u \in DOMAIN task :
        /\ task'[u].kind = task[u].kind /\ task'[u].inode = task[u].inode
        /\ task'[u].append = task[u].append /\ task'[u].size = task[u].size
        /\ task'[u].at # "done" => task[u].at # "done"
  BY DEF GoesOn
<1>2. \A u \in DOMAIN task :
        task[u].kind = "write" /\ task[u].inode = i => Written(task'[u]) = Written(task[u])
  <2>1. TAKE u \in DOMAIN task
  <2>2. CASE u = t
    BY <2>2
  <2>3. CASE u # t
    <3>1. task'[u] = task[u]
      BY <2>3 DEF GoesOn
    <3> QED BY <3>1
  <2> QED BY <2>2, <2>3
<1>3. DOMAIN task' = DOMAIN task
  BY DEF GoesOn
<1> QED BY ONLY <1>1, <1>2, <1>3 DEF SameWriting

LEMMA GoesOnReaders ==
    ASSUME TextsInv, NEW t \in DOMAIN task, GoesOn(t), NEW u \in DOMAIN task, u # t,
           \A i \in 1 .. Len(inode) :
             inode'[i] = inode[i] \/ (IsWriter(t) /\ i = task[t].inode)
    PROVE  Reader(task'[u], inode', task')
<1>1. task'[u] = task[u] /\ Reader(task[u], inode, task) /\ task[u].inode \in 1 .. Len(inode)
  BY DEF GoesOn, TextsInv, ReaderInv, TextInv
<1>2. SUFFICES ASSUME task[u].kind = "read", task[u].sure
               PROVE  Reader(task[u], inode', task')
  BY <1>1 DEF Reader
<1>3. CASE task[u].at # "done"
  <2>1. NoWriters(task[u].inode, task)
    BY <1>1, <1>2, <1>3 DEF Reader, NoWriters
  <2>2. inode'[task[u].inode] = inode[task[u].inode]
    BY <1>1, <2>1 DEF NoWriters, IsWriter, Going
  <2>3. NoWriters(task[u].inode, task')
    <3> DEFINE k == task[u].inode
               tasks == task
               later == task'
    <3>1. NoWriters(k, tasks) /\ DOMAIN later = DOMAIN tasks
          /\ \A v \in DOMAIN tasks : /\ later[v].kind = tasks[v].kind
                                     /\ later[v].inode = tasks[v].inode
                                     /\ later[v].at # "done" => tasks[v].at # "done"
      BY <2>1 DEF GoesOn
    <3> HIDE DEF k, tasks, later
    <3>2. NoWriters(k, later)
      BY <3>1 DEF NoWriters
    <3> QED BY <3>2 DEF k, later
  <2> QED BY <1>1, <1>2, <2>2, <2>3 DEF Reader, NoWriters
<1>4. CASE task[u].at = "done"
  BY <1>1, <1>2, <1>4 DEF Reader
<1> QED BY <1>3, <1>4

LEMMA GoesOnTyped ==
    ASSUME TextInv, NEW t \in DOMAIN task, GoesOn(t), inode' \in Seq(Texts),
           Len(inode') = Len(inode)
    PROVE  TextInv'
<1>1. \A u \in DOMAIN task' : task'[u].inode \in 1 .. Len(inode')
  BY DEF GoesOn, TextInv
<1> QED BY <1>1 DEF GoesOn, TextInv

LEMMA GoesOnStage ==
    ASSUME StageInv, NEW t \in DOMAIN task, GoesOn(t), Stage(task'[t])
    PROVE  StageInv'
<1>1. SUFFICES ASSUME NEW u \in DOMAIN task PROVE Stage(task'[u])
  BY DEF StageInv, GoesOn
<1>2. CASE u = t
  BY <1>2
<1>3. CASE u # t
  <2>1. task'[u] = task[u] /\ Stage(task[u])
    BY <1>3 DEF GoesOn, StageInv
  <2> QED BY <2>1
<1> QED BY <1>2, <1>3

(* A writer goes on: he writes his next piece, or keeps it and nothing changes.               *)
LEMMA WriterTexts ==
    ASSUME TextsInv, NEW t \in DOMAIN task, GoesOn(t), IsWriter(t), Stage(task'[t]),
           NEW n \in Nat, Written(task[t]) = n,
           \/ inode' = inode /\ Written(task'[t]) = n
           \/ /\ Written(task'[t]) = n + 1
              /\ inode' = [inode EXCEPT ![task[t].inode] =
                             With(@, n + 1, task[t].append, Piece(t, n + 1))]
    PROVE  TextsInv'
<1> DEFINE i == task[t].inode
<1>0. TextInv /\ StageInv
  BY DEF TextsInv
<1>1. /\ i \in 1 .. Len(inode) /\ inode \in Seq(Texts) /\ Len(inode) \in Nat /\ t \in Nat
      /\ \A k \in 1 .. Len(inode) : inode[k] \in Texts /\ meant[k] \in Meanings
      /\ DOMAIN inode = 1 .. Len(inode)
  BY <1>0, TaskTypes DEF TextInv
<1>2. StageInv'
  BY <1>0, GoesOnStage
<1>3. CASE inode' = inode /\ Written(task'[t]) = n
  <2>1. TextInv'
    BY <1>0, <1>1, <1>3, GoesOnTyped
  <2>2. KnownInv'
    <3>1. SUFFICES ASSUME NEW k \in 1 .. Len(inode), meant[k].sure
                   PROVE  Known(inode[k], meant[k], k, task')
      BY <1>3 DEF KnownInv, GoesOn
    <3>2. SameWriting(k, task, task')
      BY <1>3, GoesOnSame
    <3>3. Known(inode[k], meant[k], k, task)
      BY <3>1 DEF TextsInv, KnownInv
    <3> QED BY <3>2, <3>3, KnownSame
  <2>3. ReaderInv'
    <3>1. SUFFICES ASSUME NEW u \in DOMAIN task PROVE Reader(task'[u], inode', task')
      BY DEF ReaderInv, GoesOn
    <3>2. CASE u = t
      BY <3>2 DEF Reader, GoesOn, IsWriter
    <3>3. CASE u # t
      BY <1>3, <3>3, GoesOnReaders
    <3> QED BY <3>2, <3>3
  <2> QED BY <1>2, <2>1, <2>2, <2>3 DEF TextsInv
<1>4. CASE /\ Written(task'[t]) = n + 1
           /\ inode' = [inode EXCEPT ![task[t].inode] =
                          With(@, n + 1, task[t].append, Piece(t, n + 1))]
  <2> DEFINE text == With(inode[i], n + 1, task[t].append, Piece(t, n + 1))
  <2>1. inode' = [inode EXCEPT ![i] = text]
    BY <1>4
  <2>2. text \in Texts
    <3>1. Piece(t, n + 1) \in Pieces
      BY <1>1 DEF Piece, Pieces
    <3> QED BY <1>1, <3>1, WithTyped
  <2> HIDE DEF text
  <2>3. /\ inode' \in Seq(Texts) /\ Len(inode') = Len(inode)
        /\ \A k \in 1 .. Len(inode) : inode'[k] = IF k = i THEN text ELSE inode[k]
    BY <1>1, <2>1, <2>2, ExceptSeq
  <2>4. TextInv'
    BY <1>0, <2>3, GoesOnTyped
  <2>5. KnownInv'
    <3>1. SUFFICES ASSUME NEW k \in 1 .. Len(inode), meant[k].sure
                   PROVE  Known(inode'[k], meant[k], k, task')
      BY <2>3 DEF KnownInv, GoesOn
    <3>2. Known(inode[k], meant[k], k, task)
      BY <3>1 DEF TextsInv, KnownInv
    <3>3. CASE k # i
      <4>1. inode'[k] = inode[k]
        BY <2>3, <3>3
      <4>2. SameWriting(k, task, task')
        BY <3>3, GoesOnSame
      <4> QED BY <3>2, <4>1, <4>2, KnownSame
    <3>4. CASE k = i
      <4> DEFINE old == inode[i]
                 m == meant[i]
                 tasks == task
                 later == task'
      <4>1. old \in Texts /\ m \in Meanings /\ Known(old, m, i, tasks)
        BY <1>1, <3>2, <3>4
      <4>2. t \in m.adds
        BY <4>1 DEF IsWriter, Going, Known
      <4>3. /\ Written(tasks[t]) = n /\ Written(later[t]) = n + 1 /\ DOMAIN later = DOMAIN tasks
            /\ \A u \in DOMAIN tasks :
                 /\ later[u].kind = tasks[u].kind /\ later[u].inode = tasks[u].inode
                 /\ later[u].append = tasks[u].append
                 /\ u # t => Written(later[u]) = Written(tasks[u])
                 /\ later[u].at # "done" => tasks[u].at # "done"
        <5>1. /\ Written(tasks[t]) = n /\ Written(later[t]) = n + 1 /\ DOMAIN later = DOMAIN tasks
              /\ \A u \in DOMAIN tasks :
                   /\ later[u].kind = tasks[u].kind /\ later[u].inode = tasks[u].inode
                   /\ later[u].append = tasks[u].append
                   /\ u # t => later[u] = tasks[u]
                   /\ later[u].at # "done" => tasks[u].at # "done"
          BY <1>4 DEF GoesOn
        <5> HIDE DEF tasks, later
        <5> QED BY <5>1
      <4>4. tasks[t].append \/ Len(old) = n
        BY <4>1, <4>2, <4>3 DEF Known
      <4>5. text = Append(old, Piece(t, n + 1))
        <5>1. Piece(t, n + 1) \in Pieces
          BY <1>1 DEF Piece, Pieces
        <5>2. task[t].append \/ n + 1 = Len(inode[i]) + 1
          BY <4>4
        <5> HIDE DEF old
        <5>3. text = With(old, n + 1, task[t].append, Piece(t, n + 1))
          BY DEF text, old
        <5> QED BY <4>1, <5>1, <5>2, <5>3, WithIs DEF old
      <4> HIDE DEF old, m, tasks, later
      <4>6. Known(Append(old, Piece(t, n + 1)), m, i, later)
        BY <1>1, <4>1, <4>2, <4>3, KnownAppended
      <4>7. inode'[k] = text /\ meant[k] = m
        BY <2>3, <3>4 DEF m
      <4> QED BY <3>4, <4>5, <4>6, <4>7 DEF later
    <3> QED BY <3>3, <3>4
  <2>6. ReaderInv'
    <3>1. SUFFICES ASSUME NEW u \in DOMAIN task PROVE Reader(task'[u], inode', task')
      BY DEF ReaderInv, GoesOn
    <3>2. CASE u = t
      BY <3>2 DEF Reader, GoesOn, IsWriter
    <3>3. CASE u # t
      BY <2>3, <3>3, GoesOnReaders
    <3> QED BY <3>2, <3>3
  <2> QED BY <1>2, <2>4, <2>5, <2>6 DEF TextsInv
<1> QED BY <1>3, <1>4

-----------------------------------------------------------------------------
(* The steps of those who write and read. *)
LEMMA ChangedTask ==
    ASSUME TextInv, NEW t \in DOMAIN task, NEW new \in Tasks, task' = [task EXCEPT ![t] = new],
           meant' = meant, new.kind = task[t].kind, new.inode = task[t].inode,
           new.append = task[t].append, new.size = task[t].size, task[t].at # "done"
    PROVE  GoesOn(t) /\ task'[t] = new
<1>1. task \in Seq(Tasks) /\ DOMAIN task = 1 .. Len(task)
  BY TaskTypes DEF TextInv
<1>2. /\ task' \in Seq(Tasks) /\ Len(task') = Len(task)
      /\ \A u \in 1 .. Len(task) : task'[u] = IF u = t THEN new ELSE task[u]
  BY <1>1, ExceptSeq
<1>3. DOMAIN task' = DOMAIN task
  OBVIOUS
<1> QED BY <1>1, <1>2, <1>3 DEF GoesOn

LEMMA StepWriteDoes ==
    ASSUME MountInv, TextsInv, NamesInv, NEW t \in DOMAIN task, StepWrite(t)
    PROVE  TextsInv' /\ NamesInv' /\ ReadOnlyStays
<1> DEFINE w == task[t]
           next == w.pos + 1
<1>0. TextInv
  BY DEF TextsInv
<1>1. PICK keep \in BOOLEAN :
        /\ keep => next = w.size
        /\ task' = [task EXCEPT ![t].pos = next, ![t].kept = keep,
                                ![t].at = IF next >= w.size THEN "ending" ELSE "going"]
        /\ IF keep \/ next > w.size THEN UNCHANGED inode ELSE PutPiece(t, next)
  BY DEF StepWrite
<1>2. /\ w.kind = "write" /\ w.at = "going" /\ w \in Tasks
      /\ mount' = mount /\ tree' = tree /\ meant' = meant
  BY <1>0, TaskTypes DEF StepWrite
<1> DEFINE new == [w EXCEPT !.pos = next, !.kept = keep,
                            !.at = IF next >= w.size THEN "ending" ELSE "going"]
<1>3. task' = [task EXCEPT ![t] = new]
  BY <1>1
<1>4. /\ new \in Tasks /\ new.kind = "write" /\ new.inode = w.inode /\ new.append = w.append
      /\ new.size = w.size /\ new.pos = next /\ new.kept = keep
      /\ new.at = IF next >= w.size THEN "ending" ELSE "going"
  <2> DEFINE p == next
             a == IF next >= w.size THEN "ending" ELSE "going"
  <2>1. p \in Nat /\ a \in {"going", "ending", "done"}
    BY <1>2 DEF Tasks
  <2>2. new = [w EXCEPT !.pos = p, !.kept = keep, !.at = a]
    OBVIOUS
  <2> HIDE DEF new, p, a
  <2>3. /\ new \in Tasks /\ new.kind = "write" /\ new.inode = w.inode /\ new.append = w.append
        /\ new.size = w.size /\ new.pos = p /\ new.kept = keep /\ new.at = a
    BY <1>2, <2>1, <2>2 DEF Tasks
  <2> QED BY <2>3 DEF p, a
<1>5. w.pos \in Nat /\ w.size \in Nat
  BY <1>2 DEF Tasks
<1>6. Stage(w) /\ ~w.kept /\ (w.pos < w.size \/ w.pos = 0)
  BY <1>2 DEF TextsInv, StageInv, Stage
<1>7. Written(w) = w.pos
  BY <1>5, <1>6 DEF Written
<1>8. Stage(new)
  BY <1>1, <1>4, <1>5, <1>6 DEF Stage
<1>9. IsWriter(t) /\ w.at # "done"
  BY <1>2 DEF IsWriter, Going
<1> HIDE DEF new
<1>10. GoesOn(t) /\ task'[t] = new
  BY <1>0, <1>2, <1>3, <1>4, ChangedTask
<1>11. \/ inode' = inode /\ Written(new) = w.pos
       \/ /\ Written(new) = w.pos + 1
          /\ inode' = [inode EXCEPT ![w.inode] = With(@, w.pos + 1, w.append, Piece(t, w.pos + 1))]
  <2>1. CASE keep
    BY <1>1, <1>4, <1>5, <2>1 DEF Written
  <2>2. CASE ~keep /\ next > w.size
    BY <1>1, <1>4, <1>5, <1>6, <2>2 DEF Written
  <2>3. CASE ~keep /\ ~(next > w.size)
    BY <1>1, <1>4, <1>5, <2>3 DEF Written, PutPiece
  <2> QED BY <2>1, <2>2, <2>3
<1>12. TextsInv'
  <2>1. Stage(task'[t])
    BY <1>8, <1>10
  <2>2. Written(task[t]) = w.pos
    BY <1>7
  <2>3. \/ inode' = inode /\ Written(task'[t]) = w.pos
        \/ /\ Written(task'[t]) = w.pos + 1
           /\ inode' = [inode EXCEPT ![task[t].inode] =
                          With(@, w.pos + 1, task[t].append, Piece(t, w.pos + 1))]
    BY <1>10, <1>11
  <2> QED BY <1>5, <1>9, <1>10, <2>1, <2>2, <2>3, WriterTexts
<1>13. NamesInv' /\ ReadOnlyStays
  <2>1. NoOther
    BY <1>10, GoesOnNoOther
  <2>2. CASE inode' = inode
    BY <1>0, <1>2, <1>9, <2>1, <2>2, WriterNames
  <2>3. CASE inode' = [inode EXCEPT ![w.inode] =
                         With(@, w.pos + 1, w.append, Piece(t, w.pos + 1))]
    <3> DEFINE text == With(inode[w.inode], w.pos + 1, w.append, Piece(t, w.pos + 1))
    <3>1. inode' = [inode EXCEPT ![task[t].inode] = text]
      BY <2>3
    <3> HIDE DEF text
    <3> QED BY <1>0, <1>2, <1>9, <2>1, <3>1, WriterNames
  <2> QED BY <1>11, <2>2, <2>3
<1> QED BY <1>12, <1>13

LEMMA ThenWriteDoes ==
    ASSUME MountInv, TextsInv, NamesInv, NEW t \in DOMAIN task, ThenWrite(t)
    PROVE  TextsInv' /\ NamesInv' /\ ReadOnlyStays
<1> DEFINE w == task[t]
           new == [w EXCEPT !.at = "done", !.kept = FALSE]
<1>0. TextInv
  BY DEF TextsInv
<1>2. /\ w.kind = "write" /\ w.at = "ending" /\ w \in Tasks
      /\ mount' = mount /\ tree' = tree /\ meant' = meant
      /\ IF w.kept THEN PutPiece(t, w.pos) ELSE inode' = inode
  BY <1>0, TaskTypes DEF ThenWrite, Flushed
<1>3. task' = [task EXCEPT ![t] = new]
  BY DEF ThenWrite
<1>4. /\ new \in Tasks /\ new.kind = "write" /\ new.inode = w.inode /\ new.append = w.append
      /\ new.size = w.size /\ new.pos = w.pos /\ ~new.kept /\ new.at = "done"
  BY <1>2 DEF Tasks
<1>5. w.pos \in Nat /\ w.size \in Nat
  BY <1>2 DEF Tasks
<1>6. w.pos >= w.size /\ (w.kept => w.pos = w.size /\ w.pos > 0)
  BY <1>2 DEF TextsInv, StageInv, Stage
<1>7. Stage(new)
  BY <1>4, <1>6 DEF Stage
<1>9. IsWriter(t) /\ w.at # "done"
  BY <1>2 DEF IsWriter, Going
<1> HIDE DEF new
<1>10. GoesOn(t) /\ task'[t] = new
  BY <1>0, <1>2, <1>3, <1>4, ChangedTask
<1>11. PICK n \in Nat :
         /\ Written(w) = n
         /\ \/ inode' = inode /\ Written(new) = n
            \/ /\ Written(new) = n + 1
               /\ inode' = [inode EXCEPT ![w.inode] = With(@, n + 1, w.append, Piece(t, n + 1))]
  <2>1. CASE w.kept
    <3>1. Written(w) = w.pos - 1 /\ Written(new) = w.pos /\ w.pos - 1 \in Nat
      BY <1>4, <1>5, <1>6, <2>1 DEF Written
    <3>2. PutPiece(t, w.pos) /\ w.pos = (w.pos - 1) + 1
      BY <1>2, <1>5, <2>1
    <3>3. inode' = [inode EXCEPT ![w.inode] =
                      With(@, (w.pos - 1) + 1, w.append, Piece(t, (w.pos - 1) + 1))]
      BY <3>2 DEF PutPiece
    <3> QED BY <3>1, <3>2, <3>3
  <2>2. CASE ~w.kept
    <3>1. Written(w) = w.size /\ Written(new) = w.size
      BY <1>4, <1>5, <1>6, <2>2 DEF Written
    <3> QED BY <1>2, <1>5, <2>2, <3>1
  <2> QED BY <2>1, <2>2
<1>12. TextsInv'
  <2>1. Stage(task'[t])
    BY <1>7, <1>10
  <2>2. Written(task[t]) = n
    BY <1>11
  <2>3. \/ inode' = inode /\ Written(task'[t]) = n
        \/ /\ Written(task'[t]) = n + 1
           /\ inode' = [inode EXCEPT ![task[t].inode] =
                          With(@, n + 1, task[t].append, Piece(t, n + 1))]
    BY <1>10, <1>11
  <2> QED BY <1>9, <1>10, <2>1, <2>2, <2>3, WriterTexts
<1>13. NamesInv' /\ ReadOnlyStays
  <2>1. NoOther
    BY <1>10, GoesOnNoOther
  <2>2. CASE inode' = inode
    BY <1>0, <1>2, <1>9, <2>1, <2>2, WriterNames
  <2>3. CASE inode' = [inode EXCEPT ![w.inode] = With(@, n + 1, w.append, Piece(t, n + 1))]
    <3> DEFINE text == With(inode[w.inode], n + 1, w.append, Piece(t, n + 1))
    <3>1. inode' = [inode EXCEPT ![task[t].inode] = text]
      BY <2>3
    <3> HIDE DEF text
    <3> QED BY <1>0, <1>2, <1>9, <2>1, <3>1, WriterNames
  <2> QED BY <1>11, <2>2, <2>3
<1> QED BY <1>12, <1>13

(* Readers change no text; what is known of what they got is shown for each of their steps.   *)
LEMMA ReaderTexts ==
    ASSUME TextsInv, NEW t \in DOMAIN task, GoesOn(t), task[t].kind = "read", inode' = inode,
           Reader(task'[t], inode, task')
    PROVE  TextsInv'
<1>0. TextInv /\ StageInv
  BY DEF TextsInv
<1>1. TextInv'
  <2>1. inode' \in Seq(Texts) /\ Len(inode') = Len(inode)
    BY <1>0 DEF TextInv
  <2> QED BY <1>0, <2>1, GoesOnTyped
<1>2. StageInv'
  <2>1. Stage(task'[t])
    BY DEF Stage, GoesOn
  <2> QED BY <1>0, <2>1, GoesOnStage
<1>3. KnownInv'
  <2>1. SUFFICES ASSUME NEW k \in 1 .. Len(inode), meant[k].sure
                 PROVE  Known(inode[k], meant[k], k, task')
    BY DEF KnownInv, GoesOn
  <2>2. SameWriting(k, task, task')
    BY GoesOnSame
  <2>3. Known(inode[k], meant[k], k, task)
    BY <2>1 DEF TextsInv, KnownInv
  <2> QED BY <2>2, <2>3, KnownSame
<1>4. ReaderInv'
  <2>1. SUFFICES ASSUME NEW u \in DOMAIN task PROVE Reader(task'[u], inode, task')
    BY DEF ReaderInv, GoesOn
  <2>2. CASE u = t
    BY <2>2
  <2>3. CASE u # t
    <3>1. Reader(task'[u], inode', task')
      BY <2>3, GoesOnReaders
    <3> QED BY <3>1
  <2> QED BY <2>2, <2>3
<1> QED BY <1>1, <1>2, <1>3, <1>4 DEF TextsInv

LEMMA NoWritersStill ==
    ASSUME NEW t \in DOMAIN task, GoesOn(t), NEW i, NoWriters(i, task) PROVE NoWriters(i, task')
<1> DEFINE tasks == task
           later == task'
<1>1. NoWriters(i, tasks) /\ DOMAIN later = DOMAIN tasks
      /\ \A v \in DOMAIN tasks : /\ later[v].kind = tasks[v].kind
                                     /\ later[v].inode = tasks[v].inode
                                 /\ later[v].at # "done" => tasks[v].at # "done"
  BY DEF GoesOn
<1> HIDE DEF tasks, later
<1>2. NoWriters(i, later)
  BY <1>1 DEF NoWriters
<1> QED BY <1>2 DEF later

LEMMA StepReadDoes ==
    ASSUME MountInv, TextsInv, NamesInv, NEW t \in DOMAIN task, StepRead(t)
    PROVE  TextsInv' /\ NamesInv' /\ ReadOnlyStays
<1> DEFINE r == task[t]
           text == inode[r.inode]
           more == r.pos < Len(text)
<1>0. TextInv
  BY DEF TextsInv
<1>1. PICK end \in BOOLEAN :
        /\ r.pos + 1 < Len(text) => ~end
        /\ ~more => end
        /\ task' = [task EXCEPT ![t].pos = IF more THEN @ + 1 ELSE @,
                                ![t].got = IF more THEN Append(@, text[r.pos + 1]) ELSE @,
                                ![t].at = IF end THEN "ending" ELSE "going"]
  BY DEF StepRead
<1>2. /\ r.kind = "read" /\ r.at = "going" /\ r \in Tasks /\ text \in Texts
      /\ mount' = mount /\ tree' = tree /\ meant' = meant /\ inode' = inode
  BY <1>0, TaskTypes DEF StepRead
<1> DEFINE new == [r EXCEPT !.pos = IF more THEN @ + 1 ELSE @,
                            !.got = IF more THEN Append(@, text[r.pos + 1]) ELSE @,
                            !.at = IF end THEN "ending" ELSE "going"]
<1>3. task' = [task EXCEPT ![t] = new]
  BY <1>1
<1>4. /\ new.kind = "read" /\ new.inode = r.inode /\ new.append = r.append /\ new.size = r.size
      /\ new.want = r.want /\ new.sure = r.sure /\ new.kept = r.kept
      /\ new.pos = (IF more THEN r.pos + 1 ELSE r.pos)
      /\ new.got = (IF more THEN Append(r.got, text[r.pos + 1]) ELSE r.got)
      /\ new.at = (IF end THEN "ending" ELSE "going")
  BY <1>2 DEF Tasks
<1>5. r.pos \in Nat /\ r.got \in Texts /\ Len(text) \in Nat /\ r.want \in Texts
  BY <1>2, LenProperties DEF Tasks, Texts
<1>6. more => text[r.pos + 1] \in Pieces
  <2>1. SUFFICES ASSUME more PROVE text[r.pos + 1] \in Pieces
    OBVIOUS
  <2>2. r.pos + 1 \in 1 .. Len(text)
    BY <1>5, <2>1
  <2> HIDE DEF text
  <2> QED BY <1>2, <2>2, ElementOfSeq DEF Texts
<1>7. new.got \in Texts /\ new.pos \in Nat
  BY <1>4, <1>5, <1>6, AppendProperties DEF Texts
<1>8. new \in Tasks
  <2> DEFINE g == IF more THEN Append(r.got, text[r.pos + 1]) ELSE r.got
             p == IF more THEN r.pos + 1 ELSE r.pos
             a == IF end THEN "ending" ELSE "going"
  <2>1. g \in Texts /\ p \in Nat /\ a \in {"going", "ending", "done"}
    BY <1>4, <1>7
  <2>2. new = [r EXCEPT !.pos = p, !.got = g, !.at = a]
    OBVIOUS
  <2> HIDE DEF g, p, a
  <2> QED BY <1>2, <2>1, <2>2 DEF Tasks
<1> HIDE DEF new
<1>9. GoesOn(t) /\ task'[t] = new
  BY <1>0, <1>2, <1>3, <1>4, <1>8, ChangedTask
<1>10. Reader(new, inode, task')
  <2>1. SUFFICES ASSUME r.sure PROVE Reader(new, inode, task')
    BY <1>4 DEF Reader
  <2>2. /\ r.want = text /\ NoWriters(r.inode, task)
        /\ Len(r.got) = r.pos /\ r.pos <= Len(text)
        /\ \A k \in 1 .. r.pos : r.got[k] = text[k]
    BY <1>2, <2>1 DEF TextsInv, ReaderInv, Reader, NoWriters
  <2>3. NoWriters(r.inode, task')
    BY <1>9, <2>2, NoWritersStill
  <2>4. CASE more
    <3>1. /\ Len(new.got) = r.pos + 1 /\ new.got[r.pos + 1] = text[r.pos + 1]
          /\ \A k \in 1 .. r.pos : new.got[k] = r.got[k]
      <4>1. /\ Len(Append(r.got, text[r.pos + 1])) = Len(r.got) + 1
            /\ Append(r.got, text[r.pos + 1])[Len(r.got) + 1] = text[r.pos + 1]
            /\ \A k \in 1 .. Len(r.got) : Append(r.got, text[r.pos + 1])[k] = r.got[k]
        BY <1>5, <1>6, <2>4, AppendProperties DEF Texts
      <4> QED BY <1>4, <2>2, <2>4, <4>1
    <3>2. new.pos = r.pos + 1 /\ new.pos <= Len(text)
      BY <1>4, <1>5, <2>4
    <3>3. new.at = "ending" => new.pos = Len(text)
      BY <1>1, <1>4, <1>5, <2>4
    <3>4. \A k \in 1 .. new.pos : new.got[k] = text[k]
      BY <1>5, <2>2, <3>1, <3>2
    <3>5. new.at # "going" => new.at = "ending"
      BY <1>4
    <3> QED BY <1>4, <2>2, <2>3, <3>1, <3>2, <3>3, <3>4, <3>5 DEF Reader, NoWriters
  <2>5. CASE ~more
    <3>1. r.pos = Len(text)
      BY <1>5, <2>2, <2>5
    <3> QED BY <1>4, <2>2, <2>3, <2>5, <3>1 DEF Reader, NoWriters
  <2> QED BY <2>4, <2>5
<1>11. TextsInv'
  <2>1. Reader(task'[t], inode, task')
    BY <1>9, <1>10
  <2> QED BY <1>2, <1>9, <2>1, ReaderTexts
<1>12. LetInNow
  BY <1>9, GoesOnNoOther, NoOtherIsLetIn
<1> QED BY <1>0, <1>2, <1>11, <1>12, ReaderNames

LEMMA ThenReadDoes ==
    ASSUME MountInv, TextsInv, NamesInv, NEW t \in DOMAIN task, ThenRead(t)
    PROVE  TextsInv' /\ NamesInv' /\ ReadOnlyStays
<1> DEFINE r == task[t]
           new == [r EXCEPT !.at = "done"]
<1>0. TextInv
  BY DEF TextsInv
<1>1. /\ r.kind = "read" /\ r.at = "ending" /\ r \in Tasks
      /\ mount' = mount /\ tree' = tree /\ meant' = meant /\ inode' = inode
  BY <1>0, TaskTypes DEF ThenRead
<1>2. task' = [task EXCEPT ![t] = new]
  BY DEF ThenRead
<1>3. /\ new \in Tasks /\ new.kind = "read" /\ new.inode = r.inode /\ new.append = r.append
      /\ new.size = r.size /\ new.want = r.want /\ new.sure = r.sure /\ new.pos = r.pos
      /\ new.got = r.got /\ new.at = "done"
  BY <1>1 DEF Tasks
<1>4. Reader(r, inode, task)
  BY DEF TextsInv, ReaderInv
<1> HIDE DEF new
<1>5. GoesOn(t) /\ task'[t] = new
  BY <1>0, <1>1, <1>2, <1>3, ChangedTask
<1>6. Reader(new, inode, task')
  BY <1>1, <1>3, <1>4 DEF Reader
<1>7. TextsInv'
  <2>1. Reader(task'[t], inode, task')
    BY <1>5, <1>6
  <2> QED BY <1>1, <1>5, <2>1, ReaderTexts
<1>8. LetInNow
  BY <1>5, GoesOnNoOther, NoOtherIsLetIn
<1> QED BY <1>0, <1>1, <1>7, <1>8, ReaderNames

LEMMA StartReadDoes ==
    ASSUME MountInv, TextsInv, NamesInv, NEW p \in Having, StartRead(p)
    PROVE  TextsInv' /\ NamesInv' /\ ReadOnlyStays
<1> DEFINE i == tree[NativeOf(p)]
           new == Begun("read", i, 0, FALSE, Writers(i) = {}, inode[i])
<1>0. TextInv
  BY DEF TextsInv
<1>1. /\ mount' = mount /\ tree' = tree /\ meant' = meant /\ inode' = inode
      /\ task' = Append(task, new) /\ IsFile(NativeOf(p))
  BY DEF StartRead, FileAt
<1>2. /\ Len(task) \in Nat /\ DOMAIN task = 1 .. Len(task) /\ task \in Seq(Tasks)
      /\ \A t \in DOMAIN task : task[t].inode \in 1 .. Len(inode)
      /\ \A k \in 1 .. Len(inode) : inode[k] \in Texts
      /\ inode \in Seq(Texts) /\ meant \in Seq(Meanings) /\ Len(meant) = Len(inode)
      /\ Len(inode) \in Nat
  BY <1>0, TaskTypes DEF TextInv
<1>3. i \in 1 .. Len(inode)
  BY <1>1, <1>2 DEF NamesInv, TreeInv, IsFile, There, Dir
<1>4. new \in Tasks
  <2>1. "read" \in {"read", "write"} /\ FALSE \in BOOLEAN /\ 0 \in Nat /\ i \in Nat
        /\ (Writers(i) = {}) \in BOOLEAN /\ inode[i] \in Texts
    BY <1>2, <1>3
  <2> HIDE DEF i
  <2> QED BY <2>1, BegunIs
<1>5. /\ new.kind = "read" /\ new.inode = i /\ new.at = "going" /\ new.pos = 0 /\ new.got = <<>>
      /\ new.want = inode[i] /\ new.sure = (Writers(i) = {})
  BY DEF Begun
<1> HIDE DEF new, i
<1>6. /\ task' \in Seq(Tasks) /\ Len(task') = Len(task) + 1 /\ task'[Len(task) + 1] = new
      /\ \A t \in DOMAIN task : task'[t] = task[t]
  BY <1>1, <1>2, <1>4, AppendProperties
<1>7. DOMAIN task' = DOMAIN task \cup {Len(task) + 1} /\ Len(task) + 1 \notin DOMAIN task
  <2>1. DOMAIN task' = 1 .. Len(task) + 1
    BY <1>6, LenProperties
  <2> QED BY <1>2, <2>1
<1>8. TextInv'
  <2>1. \A t \in DOMAIN task' : task'[t].inode \in 1 .. Len(inode)
    BY <1>2, <1>3, <1>5, <1>6, <1>7
  <2> QED BY <1>1, <1>2, <1>6, <2>1 DEF TextInv
<1>9. StageInv'
  <2>1. SUFFICES ASSUME NEW t \in DOMAIN task' PROVE Stage(task'[t])
    BY DEF StageInv
  <2>2. CASE t \in DOMAIN task
    <3>1. task'[t] = task[t] /\ Stage(task[t])
      BY <1>6, <2>2 DEF TextsInv, StageInv
    <3> QED BY <3>1
  <2>3. CASE t = Len(task) + 1
    BY <1>5, <1>6, <2>3 DEF Stage
  <2> QED BY <1>7, <2>2, <2>3
<1>10. \A k : SameWriting(k, task, task')
  <2>1. \A t \in DOMAIN task' \ DOMAIN task : task'[t].kind # "write"
    BY <1>5, <1>6, <1>7
  <2>2. DOMAIN task \subseteq DOMAIN task'
    BY <1>7
  <2> QED BY ONLY <1>6, <2>1, <2>2 DEF SameWriting
<1>11. KnownInv'
  <2>1. SUFFICES ASSUME NEW k \in 1 .. Len(inode), meant[k].sure
                 PROVE  Known(inode[k], meant[k], k, task')
    BY <1>1 DEF KnownInv
  <2>2. Known(inode[k], meant[k], k, task)
    BY <2>1 DEF TextsInv, KnownInv
  <2> QED BY <1>10, <2>2, KnownSame
<1>12. \A k : NoWriters(k, task) => NoWriters(k, task')
  BY <1>5, <1>6, <1>7 DEF NoWriters
<1>13. ReaderInv'
  <2>1. SUFFICES ASSUME NEW t \in DOMAIN task' PROVE Reader(task'[t], inode, task')
    BY <1>1 DEF ReaderInv
  <2>2. CASE t \in DOMAIN task
    <3>1. task'[t] = task[t] /\ Reader(task[t], inode, task)
      BY <1>6, <2>2 DEF TextsInv, ReaderInv
    <3>2. NoWriters(task[t].inode, task) => NoWriters(task[t].inode, task')
      BY <1>12
    <3>3. Reader(task[t], inode, task')
      BY <3>1, <3>2 DEF Reader, NoWriters
    <3> QED BY <3>1, <3>3
  <2>3. CASE t = Len(task) + 1
    <3>1. new.sure => NoWriters(i, task')
      BY <1>5, <1>12, WritersAre
    <3>2. inode[i] \in Texts
      BY <1>2, <1>3
    <3>3. Len(inode[i]) \in Nat /\ Len(<<>>) = 0
      BY <3>2, LenProperties DEF Texts
    <3>4. Reader(new, inode, task')
      BY <1>5, <3>1, <3>3 DEF Reader, NoWriters
    <3>5. task'[t] = new
      BY <1>6, <2>3
    <3> QED BY <3>4, <3>5
  <2> QED BY <1>7, <2>2, <2>3
<1>14. LetInNow
  <2>1. \A t \in DOMAIN task' : task'[t].kind = "write" => t \in DOMAIN task /\ task'[t] = task[t]
    BY <1>5, <1>6, <1>7
  <2> QED BY <2>1 DEF LetInNow, IsWriter, Going
<1>15. TextsInv'
  BY <1>8, <1>9, <1>11, <1>13 DEF TextsInv
<1>16. NamesInv' /\ ReadOnlyStays
  BY <1>0, <1>1, <1>14, ReaderNames
<1> QED BY <1>15, <1>16

LEMMA CopyTexts ==
    ASSUME MountInv, TextsInv, NamesInv, NEW p \in Having, NEW q \in Having, NEW over,
           Copy(p, q, over)
    PROVE  TextsInv'
<1> DEFINE from == NativeOf(p)
           to == NativeOf(q)
<1>1. from \in DOMAIN tree
  BY DEF Copy, There
<1>2. \/ IsFile(from) /\ CopyOneFile(from, to, over)
      \/ IsFile(from) /\ CopyOneFile(from, Append(to, Last(from)), over)
      \/ CopyDir(from, to, over)
  BY DEF Copy, FileAt
<1> HIDE DEF from, to
<1> QED BY <1>1, <1>2, CopyOneFileTexts, CopyDirTexts

LEMMA TextsStay ==
    ASSUME TextsInv, inode' = inode, task' = task, meant' = meant PROVE TextsInv'
<1>1. TextInv'
  BY DEF TextsInv, TextInv
<1>2. StageInv'
  BY DEF TextsInv, StageInv
<1>3. KnownInv'
  BY DEF TextsInv, KnownInv
<1>4. ReaderInv'
  BY DEF TextsInv, ReaderInv
<1> QED BY <1>1, <1>2, <1>3, <1>4 DEF TextsInv

-----------------------------------------------------------------------------
(* The first state, and every step. *)
LEMMA Same == PathsInv <=> MountInv /\ NamesInv /\ TextsInv
BY DEF PathsInv, NamesInv, TextsInv

LEMMA InitHolds == PathsInit => PathsInv
<1>1. SUFFICES ASSUME PathsInit PROVE PathsInv
  OBVIOUS
<1>2. MountInv /\ task = <<>>
  BY <1>1, PathsAssumption DEF PathsInit, MountInv
<1>3. PICK files \in Trees :
        \E list \in {SetToSeq({n \in DOMAIN files : files[n] # Dir})} :
          /\ tree = [n \in DOMAIN files |->
                       IF files[n] = Dir THEN Dir ELSE CHOOSE k \in DOMAIN list : list[k] = n]
          /\ inode = [k \in DOMAIN list |-> [j \in 1 .. files[list[k]] |-> Piece(0, k * 10 + j)]]
          /\ meant = [k \in DOMAIN list |-> Certain(inode[k])]
  BY <1>1 DEF PathsInit
<1> DEFINE S == {n \in DOMAIN files : files[n] # Dir}
           list == SetToSeq(S)
<1>4. /\ tree = [n \in DOMAIN files |->
                   IF files[n] = Dir THEN Dir ELSE CHOOSE k \in DOMAIN list : list[k] = n]
      /\ inode = [k \in DOMAIN list |-> [j \in 1 .. files[list[k]] |-> Piece(0, k * 10 + j)]]
      /\ meant = [k \in DOMAIN list |-> Certain(inode[k])]
  BY <1>3
<1>5. /\ IsFiniteSet(DOMAIN files) /\ files[<<>>] = Dir
      /\ \A n \in DOMAIN files : n \in Seq(FileNames) /\ files[n] \in Nat
  BY PathsAssumption
<1>6. IsFiniteSet(S)
  BY <1>5, FS_Subset
<1>7. /\ Len(list) \in Nat /\ DOMAIN list = 1 .. Len(list)
      /\ \A k \in DOMAIN list : list[k] \in S
      /\ \A x \in S : \E k \in DOMAIN list : list[k] = x
  BY <1>6, ListIs
<1> HIDE DEF list
<1>8. \A k \in 1 .. Len(list) : inode[k] \in Texts
  <2>1. SUFFICES ASSUME NEW k \in 1 .. Len(list) PROVE inode[k] \in Texts
    OBVIOUS
  <2> DEFINE c == files[list[k]]
             text == [j \in 1 .. c |-> Piece(0, k * 10 + j)]
  <2>2. c \in Nat /\ k \in Nat
    BY <1>5, <1>7
  <2>3. inode[k] = text
    BY <1>4, <1>7
  <2> HIDE DEF c
  <2>4. \A j \in 1 .. c : Piece(0, k * 10 + j) \in Pieces
    BY <2>2 DEF Piece, Pieces
  <2>5. text \in [1 .. c -> Pieces]
    BY <2>4
  <2> HIDE DEF text
  <2> QED BY <2>2, <2>3, <2>5, SeqDef DEF Texts
<1>9. inode \in Seq(Texts) /\ Len(inode) = Len(list)
  <2>1. inode \in [1 .. Len(list) -> Texts]
    BY <1>4, <1>7, <1>8
  <2> QED BY <1>7, <2>1, SeqDef, LenProperties
<1>10. \A k \in 1 .. Len(list) : meant[k] = Certain(inode[k]) /\ meant[k] \in Meanings
  BY <1>4, <1>7, <1>8 DEF Certain, Meanings
<1>11. meant \in Seq(Meanings) /\ Len(meant) = Len(list)
  <2>1. meant \in [1 .. Len(list) -> Meanings]
    BY <1>4, <1>7, <1>10
  <2> QED BY <1>7, <2>1, SeqDef, LenProperties
<1>12. DOMAIN task = {} /\ task \in Seq(Tasks)
  BY <1>2
<1>13. TextsInv
  <2>1. TextInv /\ StageInv /\ ReaderInv
    BY <1>9, <1>11, <1>12 DEF TextInv, StageInv, ReaderInv
  <2>2. KnownInv
    <3>1. SUFFICES ASSUME NEW k \in 1 .. Len(inode) PROVE Known(inode[k], meant[k], k, task)
      BY DEF KnownInv
    <3>2. inode[k] \in Texts /\ meant[k] = Certain(inode[k]) /\ NoWriters(k, task)
      BY <1>8, <1>9, <1>10, <1>12 DEF NoWriters
    <3> QED BY <3>2, KnownCertain
  <2> QED BY <2>1, <2>2 DEF TextsInv
<1>14. \A n \in DOMAIN files :
         \/ tree[n] = Dir /\ files[n] = Dir
         \/ tree[n] \in 1 .. Len(list) /\ list[tree[n]] = n
  <2>1. TAKE n \in DOMAIN files
  <2>2. CASE files[n] = Dir
    BY <1>4, <2>2
  <2>3. CASE files[n] # Dir
    <3>1. \E k \in DOMAIN list : list[k] = n
      BY <1>7, <2>3
    <3>2. tree[n] = CHOOSE k \in DOMAIN list : list[k] = n
      BY <1>4, <2>3
    <3> QED BY <1>7, <3>1, <3>2
  <2> QED BY <2>2, <2>3
<1>15. DOMAIN tree = DOMAIN files
  BY <1>4
<1>16. TreeInv
  <2>1. \A n \in DOMAIN tree : n \in Seq(FileNames) /\ tree[n] \in 0 .. Len(inode)
    BY <1>5, <1>7, <1>9, <1>14, <1>15 DEF Dir
  <2>2. <<>> \in DOMAIN tree /\ tree[<<>>] = Dir
    <3>1. <<>> \in DOMAIN files /\ files[<<>>] = Dir
      BY PathsAssumption
    <3>2. tree[<<>>] = Dir
      BY <1>4, <3>1
    <3> QED BY <1>15, <3>1, <3>2
  <2> QED BY <1>5, <1>15, <2>1, <2>2 DEF TreeInv
<1>17. OneName
  <2>1. SUFFICES ASSUME NEW m \in DOMAIN tree, NEW n \in DOMAIN tree, tree[m] = tree[n],
                        tree[m] # Dir
                 PROVE  m = n
    BY DEF OneName
  <2>2. list[tree[m]] = m /\ list[tree[n]] = n
    BY <1>14, <1>15, <2>1
  <2> QED BY <2>1, <2>2
<1>18. LetIn
  BY <1>12 DEF LetIn
<1> QED BY <1>2, <1>13, <1>16, <1>17, <1>18, Same DEF NamesInv

LEMMA MountStays == ASSUME MountInv, mount' = mount PROVE MountInv'
BY DEF MountInv

LEMMA StepHolds ==
    ASSUME PathsInv, PathsNext
    PROVE  PathsInv' /\ ReadOnlyStays
<1>0. MountInv /\ NamesInv /\ TextsInv /\ TextInv
  BY Same DEF TextsInv
<1>1. SUFFICES mount' = mount /\ NamesInv' /\ TextsInv' /\ ReadOnlyStays
  <2>1. SUFFICES ASSUME mount' = mount, NamesInv', TextsInv', ReadOnlyStays
                 PROVE  PathsInv' /\ ReadOnlyStays
    OBVIOUS
  <2>2. MountInv'
    BY <1>0, <2>1, MountStays
  <2>3. TreeInv' /\ OneName' /\ LetIn' /\ TextInv' /\ StageInv' /\ KnownInv' /\ ReaderInv'
    BY <2>1 DEF NamesInv, TextsInv
  <2> QED BY ONLY <2>1, <2>2, <2>3 DEF PathsInv
<1>2. ASSUME NEW p \in Having, NEW q \in Having, NEW over \in BOOLEAN, Copy(p, q, over)
      PROVE  mount' = mount /\ NamesInv' /\ TextsInv' /\ ReadOnlyStays
  BY <1>0, <1>2, CopyNames, CopyTexts DEF Copy
<1>3. ASSUME NEW p \in Having, NEW q \in Having, Move(p, q)
      PROVE  mount' = mount /\ NamesInv' /\ TextsInv' /\ ReadOnlyStays
  <2>1. mount' = mount /\ inode' = inode /\ task' = task /\ meant' = meant
    BY <1>3 DEF Move
  <2> QED BY <1>0, <1>3, <2>1, MoveNames, TextsStay
<1>4. ASSUME NEW p \in Having, NEW recursive \in BOOLEAN, MakeDir(p, recursive)
      PROVE  mount' = mount /\ NamesInv' /\ TextsInv' /\ ReadOnlyStays
  <2>1. mount' = mount /\ inode' = inode /\ task' = task /\ meant' = meant
    BY <1>4 DEF MakeDir
  <2> QED BY <1>0, <1>4, <2>1, MakeDirNames, TextsStay
<1>5. ASSUME NEW p \in Having, NEW recursive \in BOOLEAN, RemovePath(p, recursive)
      PROVE  mount' = mount /\ NamesInv' /\ TextsInv' /\ ReadOnlyStays
  <2>1. mount' = mount /\ inode' = inode /\ task' = task /\ meant' = meant
    BY <1>5 DEF RemovePath
  <2> QED BY <1>0, <1>5, <2>1, RemoveNames, TextsStay
<1>6. ASSUME NEW p \in Having, NEW size \in Sizes, NEW append \in BOOLEAN,
             StartWrite(p, size, append)
      PROVE  mount' = mount /\ NamesInv' /\ TextsInv' /\ ReadOnlyStays
  <2>1. mount' = mount
    BY <1>6 DEF StartWrite
  <2> QED BY <1>0, <1>6, <2>1, StartWriteNames, StartWriteTexts
<1>7. ASSUME NEW p \in Having, StartRead(p)
      PROVE  mount' = mount /\ NamesInv' /\ TextsInv' /\ ReadOnlyStays
  BY <1>0, <1>7, StartReadDoes DEF StartRead
<1>8. ASSUME NEW t \in DOMAIN task, StepWrite(t)
      PROVE  mount' = mount /\ NamesInv' /\ TextsInv' /\ ReadOnlyStays
  BY <1>0, <1>8, StepWriteDoes DEF StepWrite
<1>9. ASSUME NEW t \in DOMAIN task, ThenWrite(t)
      PROVE  mount' = mount /\ NamesInv' /\ TextsInv' /\ ReadOnlyStays
  BY <1>0, <1>9, ThenWriteDoes DEF ThenWrite
<1>10. ASSUME NEW t \in DOMAIN task, StepRead(t)
       PROVE  mount' = mount /\ NamesInv' /\ TextsInv' /\ ReadOnlyStays
  BY <1>0, <1>10, StepReadDoes DEF StepRead
<1>11. ASSUME NEW t \in DOMAIN task, ThenRead(t)
       PROVE  mount' = mount /\ NamesInv' /\ TextsInv' /\ ReadOnlyStays
  BY <1>0, <1>11, ThenReadDoes DEF ThenRead
<1> QED BY <1>2, <1>3, <1>4, <1>5, <1>6, <1>7, <1>8, <1>9, <1>10, <1>11 DEF PathsNext

LEMMA StutterHolds == ASSUME PathsInv, UNCHANGED pathsVars PROVE PathsInv'
<1>1. /\ mount' = mount /\ tree' = tree /\ inode' = inode /\ task' = task /\ meant' = meant
  BY DEF pathsVars
<1>2. MountInv /\ NamesInv /\ TextsInv
  BY Same
<1>3. MountInv' /\ TextsInv'
  BY <1>1, <1>2, MountStays, TextsStay
<1>4. TreeInv' /\ OneName' /\ LetIn'
  BY <1>1, <1>2, GrantStays DEF NamesInv, TreeInv, OneName, LetIn, IsWriter, Going
<1>5. TextInv' /\ StageInv' /\ KnownInv' /\ ReaderInv'
  BY <1>3 DEF TextsInv
<1> QED BY ONLY <1>3, <1>4, <1>5 DEF PathsInv

-----------------------------------------------------------------------------
(* What the invariant says of files that nobody writes, and of those who have read.           *)
LEMMA InvWhole == PathsInv => TextsWhole
<1>1. SUFFICES ASSUME PathsInv PROVE TextsWhole
  OBVIOUS
<1>2. TextInv /\ StageInv /\ KnownInv /\ ReaderInv
  BY <1>1 DEF PathsInv
<1>3. ASSUME NEW i \in DOMAIN inode, Writers(i) = {}, meant[i].sure
      PROVE  Whole(i)
  <2> DEFINE text == inode[i]
             m == meant[i]
             added == Len(m.base) + 1 .. Len(text)
  <2>1. i \in 1 .. Len(inode)
    BY <1>2, TaskTypes
  <2>2. Known(text, m, i, task)
    BY <1>2, <1>3, <2>1 DEF KnownInv
  <2>3. \A t \in m.adds : t \in DOMAIN task /\ task[t].kind = "write" /\ task[t].at = "done"
    BY <1>3, <2>2 DEF Known, Writers, Going
  <2>4. \A t \in m.adds : Written(task[t]) = task[t].size
    <3>1. TAKE t \in m.adds
    <3>2. task[t] \in Tasks /\ Stage(task[t]) /\ task[t].kind = "write" /\ task[t].at = "done"
      BY <1>2, <2>3, TaskTypes DEF StageInv
    <3> QED BY ONLY <3>2 DEF Stage, Written, Tasks
  <2>5. IsPrefix(m.base, text)
    BY <2>2 DEF Known
  <2>6. \A k \in added : text[k].by \in m.adds /\ text[k].k \in 1 .. Written(task[text[k].by])
    BY <2>2 DEF Known
  <2>7. \A t \in m.adds : \A j \in 1 .. Written(task[t]) : \E k \in added : text[k] = Piece(t, j)
    BY <2>2 DEF Known
  <2>8. \A k, l \in added : k < l /\ text[k].by = text[l].by => text[k].k < text[l].k
    BY <2>2 DEF Known
  <2> HIDE DEF text, m, added
  <2>9. \A k \in added : text[k].by \in m.adds /\ text[k].k \in 1 .. task[text[k].by].size
    BY <2>4, <2>6
  <2>10. \A t \in m.adds : \A j \in 1 .. task[t].size : \E k \in added : text[k] = Piece(t, j)
    BY <2>4, <2>7
  <2> QED BY ONLY <2>5, <2>8, <2>9, <2>10 DEF Whole, text, m, added
<1>4. ASSUME NEW t \in DOMAIN task, task[t].kind = "read", task[t].at = "done", task[t].sure
      PROVE  task[t].got = task[t].want
  <2>1. task[t] \in Tasks /\ Reader(task[t], inode, task)
    BY <1>2, TaskTypes DEF ReaderInv
  <2>2. /\ task[t].got \in Seq(Pieces) /\ task[t].want \in Seq(Pieces)
        /\ Len(task[t].got) = Len(task[t].want)
        /\ \A k \in 1 .. Len(task[t].got) : task[t].got[k] = task[t].want[k]
    BY <1>4, <2>1 DEF Reader, Tasks, Texts
  <2> QED BY <2>2, SeqEqual
<1> QED BY <1>3, <1>4 DEF TextsWhole

LEMMA PathsHold == PathsSpec => []PathsInv
<1>1. PathsInv /\ [PathsNext]_pathsVars => PathsInv'
  BY StepHolds, StutterHolds
<1> QED BY <1>1, InitHolds, PTL DEF PathsSpec

(* However scripts write and append to a file in turns, and copy it and move it meanwhile: in *)
(* the end it has in it what it had and every piece of every text, in its order.              *)
THEOREM TextsAreWhole == PathsSpec => []TextsWhole
BY PathsHold, InvWhole, PTL

(* However scripts spell their paths, nothing that they do changes a file or a directory that *)
(* is not in a directory mounted for writing, but for the directories that lead to one: except *)
(* by a path that is under a mount for writing as it is spelled and goes up out of it, which   *)
(* the code takes for writable (fs.cpp:238-272).                                              *)
THEOREM ReadOnlyIsKept == PathsSpec => ReadOnlyKept
<1>1. PathsInv /\ [PathsNext]_pathsVars => [ReadOnlyStays]_pathsVars
  BY StepHolds
<1> QED BY <1>1, PathsHold, PTL DEF PathsSpec, ReadOnlyKept
=============================================================================

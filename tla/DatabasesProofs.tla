--------------------------- MODULE DatabasesProofs ---------------------------
(* The databases for any number of threads and processes, any plays, keys and numbers of any  *)
(* width: who has the lock is in a write transaction, what scripts change together stays      *)
(* together, a walk shows every key in order, and there is one secret.  The inductive         *)
(* invariant says of every call that a thread is in what it knows of the environment: whoever *)
(* writes has the lock, so nobody else changes what it has read.                              *)
EXTENDS Databases, TLAPS, FiniteSetTheorems, WellFoundedInduction

Numbers == (-Half)..(Half - 1)

-----------------------------------------------------------------------------
(* A set of numbers has a least one, from the library's theorem on well-founded orders.       *)
LEMMA Least == ASSUME NEW S, S \in SUBSET Nat, S # {} PROVE \E n \in S : \A m \in S : n <= m
<1> DEFINE R == {ss \in Nat \X Nat : ss[1] < ss[2]}
<1>1. OpToRel(<, Nat) = R
  BY DEF OpToRel
<1>2. IsWellFoundedOn(OpToRel(<, Nat), Nat)
  BY NatLessThanWellFounded
<1>3. IsWellFoundedOn(R, Nat)
  BY <1>1, <1>2
<1> HIDE DEF R
<1>4. PICK n \in S : \A m \in S : ~ (<<m, n>> \in R)
  BY <1>3, WFMin
<1>5. \A m \in S : ~ (m < n)
  BY <1>4 DEF R
<1> QED BY <1>5

(* Turning the sign over (encode_i64_key) makes natural numbers of the keys, in their order.   *)
LEMMA Sizes == Half \in Nat \ {0} /\ Base \in Nat \ {0}
BY DatabasesAssumption

LEMMA Turned ==
    ASSUME NEW n \in Numbers
    PROVE  ((n % (2 * Half)) + Half) % (2 * Half) = n + Half
<1>1. Half \in Nat \ {0} /\ n \in Int /\ -Half <= n /\ n < Half
  BY DatabasesAssumption DEF Numbers
<1> DEFINE w == 2 * Half
<1>2. w \in Nat \ {0} /\ w = 2 * Half
  BY <1>1
<1>3. CASE n >= 0
  <2>1. n % w = n
    BY <1>1, <1>2, <1>3
  <2>2. (n + Half) % w = n + Half
    BY <1>1, <1>2, <1>3
  <2> QED BY <2>1, <2>2
<1>4. CASE n < 0
  <2>1. n % w = n + w
    BY <1>1, <1>2, <1>4
  <2>2. (n + w + Half) % w = n + Half
    BY <1>1, <1>2, <1>4
  <2> QED BY <2>1, <2>2
<1> QED BY <1>1, <1>3, <1>4

(* The two bytes of a number, and how numbers compare by them. *)
LEMMA Digits ==
    ASSUME NEW u \in 0..(2 * Half - 1)
    PROVE  /\ u \div Base \in Nat /\ u % Base \in 0..(Base - 1)
           /\ u = (u \div Base) * Base + (u % Base)
BY DatabasesAssumption

LEMMA LexNumbers ==
    ASSUME NEW a \in Nat, NEW b \in 0..(Base - 1), NEW c \in Nat, NEW d \in 0..(Base - 1)
    PROVE  a * Base + b < c * Base + d <=> (a < c \/ (a = c /\ b < d))
<1>1. Base \in Nat \ {0}
  BY DatabasesAssumption
<1>2. ASSUME NEW x \in Nat, NEW y \in Nat, NEW e \in 0..(Base-1), NEW f \in 0..(Base - 1), x < y
      PROVE x * Base + e < y * Base + f
  <2>1. x + 1 <= y
    BY <1>2
  <2>2. (x + 1) * Base <= y * Base
    BY <1>1, <2>1
  <2>3. (x + 1) * Base = x * Base + Base
    BY <1>1
  <2> QED BY <1>1, <1>2, <2>2, <2>3
<1>3. a < c => a * Base + b < c * Base + d
  BY <1>2
<1>4. c < a => c * Base + d < a * Base + b
  BY <1>2
<1>5. a * Base \in Nat /\ c * Base \in Nat
  BY <1>1
<1> QED BY <1>3, <1>4, <1>5

-----------------------------------------------------------------------------
(* The order of encoded keys (LMDB's, Less) is a strict and total one. *)
LEMMA LessIrreflexive == ASSUME NEW a \in Seq(Nat) PROVE ~Less(a, a)
BY DEF Less

LEMMA LessTransitive ==
    ASSUME NEW a \in Seq(Nat), NEW b \in Seq(Nat), NEW c \in Seq(Nat), Less(a, b), Less(b, c)
    PROVE  Less(a, c)
<1>1. PICK i \in 1..Len(b) :
          /\ \A j \in 1..(i - 1) : j <= Len(a) /\ a[j] = b[j]
          /\ i > Len(a) \/ a[i] < b[i]
  BY DEF Less
<1>2. PICK k \in 1..Len(c) :
          /\ \A j \in 1..(k - 1) : j <= Len(b) /\ b[j] = c[j]
          /\ k > Len(b) \/ b[k] < c[k]
  BY DEF Less
<1>3. CASE i < k
  <2>1. i \in 1..Len(c) /\ i <= Len(b) /\ b[i] = c[i]
    BY <1>2, <1>3
  <2>2. \A j \in 1..(i - 1) : j <= Len(a) /\ a[j] = c[j]
    BY <1>1, <1>2, <1>3
  <2> QED BY <1>1, <2>1, <2>2 DEF Less
<1>4. CASE k < i
  <2>1. k <= Len(a) /\ a[k] = b[k] /\ k <= Len(b)
    BY <1>1, <1>4
  <2>2. \A j \in 1..(k - 1) : j <= Len(a) /\ a[j] = c[j]
    BY <1>1, <1>2, <1>4
  <2>3. k \in 1..Len(c) /\ a[k] < c[k]
    BY <1>2, <2>1
  <2> QED BY <2>2, <2>3 DEF Less
<1>5. CASE i = k
  <2>1. \A j \in 1..(i - 1) : j <= Len(a) /\ a[j] = c[j]
    BY <1>1, <1>2, <1>5
  <2>2. i > Len(a) \/ a[i] < c[i]
    <3>1. CASE i <= Len(a)
      <4>1. a[i] \in Nat /\ b[i] \in Nat /\ c[i] \in Nat
        BY <1>1, <1>2, <1>5, <3>1
      <4> QED BY <1>1, <1>2, <1>5, <3>1, <4>1
    <3> QED BY <3>1, <1>1
  <2> QED BY <1>2, <1>5, <2>1, <2>2 DEF Less
<1> QED BY <1>1, <1>2, <1>3, <1>4, <1>5

LEMMA LessTotal ==
    ASSUME NEW a \in Seq(Nat), NEW b \in Seq(Nat), a # b
    PROVE  Less(a, b) \/ Less(b, a)
<1> DEFINE Apart == {i \in Nat : /\ (i \in 1..Len(a) \/ i \in 1..Len(b))
                                 /\ (i > Len(a) \/ i > Len(b) \/ a[i] # b[i])}
<1>0. Len(a) \in Nat /\ Len(b) \in Nat
  OBVIOUS
<1> HIDE DEF Apart
<1>1. Apart # {}
  <2>1. CASE Len(a) = Len(b)
    <3>1. PICK i \in 1..Len(a) : a[i] # b[i]
      BY <2>1
    <3>2. i \in Apart
      BY <2>1, <3>1, <1>0 DEF Apart
    <3> QED BY <3>2
  <2>2. CASE Len(a) < Len(b)
    <3>1. Len(b) \in Apart
      BY <2>2, <1>0 DEF Apart
    <3> QED BY <3>1
  <2>3. CASE Len(b) < Len(a)
    <3>1. Len(a) \in Apart
      BY <2>3, <1>0 DEF Apart
    <3> QED BY <3>1
  <2> QED BY <2>1, <2>2, <2>3, <1>0
<1>2. Apart \in SUBSET Nat
  BY DEF Apart
<1>9. PICK i \in Apart : \A m \in Apart : i <= m
  BY <1>1, <1>2, Least
<1>10. i \in Nat /\ (i \in 1..Len(a) \/ i \in 1..Len(b))
  BY <1>9 DEF Apart
<1>5. i \in Nat /\ i >= 1 /\ (i <= Len(a) \/ i <= Len(b))
  BY <1>0, <1>10
<1>3. \A j \in 1..(i - 1) : j <= Len(a) /\ j <= Len(b) /\ a[j] = b[j]
  <2> TAKE j \in 1..(i - 1)
  <2>1. j \in Nat /\ j >= 1 /\ ~(i <= j) /\ (j <= Len(a) \/ j <= Len(b))
    BY <1>0, <1>5
  <2>2. j \notin Apart
    BY <1>9, <2>1
  <2> QED BY <1>0, <2>1, <2>2 DEF Apart
<1>4. i \in 1..Len(a) /\ i \in 1..Len(b) => a[i] \in Nat /\ b[i] \in Nat /\ a[i] # b[i]
  BY <1>0, <1>9 DEF Apart
<1>6. CASE i > Len(a)
  <2>1. i \in 1..Len(b)
    BY <1>0, <1>5, <1>6
  <2> QED BY <1>3, <1>6, <2>1 DEF Less
<1>7. CASE i > Len(b)
  <2>1. i \in 1..Len(a)
    BY <1>0, <1>5, <1>7
  <2> QED BY <1>3, <1>7, <2>1 DEF Less
<1>8. CASE i \in 1..Len(a) /\ i \in 1..Len(b)
  <2>1. a[i] < b[i] \/ b[i] < a[i]
    BY <1>4, <1>8
  <2> QED BY <1>3, <1>8, <2>1 DEF Less
<1> QED BY <1>0, <1>5, <1>6, <1>7, <1>8

-----------------------------------------------------------------------------
(* What encode_i64_key makes of a key: a NUL and the bytes of a number, or the string itself. *)
LEMMA NumberCoded ==
    ASSUME NEW k, IsKey(k), k.type = "number"
    PROVE  LET u == k.n + Half
           IN /\ k.n \in Numbers /\ u \in 0..(2 * Half - 1)
              /\ Encode(k) = <<0, u \div Base, u % Base>>
              /\ k = [type |-> "number", n |-> k.n]
<1>1. k.n \in Numbers /\ k = [type |-> "number", n |-> k.n]
  BY DEF IsKey, Numbers
<1>2. k.n + Half \in 0..(2 * Half - 1)
  BY <1>1, Sizes DEF Numbers
<1> QED BY <1>1, <1>2, Turned DEF Encode, Bytes

LEMMA StringCoded ==
    ASSUME NEW k, IsKey(k), k.type # "number"
    PROVE  /\ k = [type |-> "string", s |-> k.s]
           /\ Encode(k) = k.s /\ k.s \in Seq(Nat) /\ k.s # <<>> /\ k.s[1] # 0
BY DEF IsKey, Encode

LEMMA Coded == ASSUME NEW k, IsKey(k) PROVE Encode(k) \in Seq(Nat) /\ Encode(k) # <<>>
<1>1. CASE k.type = "number"
  <2> DEFINE u == k.n + Half
  <2>1. u \in 0..(2 * Half - 1) /\ Encode(k) = <<0, u \div Base, u % Base>>
    BY <1>1, NumberCoded
  <2> HIDE DEF u
  <2>2. u \div Base \in Nat /\ u % Base \in Nat
    BY <2>1, Digits, Sizes
  <2> QED BY <2>1, <2>2
<1> QED BY <1>1, StringCoded

LEMMA DecodedThree ==
    ASSUME NEW q \in Nat, NEW r \in Nat, NEW n \in Int, q * Base + r = n + Half
    PROVE  Decode(<<0, q, r>>) = [type |-> "number", n |-> n]
<1>1. q * Base + r - Half = n
  BY Sizes
<1> QED BY <1>1 DEF Decode

(* DB::type gets every key back from its code. *)
LEMMA Decoded == ASSUME NEW k, IsKey(k) PROVE Decode(Encode(k)) = k
<1>1. CASE k.type = "number"
  <2> DEFINE u == k.n + Half
             q == u \div Base
             r == u % Base
  <2>1. /\ k.n \in Int /\ u \in 0..(2 * Half - 1) /\ k = [type |-> "number", n |-> k.n]
        /\ Encode(k) = <<0, q, r>>
    BY <1>1, NumberCoded, Sizes DEF Numbers
  <2>2. q \in Nat /\ r \in Nat /\ q * Base + r = u
    <3> HIDE DEF u
    <3> QED BY <2>1, Digits, Sizes
  <2> HIDE DEF q, r
  <2>3. Decode(<<0, q, r>>) = [type |-> "number", n |-> k.n]
    BY <2>1, <2>2, DecodedThree
  <2> QED BY <2>1, <2>3
<1>2. CASE k.type # "number"
  BY <1>2, StringCoded DEF Decode
<1> QED BY <1>1, <1>2

(* Encoded keys are in the order that Before says: numbers by value, before all strings.       *)
LEMMA LessOfThree ==
    ASSUME NEW a \in Nat, NEW b \in Nat, NEW c \in Nat, NEW d \in Nat
    PROVE  Less(<<0, a, b>>, <<0, c, d>>) <=> (a < c \/ (a = c /\ b < d))
BY DEF Less

LEMMA Ordered ==
    ASSUME NEW a, NEW b, IsKey(a), IsKey(b)
    PROVE  Before(a, b) <=> Less(Encode(a), Encode(b))
<1>1. CASE a.type = "number" /\ b.type = "number"
  <2> DEFINE u == a.n + Half
             v == b.n + Half
  <2>0. a.n \in Int /\ b.n \in Int /\ Half \in Int
    BY <1>1, NumberCoded, Sizes DEF Numbers
  <2>1. /\ u \in 0..(2 * Half - 1) /\ Encode(a) = <<0, u \div Base, u % Base>>
        /\ v \in 0..(2 * Half - 1) /\ Encode(b) = <<0, v \div Base, v % Base>>
    BY <1>1, NumberCoded
  <2>2. a.n < b.n <=> u < v
    BY <2>0
  <2> HIDE DEF u, v
  <2>3. /\ u \div Base \in Nat /\ u % Base \in 0..(Base - 1)
        /\ v \div Base \in Nat /\ v % Base \in 0..(Base - 1)
        /\ u = (u \div Base) * Base + (u % Base) /\ v = (v \div Base) * Base + (v % Base)
    BY <2>1, Digits
  <2>4. u < v <=> \/ u \div Base < v \div Base
                  \/ u \div Base = v \div Base /\ u % Base < v % Base
    BY <2>3, LexNumbers
  <2>5. Less(Encode(a), Encode(b)) <=> u < v
    BY <2>1, <2>3, <2>4, LessOfThree, Sizes
  <2> QED BY <1>1, <2>2, <2>5 DEF Before
<1>2. CASE a.type = "number" /\ b.type # "number"
  BY <1>2, NumberCoded, StringCoded, Digits DEF Before, Less
<1>3. CASE a.type # "number" /\ b.type = "number"
  BY <1>3, NumberCoded, StringCoded, Digits DEF Before, Less
<1>4. CASE a.type # "number" /\ b.type # "number"
  BY <1>4, StringCoded DEF Before
<1> QED BY <1>1, <1>2, <1>3, <1>4

-----------------------------------------------------------------------------
(* Finitely many keys have a first one: the one with the fewest below it. *)
LEMMA FirstOfMany ==
    ASSUME NEW S \in SUBSET Seq(Nat), IsFiniteSet(S), S # {}
    PROVE  \E x \in S : \A y \in S : ~Less(y, x)
<1> DEFINE Below(x) == {y \in S : Less(y, x)}
           Counts == {Cardinality(Below(x)) : x \in S}
<1>1. \A x \in S : IsFiniteSet(Below(x)) /\ Cardinality(Below(x)) \in Nat
  BY FS_Subset, FS_CardinalityType
<1>2. Counts \in SUBSET Nat /\ Counts # {}
  BY <1>1
<1> HIDE DEF Counts
<1>3. PICK n \in Counts : \A m \in Counts : n <= m
  BY <1>2, Least
<1>4. PICK x \in S : n = Cardinality(Below(x))
  BY DEF Counts
<1>5. ASSUME NEW y \in S, Less(y, x) PROVE FALSE
  <2>1. Below(y) \subseteq Below(x)
    BY <1>5, LessTransitive
  <2>2. y \in Below(x) /\ y \notin Below(y)
    BY <1>5, LessIrreflexive
  <2>3. Cardinality(Below(y)) <= Cardinality(Below(x))
        /\ Cardinality(Below(y)) # Cardinality(Below(x))
    BY <1>1, <2>1, <2>2, FS_Subset
  <2>4. Cardinality(Below(y)) \in Counts
    BY DEF Counts
  <2>5. n <= Cardinality(Below(y))
    BY <1>3, <2>4
  <2>6. n \in Nat /\ Cardinality(Below(y)) \in Nat
    BY <1>1, <1>4
  <2> HIDE DEF Below
  <2> QED BY <1>4, <2>3, <2>5, <2>6
<1> QED BY <1>5

-----------------------------------------------------------------------------
(* The values of the variables in the play p. *)
Codes(p) == {Encode(k) : k \in p.keys}
States(p) == {Missing} \cup {s \in SUBSET Codes(p) : IsFiniteSet(s)}
Views(p) == [Names -> States(p)]
Cursors(p) ==
    [db : p.user, lo : p.keys \cup {None}, hi : p.keys \cup {None}, last : p.keys \cup {None},
     over : BOOLEAN, owed : SUBSET p.keys]
Frames(p) ==
    [call : Operations, at : {"waits", "opens", "runs", "writes", "renames"},
     view : Views(p) \cup {None}, cursor : Cursors(p) \cup {None}, raced : BOOLEAN]

DataInv(p) ==
    /\ p \in Plays /\ play = p
    /\ disk \in Views(p) /\ lock \in Thread \cup {None}
    /\ kept \in [Thread -> SUBSET Nat]
    /\ file \in Secret \cup {None} /\ temporary \in Secret \cup {None}
    /\ known \in [Thread -> Secret \cup {None}] /\ deaths \in 0..MaxDeaths

StackTyped(p) ==
    /\ stack \in [Thread -> Seq(Frames(p))]
    /\ \A t \in Thread : Len(stack[t]) <= Len(p.calls[t])

(* What a walk owes is ahead of it. *)
CursorInv(p, f) ==
    LET c == f.cursor
    IN /\ f.at = "runs"
       /\ \A k \in c.owed : /\ Encode(k) \in f.view[c.db]
                            /\ (c.lo = None \/ ~Before(k, c.lo))
                            /\ (c.hi = None \/ ~Before(c.hi, k))
                            /\ (c.last # None => Before(c.last, k))
       /\ c.over => c.owed = {}

AllAlike(p, d) == \A m, n \in p.user : d[m] = d[n]
UsesOf(p, c) == IF c \in {"rw", "ro", "drop"} THEN p.user ELSE {Storage}

(* What a call f of the thread t knows of the environment: d is on disk, l has the lock, x is *)
(* the file and y what it is written to first.                                                *)
FrameInv(p, t, f, d, l, x, y) ==
    /\ f.at = "runs" => /\ f.call \in {"rw", "ro"} /\ f.view \in Views(p)
                        /\ \A n \in p.user : f.view[n] # Missing
    /\ f.at = "opens" => f.call \in {"ro", "read"}
    /\ Writing(f) => l = t
    /\ f.at = "runs" /\ f.call = "rw" => \A n \in Names \ p.user : f.view[n] = d[n]
    /\ f.at = "runs" /\ f.call = "ro" => AllAlike(p, f.view)
    /\ f.at = "opens" /\ ~f.raced => \A n \in UsesOf(p, f.call) : d[n] # Missing
    /\ f.cursor # None => CursorInv(p, f)
    /\ f.at \in {"writes", "renames"} => x = None
    /\ f.at = "renames" => y \in Secret

StackInv(p) ==
    \A t \in Thread : \A i \in 1..Len(stack[t]) :
        /\ FrameInv(p, t, stack[t][i], disk, lock, file, temporary)
        /\ i < Len(stack[t]) => stack[t][i].at = "runs"

LockInv ==
    \A t \in Thread :
        /\ \A i, j \in 1..Len(stack[t]) : Writing(stack[t][i]) /\ Writing(stack[t][j]) => i = j
        /\ lock = t => \E i \in 1..Len(stack[t]) : Writing(stack[t][i])

KeptInv ==
    \A t \in Thread : \A level \in kept[t] :
        level \in 1..Len(stack[t]) /\ stack[t][level].at = "runs"

Inv(p) ==
    /\ DataInv(p) /\ StackTyped(p) /\ StackInv(p) /\ LockInv /\ KeptInv
    /\ AllAlike(p, disk) /\ OneSecret

-----------------------------------------------------------------------------
(* The assumptions about a play. *)
LEMMA PlayFacts ==
    ASSUME NEW p \in Plays
    PROVE  /\ p.user \subseteq Names /\ Storage \in Names /\ Storage \notin p.user
           /\ p.calls \in [Thread -> Seq(SUBSET Operations)]
           /\ \A k \in p.keys : IsKey(k)
           /\ \A s \in SUBSET Codes(p) : Missing # s
           /\ None \notin Thread \cup Secret
<1>1. p.user \subseteq Names /\ Storage \in Names
  BY DEF Names
<1>2. Storage \notin p.user /\ (\A k \in p.keys : IsKey(k)) /\ None \notin Thread \cup Secret
  BY DatabasesAssumption DEF Thread
<1>3. p.calls \in [Thread -> Seq(SUBSET Operations)]
  BY DatabasesAssumption DEF Thread
<1>4. \A s \in SUBSET Codes(p) : Missing # s
  BY MissingAssumption DEF Codes
<1> QED BY <1>1, <1>2, <1>3, <1>4

(* Codes of different keys differ, and sets of keys stay sets of keys of the play.             *)
LEMMA CodesApart ==
    ASSUME NEW p \in Plays, NEW a \in p.keys, NEW b \in p.keys, Encode(a) = Encode(b)
    PROVE  a = b
BY PlayFacts, Decoded

LEMMA StatesGrow ==
    ASSUME NEW p \in Plays, NEW s \in States(p), s # Missing, NEW c \in Codes(p)
    PROVE  /\ s \cup {c} \in States(p) /\ s \cup {c} # Missing
           /\ s \ {c} \in States(p) /\ s \ {c} # Missing
<1>1. s \in SUBSET Codes(p) /\ IsFiniteSet(s)
  BY DEF States
<1>2. IsFiniteSet(s \cup {c}) /\ IsFiniteSet(s \ {c})
  BY <1>1, FS_AddElement, FS_RemoveElement
<1> QED BY <1>1, <1>2, PlayFacts DEF States

LEMMA EmptyState == ASSUME NEW p \in Plays PROVE {} \in States(p) /\ {} # Missing
BY PlayFacts, FS_EmptySet DEF States

(* A stack that a call is put on, *)
LEMMA Pushed ==
    ASSUME NEW p, StackTyped(p), NEW t \in Thread, NEW f \in Frames(p),
           Len(stack[t]) < Len(p.calls[t]), p.calls[t] \in Seq(SUBSET Operations),
           stack' = [stack EXCEPT ![t] = Append(@, f)]
    PROVE  /\ StackTyped(p)' /\ \A s \in Thread : s # t => stack'[s] = stack[s]
           /\ Len(stack'[t]) = Len(stack[t]) + 1
           /\ \A i \in 1..Len(stack[t]) : stack'[t][i] = stack[t][i]
           /\ stack'[t][Len(stack[t]) + 1] = f
<1>1. stack[t] \in Seq(Frames(p)) /\ stack'[t] = Append(stack[t], f)
  BY DEF StackTyped
<1>2. \A s \in Thread : s # t => stack'[s] = stack[s]
  BY DEF StackTyped
<1>3. Append(stack[t], f) \in Seq(Frames(p)) /\ Len(Append(stack[t], f)) = Len(stack[t]) + 1
  BY <1>1
<1>4. stack' \in [Thread -> Seq(Frames(p))]
  BY <1>3 DEF StackTyped
<1>5. Len(stack[t]) + 1 <= Len(p.calls[t])
  BY <1>1
<1> QED BY <1>1, <1>2, <1>3, <1>4, <1>5 DEF StackTyped

(* whose inmost call changes, *)
LEMMA Changed ==
    ASSUME NEW p, StackTyped(p), NEW t \in Thread, NEW f \in Frames(p), stack[t] # <<>>,
           stack' = Change(t, f)
    PROVE  /\ StackTyped(p)' /\ \A s \in Thread : s # t => stack'[s] = stack[s]
           /\ Len(stack'[t]) = Len(stack[t]) /\ Len(stack[t]) \in 1..Len(stack[t])
           /\ \A i \in 1..Len(stack[t]) :
                  stack'[t][i] = IF i = Len(stack[t]) THEN f ELSE stack[t][i]
<1> DEFINE n == Len(stack[t])
<1>1. stack[t] \in Seq(Frames(p)) /\ n \in Nat /\ n \in 1..n
  BY DEF StackTyped
<1>2. stack' = [stack EXCEPT ![t] = [stack[t] EXCEPT ![n] = f]]
  BY DEF Change
<1>3. stack'[t] = [stack[t] EXCEPT ![n] = f]
  BY <1>2 DEF StackTyped
<1>4. [stack[t] EXCEPT ![n] = f] \in Seq(Frames(p)) /\ Len([stack[t] EXCEPT ![n] = f]) = n
  BY <1>1
<1>5. \A s \in Thread : s # t => stack'[s] = stack[s]
  BY <1>2 DEF StackTyped
<1>6. stack' \in [Thread -> Seq(Frames(p))]
  BY <1>2, <1>4 DEF StackTyped
<1>7. \A i \in 1..n : stack'[t][i] = IF i = n THEN f ELSE stack[t][i]
  BY <1>1, <1>3
<1> QED BY <1>1, <1>3, <1>4, <1>5, <1>6, <1>7 DEF StackTyped

(* and whose inmost call is over. *)
LEMMA PopFacts ==
    ASSUME NEW p, StackTyped(p), NEW t \in Thread, stack[t] # <<>>
    PROVE  /\ Pop(t) \in [Thread -> Seq(Frames(p))]
           /\ \A s \in Thread : s # t => Pop(t)[s] = stack[s]
           /\ Len(Pop(t)[t]) = Len(stack[t]) - 1 /\ Len(stack[t]) \in 1..Len(stack[t])
           /\ \A i \in 1..(Len(stack[t]) - 1) : Pop(t)[t][i] = stack[t][i]
<1> DEFINE n == Len(stack[t])
<1>1. stack[t] \in Seq(Frames(p)) /\ n \in Nat /\ n \in 1..n
  BY DEF StackTyped
<1>2. Pop(t) = [stack EXCEPT ![t] = SubSeq(stack[t], 1, n - 1)]
  BY DEF Pop, Down
<1>3. /\ SubSeq(stack[t], 1, n - 1) \in Seq(Frames(p)) /\ Len(SubSeq(stack[t], 1, n - 1)) = n - 1
      /\ \A i \in 1..(n - 1) : SubSeq(stack[t], 1, n - 1)[i] = stack[t][i]
  BY <1>1
<1>4. Pop(t)[t] = SubSeq(stack[t], 1, n - 1) /\ \A s \in Thread : s # t => Pop(t)[s] = stack[s]
  BY <1>2 DEF StackTyped
<1>5. Pop(t) \in [Thread -> Seq(Frames(p))]
  BY <1>2, <1>3 DEF StackTyped
<1> QED BY <1>1, <1>3, <1>4, <1>5

LEMMA Popped ==
    ASSUME NEW p, StackTyped(p), NEW t \in Thread, stack[t] # <<>>, stack' = Pop(t)
    PROVE  /\ StackTyped(p)' /\ \A s \in Thread : s # t => stack'[s] = stack[s]
           /\ Len(stack'[t]) = Len(stack[t]) - 1 /\ Len(stack[t]) \in 1..Len(stack[t])
           /\ \A i \in 1..(Len(stack[t]) - 1) : stack'[t][i] = stack[t][i]
<1>1. Len(stack[t]) \in Nat
  BY DEF StackTyped
<1>2. Len(stack[t]) <= Len(p.calls[t]) => Len(stack[t]) - 1 <= Len(p.calls[t])
  BY <1>1
<1> QED BY <1>1, <1>2, PopFacts DEF StackTyped

-----------------------------------------------------------------------------
(* What is written in a step that is not of a call does not concern it: a call that does not  *)
(* write knows little of the environment, and one that does has the lock to itself.           *)
RestInv(p, t) ==
    \A s \in Thread : \A i \in 1..Len(stack[s]) :
        s # t \/ i # Len(stack[t]) =>
            FrameInv(p, s, stack[s][i], disk', lock', file', temporary')

Makes(d, e) == \A n \in Names : d[n] # Missing => e[n] # Missing

(* Nothing but the calls changes. *)
LEMMA RestSame ==
    ASSUME NEW p, NEW t, StackInv(p), UNCHANGED <<disk, lock, file, temporary>>
    PROVE  RestInv(p, t)
BY DEF RestInv, StackInv

(* A call that does not write holds on to nothing of the environment but what is made, *)
LEMMA Onlooker ==
    ASSUME NEW p \in Plays, NEW t, NEW f \in Frames(p), ~Writing(f),
           NEW d, NEW l, NEW x, NEW y, NEW e, NEW m, NEW v, NEW w, Makes(d, e),
           FrameInv(p, t, f, d, l, x, y)
    PROVE  FrameInv(p, t, f, e, m, v, w)
<1>1. \A n \in UsesOf(p, f.call) : n \in Names
  BY PlayFacts DEF UsesOf
<1> QED BY <1>1 DEF FrameInv, Makes, Writing

(* so that whoever takes a free lock disturbs nobody, *)
LEMMA RestFree ==
    ASSUME NEW p, NEW t, DataInv(p), StackTyped(p), StackInv(p), lock = None, Makes(disk, disk')
    PROVE  RestInv(p, t)
<1> SUFFICES ASSUME NEW s \in Thread, NEW i \in 1..Len(stack[s])
             PROVE  FrameInv(p, s, stack[s][i], disk', lock', file', temporary')
  BY DEF RestInv
<1>1. FrameInv(p, s, stack[s][i], disk, lock, file, temporary)
  BY DEF StackInv
<1>2. stack[s][i] \in Frames(p)
  BY DEF StackTyped
<1>3. ~Writing(stack[s][i])
  BY <1>1, PlayFacts DEF FrameInv, DataInv
<1> QED BY <1>1, <1>2, <1>3, Onlooker DEF DataInv

(* nor does the one who has it. *)
LEMMA RestOwner ==
    ASSUME NEW p, NEW t \in Thread, DataInv(p), StackTyped(p), StackInv(p), LockInv,
           stack[t] # <<>>, Writing(Top(t)), Makes(disk, disk')
    PROVE  RestInv(p, t)
<1>1. Len(stack[t]) \in 1..Len(stack[t])
  BY DEF StackTyped
<1> SUFFICES ASSUME NEW s \in Thread, NEW i \in 1..Len(stack[s]), s # t \/ i # Len(stack[t])
             PROVE  FrameInv(p, s, stack[s][i], disk', lock', file', temporary')
  BY DEF RestInv
<1>2. /\ FrameInv(p, s, stack[s][i], disk, lock, file, temporary)
      /\ FrameInv(p, t, Top(t), disk, lock, file, temporary)
  BY <1>1 DEF StackInv, Top
<1>3. stack[s][i] \in Frames(p)
  BY DEF StackTyped
<1>4. ~Writing(stack[s][i])
  BY <1>1, <1>2 DEF FrameInv, LockInv, Top
<1> QED BY <1>2, <1>3, <1>4, Onlooker DEF DataInv

(* A call is put on a stack, *)
LEMMA PushKeeps ==
    ASSUME NEW p, DataInv(p), StackTyped(p), StackInv(p), LockInv, KeptInv,
           NEW t \in Thread, NEW c \in Operations,
           stack[t] = <<>> \/ In(t, "runs"), Len(stack[t]) < Len(p.calls[t]),
           stack' = [stack EXCEPT ![t] = Append(@, Call(c))],
           UNCHANGED <<disk, lock, file, temporary, kept>>
    PROVE  StackTyped(p)' /\ StackInv(p)' /\ LockInv' /\ KeptInv'
<1> DEFINE f == Call(c)
<1>1. f \in Frames(p)
  BY DEF Call, Frames
<1>2. FrameInv(p, t, f, disk, lock, file, temporary) /\ ~Writing(f) /\ f.at = "waits"
  BY DEF FrameInv, Call, Writing
<1> HIDE DEF f
<1>3. p.calls[t] \in Seq(SUBSET Operations) /\ stack[t] \in Seq(Frames(p))
  BY PlayFacts DEF DataInv, StackTyped
<1>4. /\ StackTyped(p)' /\ \A s \in Thread : s # t => stack'[s] = stack[s]
      /\ Len(stack'[t]) = Len(stack[t]) + 1
      /\ \A i \in 1..Len(stack[t]) : stack'[t][i] = stack[t][i]
      /\ stack'[t][Len(stack[t]) + 1] = f
  BY <1>1, <1>3, Pushed DEF f
<1>5. \A i \in 1..Len(stack[t]) : stack[t][i].at = "runs"
  <2> TAKE i \in 1..Len(stack[t])
  <2>1. CASE i < Len(stack[t])
    BY <2>1 DEF StackInv
  <2>2. CASE i = Len(stack[t])
    BY <1>3, <2>2 DEF In, Top
  <2> QED BY <1>3, <2>1, <2>2
<1>6. StackInv(p)'
  <2>1. \A s \in Thread : s # t => \A i \in 1..Len(stack'[s]) :
            /\ FrameInv(p, s, stack'[s][i], disk, lock, file, temporary)
            /\ i < Len(stack'[s]) => stack'[s][i].at = "runs"
    BY <1>4 DEF StackInv
  <2>2. \A i \in 1..Len(stack'[t]) :
            /\ FrameInv(p, t, stack'[t][i], disk, lock, file, temporary)
            /\ i < Len(stack'[t]) => stack'[t][i].at = "runs"
    BY <1>2, <1>3, <1>4, <1>5 DEF StackInv
  <2> QED BY <2>1, <2>2 DEF StackInv
<1>7. LockInv'
  <2>1. \A s \in Thread : \A i \in 1..Len(stack'[s]) :
            Writing(stack'[s][i]) => i \in 1..Len(stack[s]) /\ stack'[s][i] = stack[s][i]
    BY <1>2, <1>3, <1>4
  <2>2. \A s \in Thread : \A i \in 1..Len(stack[s]) :
            i \in 1..Len(stack'[s]) /\ stack'[s][i] = stack[s][i]
    BY <1>3, <1>4
  <2> QED BY <2>1, <2>2 DEF LockInv
<1>8. KeptInv'
  BY <1>3, <1>4 DEF KeptInv
<1> QED BY <1>4, <1>6, <1>7, <1>8

(* the inmost call changes, *)
LEMMA ChangeKeeps ==
    ASSUME NEW p, DataInv(p), StackTyped(p), StackInv(p), LockInv, KeptInv,
           NEW t \in Thread, NEW f \in Frames(p), stack[t] # <<>>, stack' = Change(t, f),
           FrameInv(p, t, f, disk', lock', file', temporary'), RestInv(p, t),
           \/ (Writing(f) <=> Writing(Top(t))) /\ lock' = lock
           \/ Writing(f) /\ lock = None /\ lock' = t,
           Top(t).at = "runs" => f.at = "runs",
           \/ kept' = kept
           \/ kept' = [kept EXCEPT ![t] = @ \cup {Len(stack[t])}] /\ f.at = "runs"
    PROVE  StackTyped(p)' /\ StackInv(p)' /\ LockInv' /\ KeptInv'
<1>1. /\ StackTyped(p)' /\ \A s \in Thread : s # t => stack'[s] = stack[s]
      /\ Len(stack'[t]) = Len(stack[t]) /\ Len(stack[t]) \in 1..Len(stack[t])
      /\ \A i \in 1..Len(stack[t]) :
             stack'[t][i] = IF i = Len(stack[t]) THEN f ELSE stack[t][i]
  BY Changed
<1>2. Top(t) = stack[t][Len(stack[t])] /\ Len(stack[t]) \in Nat
  BY <1>1 DEF Top
<1>3. StackInv(p)'
  <2>1. \A s \in Thread : \A i \in 1..Len(stack'[s]) :
            FrameInv(p, s, stack'[s][i], disk', lock', file', temporary')
    BY <1>1, <1>2 DEF RestInv
  <2>2. \A s \in Thread : \A i \in 1..Len(stack'[s]) :
            i < Len(stack'[s]) => stack'[s][i].at = "runs"
    BY <1>1, <1>2 DEF StackInv
  <2> QED BY <2>1, <2>2 DEF StackInv
<1>4. LockInv'
  <2>1. CASE (Writing(f) <=> Writing(Top(t))) /\ lock' = lock
    <3>1. \A s \in Thread : /\ Len(stack'[s]) = Len(stack[s])
                            /\ \A i \in 1..Len(stack[s]) :
                                   Writing(stack'[s][i]) <=> Writing(stack[s][i])
      BY <1>1, <1>2, <2>1
    <3> QED BY <2>1, <3>1 DEF LockInv
  <2>2. CASE Writing(f) /\ lock = None /\ lock' = t
    <3>1. \A s \in Thread : \A i \in 1..Len(stack[s]) : ~Writing(stack[s][i])
      BY <2>2, PlayFacts DEF StackInv, FrameInv, DataInv
    <3> QED BY <1>1, <1>2, <2>2, <3>1 DEF LockInv
  <2> QED BY <2>1, <2>2
<1>5. KeptInv'
  <2>1. \A s \in Thread : \A i \in 1..Len(stack[s]) :
            stack[s][i].at = "runs" => stack'[s][i].at = "runs"
    BY <1>1, <1>2
  <2>2. \A s \in Thread : Len(stack'[s]) = Len(stack[s])
    BY <1>1
  <2>3. CASE kept' = kept
    BY <2>1, <2>2, <2>3 DEF KeptInv
  <2>4. CASE kept' = [kept EXCEPT ![t] = @ \cup {Len(stack[t])}] /\ f.at = "runs"
    <3>1. \A s \in Thread : \A level \in kept'[s] :
              level \in kept[s] \/ (s = t /\ level = Len(stack[t]))
      BY <2>4 DEF DataInv
    <3> QED BY <1>1, <2>1, <2>2, <2>4, <3>1 DEF KeptInv
  <2> QED BY <2>3, <2>4
<1> QED BY <1>1, <1>3, <1>4, <1>5

(* and it is over. *)
LEMMA PopKeeps ==
    ASSUME NEW p, DataInv(p), StackTyped(p), StackInv(p), LockInv, KeptInv,
           NEW t \in Thread, stack[t] # <<>>, stack' = Pop(t), RestInv(p, t),
           \/ ~Writing(Top(t)) /\ lock' = lock
           \/ Writing(Top(t)) /\ lock' = None,
           \/ kept' = kept /\ Top(t).at # "runs"
           \/ kept' = [kept EXCEPT ![t] = @ \ {Len(stack[t])}]
    PROVE  StackTyped(p)' /\ StackInv(p)' /\ LockInv' /\ KeptInv'
<1>1. /\ StackTyped(p)' /\ \A s \in Thread : s # t => stack'[s] = stack[s]
      /\ Len(stack'[t]) = Len(stack[t]) - 1 /\ Len(stack[t]) \in 1..Len(stack[t])
      /\ \A i \in 1..(Len(stack[t]) - 1) : stack'[t][i] = stack[t][i]
  BY Popped
<1>2. Top(t) = stack[t][Len(stack[t])] /\ Len(stack[t]) \in Nat
  BY <1>1 DEF Top
<1>3. \A s \in Thread : \A i \in 1..Len(stack'[s]) :
          /\ i \in 1..Len(stack[s]) /\ stack'[s][i] = stack[s][i]
          /\ s # t \/ i # Len(stack[t])
          /\ i < Len(stack'[s]) => i < Len(stack[s])
  BY <1>1, <1>2
<1>4. StackInv(p)'
  BY <1>3 DEF StackInv, RestInv
<1>5. LockInv'
  <2>1. \A s \in Thread : \A i, j \in 1..Len(stack'[s]) :
            Writing(stack'[s][i]) /\ Writing(stack'[s][j]) => i = j
    BY <1>3 DEF LockInv
  <2>2. CASE ~Writing(Top(t)) /\ lock' = lock
    <3>1. ASSUME NEW s \in Thread, lock = s
          PROVE  \E i \in 1..Len(stack'[s]) : Writing(stack'[s][i])
      <4>1. PICK i \in 1..Len(stack[s]) : Writing(stack[s][i])
        BY <3>1 DEF LockInv
      <4>2. i \in 1..Len(stack'[s]) /\ stack'[s][i] = stack[s][i]
        BY <1>1, <1>2, <2>2, <4>1
      <4> QED BY <4>1, <4>2
    <3> QED BY <2>1, <2>2, <3>1 DEF LockInv
  <2>3. CASE lock' = None
    BY <2>1, <2>3, PlayFacts DEF LockInv, DataInv
  <2> QED BY <2>2, <2>3
<1>6. KeptInv'
  <2>1. \A s \in Thread : \A level \in kept'[s] :
          level \in kept[s] /\ ~(s = t /\ level = Len(stack[t]))
    BY <1>2 DEF DataInv, KeptInv
  <2> QED BY <1>1, <1>2, <2>1 DEF KeptInv
<1> QED BY <1>1, <1>4, <1>5, <1>6

-----------------------------------------------------------------------------
(* What opening makes, and what calls in one transaction leave. *)
LEMMA OpenedFacts ==
    ASSUME NEW p \in Plays, NEW d \in Views(p), NEW names \in {p.user, {Storage}}
    PROVE  /\ Opened(d, names) \in Views(p) /\ Makes(d, Opened(d, names))
           /\ \A n \in names : Opened(d, names)[n] # Missing
           /\ \A n \in Names \ names : Opened(d, names)[n] = d[n]
           /\ AllAlike(p, d) => AllAlike(p, Opened(d, names))
<1>1. names \subseteq Names
  BY PlayFacts
<1>2. \A n \in Names : Opened(d, names)[n] = IF n \in names /\ d[n] = Missing THEN {} ELSE d[n]
  BY DEF Opened
<1>3. Opened(d, names) \in Views(p)
  BY EmptyState DEF Opened, Views
<1>4. AllAlike(p, d) => AllAlike(p, Opened(d, names))
  BY <1>1, <1>2, PlayFacts DEF AllAlike
<1> QED BY <1>1, <1>2, <1>3, <1>4, EmptyState DEF Makes

LEMMA StoredFacts ==
    ASSUME NEW p \in Plays, NEW d \in Views(p), d[Storage] # Missing, NEW k \in Codes(p)
    PROVE  /\ [d EXCEPT ![Storage] = @ \cup {k}] \in Views(p)
           /\ [d EXCEPT ![Storage] = @ \ {k}] \in Views(p)
           /\ AllAlike(p, d) => /\ AllAlike(p, [d EXCEPT ![Storage] = @ \cup {k}])
                                /\ AllAlike(p, [d EXCEPT ![Storage] = @ \ {k}])
<1>1. d[Storage] \in States(p)
  BY PlayFacts DEF Views
<1>2. d[Storage] \cup {k} \in States(p) /\ d[Storage] \ {k} \in States(p)
  BY <1>1, StatesGrow
<1> QED BY <1>2, PlayFacts DEF Views, AllAlike

LEMMA DroppedFacts ==
    ASSUME NEW p \in Plays, NEW d \in Views(p), NEW names \in {p.user, {Storage}}
    PROVE  /\ Dropped(d, names) \in Views(p)
           /\ AllAlike(p, d) => AllAlike(p, Dropped(d, names))
BY PlayFacts DEF Dropped, Views, States, AllAlike

LEMMA AfterFacts ==
    ASSUME NEW p \in Plays, play = p, NEW d \in Views(p), NEW k \in Codes(p), AllAlike(p, d),
           NEW c \in {"drop", "set", "remove", "clear", "put", "erase", "wipe"}
    PROVE  After(c, d, k) \in Views(p) /\ AllAlike(p, After(c, d, k))
<1> DEFINE made == Opened(d, {Storage})
<1>1. made \in Views(p) /\ AllAlike(p, made) /\ made[Storage] # Missing
  BY OpenedFacts
<1>2. CASE c = "drop"
  BY <1>2, DroppedFacts DEF After, User
<1>3. CASE c \in {"clear", "wipe"}
  BY <1>3, DroppedFacts DEF After
<1>4. CASE c = "set"
  <2>1. After(c, d, k) = [made EXCEPT ![Storage] = @ \cup {k}]
    BY <1>4 DEF After
  <2> HIDE DEF made
  <2> QED BY <1>1, <2>1, StoredFacts
<1>5. CASE c = "remove"
  <2>1. After(c, d, k) = [made EXCEPT ![Storage] = @ \ {k}]
    BY <1>5 DEF After
  <2> HIDE DEF made
  <2> QED BY <1>1, <2>1, StoredFacts
<1>6. CASE c = "put"
  <2>1. CASE d[Storage] # Missing
    <3>1. After(c, d, k) = [d EXCEPT ![Storage] = @ \cup {k}]
      BY <1>6, <2>1 DEF After
    <3> QED BY <2>1, <3>1, StoredFacts
  <2>2. CASE d[Storage] = Missing
    BY <1>6, <2>2 DEF After
  <2> QED BY <2>1, <2>2
<1>7. CASE c = "erase"
  <2>1. CASE d[Storage] # Missing
    <3>1. After(c, d, k) = [d EXCEPT ![Storage] = @ \ {k}]
      BY <1>7, <2>1 DEF After
    <3> QED BY <2>1, <3>1, StoredFacts
  <2>2. CASE d[Storage] = Missing
    BY <1>7, <2>2 DEF After
  <2> QED BY <2>1, <2>2
<1> QED BY <1>2, <1>3, <1>4, <1>5, <1>6, <1>7

-----------------------------------------------------------------------------
(* The inmost call of a thread that is in one. *)
LEMMA TopFacts ==
    ASSUME NEW p, Inv(p), NEW t \in Thread, stack[t] # <<>>
    PROVE  /\ Top(t) \in Frames(p) /\ Len(stack[t]) \in 1..Len(stack[t])
           /\ FrameInv(p, t, Top(t), disk, lock, file, temporary)
           /\ Len(stack[t]) \in kept[t] => Top(t).at = "runs"
<1>1. Len(stack[t]) \in 1..Len(stack[t])
  BY DEF Inv, StackTyped
<1>2. Top(t) \in Frames(p)
  BY <1>1 DEF Top, Inv, StackTyped
<1>3. FrameInv(p, t, Top(t), disk, lock, file, temporary)
  BY <1>1 DEF Top, Inv, StackInv
<1> QED BY <1>1, <1>2, <1>3 DEF Top, Inv, KeptInv

(* A thread begins or goes on with a call. *)
LEMMA BeginKeeps == ASSUME NEW p, Inv(p), NEW t \in Thread, Begin(t) PROVE Inv(p)'
<1>1. PICK c \in {"rw", "ro", "drop", "set", "remove", "clear", "read", "put", "erase", "wipe"} :
          May(t, c) /\ stack' = [stack EXCEPT ![t] = Append(@, Call(c))]
  BY DEF Begin
<1>2. c \in Operations /\ Len(stack[t]) < Len(p.calls[t])
  BY <1>1 DEF May, Inv, DataInv, Operations
<1>3. UNCHANGED <<play, disk, lock, kept, file, temporary, known, deaths>>
  BY DEF Begin
<1>4. StackTyped(p)' /\ StackInv(p)' /\ LockInv' /\ KeptInv'
  BY <1>1, <1>2, <1>3, PushKeeps DEF May, Inv
<1> QED BY <1>3, <1>4 DEF Inv, DataInv, AllAlike, OneSecret

LEMMA ReadKeeps == ASSUME NEW p, Inv(p), NEW t \in Thread, Read(t) PROVE Inv(p)'
<1>1. UNCHANGED <<play, disk, lock, kept, file, temporary, deaths>>
  BY DEF Read
<1>2. CASE file # None
  <2>1. known' = [known EXCEPT ![t] = file] /\ UNCHANGED stack
    BY <1>2 DEF Read
  <2>2. DataInv(p)' /\ OneSecret'
    BY <1>1, <2>1 DEF Inv, DataInv, OneSecret
  <2> QED BY <1>1, <2>1, <2>2 DEF Inv, StackTyped, StackInv, LockInv, KeptInv, AllAlike
<1>3. CASE file = None
  <2>1. /\ stack' = [stack EXCEPT ![t] = Append(@, Call("data"))] /\ UNCHANGED known
        /\ "data" \in Operations /\ Len(stack[t]) < Len(p.calls[t]) /\ May(t, "data")
    BY <1>3 DEF Read, May, Inv, DataInv, Operations
  <2>2. StackTyped(p)' /\ StackInv(p)' /\ LockInv' /\ KeptInv'
    BY <1>1, <2>1, PushKeeps DEF May, Inv
  <2> QED BY <1>1, <2>1, <2>2 DEF Inv, DataInv, AllAlike, OneSecret
<1> QED BY <1>2, <1>3

(* A write transaction takes the lock, and makes what is missing. *)
LEMMA BeginWriteKeeps == ASSUME NEW p, Inv(p), NEW t \in Thread, BeginWrite(t) PROVE Inv(p)'
<1> DEFINE f == [Top(t) EXCEPT !.at = "runs", !.view = Opened(disk, User)]
<1>1. /\ stack[t] # <<>> /\ Top(t).at = "waits" /\ Top(t).call = "rw" /\ lock = None /\ lock' = t
      /\ stack' = Change(t, f) /\ kept' = [kept EXCEPT ![t] = @ \cup {Len(stack[t])}]
      /\ UNCHANGED <<play, disk, file, temporary, known, deaths>>
  BY DEF BeginWrite, Calls, In
<1>2. /\ Top(t) \in Frames(p) /\ FrameInv(p, t, Top(t), disk, lock, file, temporary)
      /\ Len(stack[t]) \in 1..Len(stack[t])
  BY <1>1, TopFacts
<1>3. p \in Plays /\ play = p /\ disk \in Views(p)
  BY DEF Inv, DataInv
<1>4. /\ Opened(disk, User) \in Views(p) /\ \A n \in p.user : Opened(disk, User)[n] # Missing
      /\ \A n \in Names \ p.user : Opened(disk, User)[n] = disk[n]
  BY <1>3, OpenedFacts DEF User
<1>5. f \in Frames(p) /\ f.at = "runs" /\ f.call = "rw" /\ f.view = Opened(disk, User)
      /\ f.cursor = Top(t).cursor
  BY <1>1, <1>2, <1>4 DEF Frames
<1>6. f.cursor = None
  BY <1>1, <1>2, <1>5 DEF FrameInv, CursorInv
<1> HIDE DEF f
<1>7. Writing(f) /\ FrameInv(p, t, f, disk', lock', file', temporary')
  BY <1>1, <1>4, <1>5, <1>6 DEF FrameInv, Writing
<1>8. RestInv(p, t)
  BY <1>1, RestFree DEF Inv, Makes
<1>9. StackTyped(p)' /\ StackInv(p)' /\ LockInv' /\ KeptInv'
  BY <1>1, <1>5, <1>7, <1>8, ChangeKeeps DEF Inv
<1>10. kept' \in [Thread -> SUBSET Nat]
  BY <1>1, <1>2 DEF Inv, DataInv
<1> QED BY <1>1, <1>9, <1>10 DEF Inv, DataInv, AllAlike, OneSecret

LEMMA PrepareKeeps == ASSUME NEW p, Inv(p), NEW t \in Thread, Prepare(t) PROVE Inv(p)'
<1> DEFINE f == [Top(t) EXCEPT !.at = "opens"]
           names == Uses(Top(t).call)
<1>1. /\ stack[t] # <<>> /\ Top(t).at = "waits" /\ Top(t).call \in {"ro", "read"} /\ lock = None
      /\ disk' = Opened(disk, names) /\ stack' = Change(t, f)
      /\ UNCHANGED <<play, lock, kept, file, temporary, known, deaths>>
  BY DEF Prepare, Calls, In
<1>2. Top(t) \in Frames(p) /\ FrameInv(p, t, Top(t), disk, lock, file, temporary)
  BY <1>1, TopFacts
<1>3. p \in Plays /\ play = p /\ disk \in Views(p) /\ AllAlike(p, disk)
  BY DEF Inv, DataInv
<1>4. names = UsesOf(p, Top(t).call) /\ names \in {p.user, {Storage}}
  BY <1>3 DEF Uses, UsesOf, User
<1>5. f \in Frames(p) /\ f.at = "opens" /\ f.call = Top(t).call /\ f.cursor = Top(t).cursor
  BY <1>2 DEF Frames
<1>6. f.cursor = None
  BY <1>1, <1>2, <1>5 DEF FrameInv, CursorInv
<1> HIDE DEF f, names
<1>7. /\ disk' \in Views(p) /\ Makes(disk, disk') /\ AllAlike(p, disk')
      /\ \A n \in names : disk'[n] # Missing
  BY <1>1, <1>3, <1>4, OpenedFacts
<1>8. FrameInv(p, t, f, disk', lock', file', temporary')
  BY <1>1, <1>4, <1>5, <1>6, <1>7 DEF FrameInv, Writing
<1>9. RestInv(p, t)
  BY <1>1, <1>7, RestFree DEF Inv
<1>10. StackTyped(p)' /\ StackInv(p)' /\ LockInv' /\ KeptInv'
  BY <1>1, <1>5, <1>8, <1>9, ChangeKeeps DEF Inv, Writing
<1> QED BY <1>1, <1>7, <1>10 DEF Inv, DataInv, AllAlike, OneSecret

(* The databases of a reading call are opened as they are now. *)
LEMMA OpenKeeps == ASSUME NEW p, Inv(p), NEW t \in Thread, Open(t) PROVE Inv(p)'
<1>1. /\ stack[t] # <<>> /\ Top(t).at = "opens"
      /\ UNCHANGED <<play, disk, lock, file, temporary, known, deaths>>
  BY DEF Open, In
<1>2. /\ Top(t) \in Frames(p) /\ FrameInv(p, t, Top(t), disk, lock, file, temporary)
      /\ Len(stack[t]) \in 1..Len(stack[t])
  BY <1>1, TopFacts
<1>3. p \in Plays /\ play = p /\ disk \in Views(p) /\ AllAlike(p, disk)
  BY DEF Inv, DataInv
<1>4. RestInv(p, t)
  BY <1>1, RestSame DEF Inv
<1>5. CASE Top(t).call = "ro" /\ ~Reads(t) /\ \A n \in User : disk[n] # Missing
  <2> DEFINE f == [Top(t) EXCEPT !.at = "runs", !.view = disk, !.raced = FALSE]
  <2>1. stack' = Change(t, f) /\ kept' = [kept EXCEPT ![t] = @ \cup {Len(stack[t])}]
    BY <1>5 DEF Open
  <2>2. /\ f \in Frames(p) /\ f.at = "runs" /\ f.call = "ro" /\ f.view = disk
        /\ f.cursor = Top(t).cursor
    BY <1>2, <1>3, <1>5 DEF Frames
  <2>3. f.cursor = None
    BY <1>1, <1>2, <2>2 DEF FrameInv, CursorInv
  <2> HIDE DEF f
  <2>4. FrameInv(p, t, f, disk', lock', file', temporary')
    BY <1>3, <1>5, <2>2, <2>3 DEF FrameInv, Writing, User
  <2>5. StackTyped(p)' /\ StackInv(p)' /\ LockInv' /\ KeptInv'
    BY <1>1, <1>4, <2>1, <2>2, <2>4, ChangeKeeps DEF Inv, Writing
  <2>6. kept' \in [Thread -> SUBSET Nat]
    BY <1>2, <2>1 DEF Inv, DataInv
  <2> QED BY <1>1, <2>5, <2>6 DEF Inv, DataInv, AllAlike, OneSecret
<1>6. CASE ~(Top(t).call = "ro" /\ ~Reads(t) /\ \A n \in User : disk[n] # Missing)
  <2>1. stack' = Pop(t) /\ UNCHANGED kept
    BY <1>6 DEF Open
  <2>2. ~Writing(Top(t))
    BY <1>1 DEF Writing
  <2>3. StackTyped(p)' /\ StackInv(p)' /\ LockInv' /\ KeptInv'
    BY <1>1, <1>4, <2>1, <2>2, PopKeeps DEF Inv
  <2> QED BY <1>1, <2>1, <2>3 DEF Inv, DataInv, AllAlike, OneSecret
<1> QED BY <1>5, <1>6

(* Use, Each, Show and Stop change the call that runs, and nothing else. *)
LEMMA RunKeeps ==
    ASSUME NEW p, Inv(p), NEW t \in Thread, In(t, "runs"), NEW f \in Frames(p),
           stack' = Change(t, f),
           UNCHANGED <<play, disk, lock, kept, file, temporary, known, deaths>>,
           f.at = "runs", f.call = Top(t).call, f.view \in Views(p),
           \A n \in p.user : f.view[n] # Missing,
           f.call = "rw" => \A n \in Names \ p.user : f.view[n] = Top(t).view[n],
           f.call # "rw" => f.view = Top(t).view,
           f.cursor # None => CursorInv(p, f)
    PROVE  Inv(p)'
<1>1. stack[t] # <<>> /\ Top(t).at = "runs"
  BY DEF In
<1>2. FrameInv(p, t, Top(t), disk, lock, file, temporary)
  BY <1>1, TopFacts
<1>3. Writing(f) <=> Writing(Top(t))
  BY <1>1 DEF Writing
<1>4. FrameInv(p, t, f, disk', lock', file', temporary')
  BY <1>1, <1>2, <1>3 DEF FrameInv
<1>5. RestInv(p, t)
  BY RestSame DEF Inv
<1>6. StackTyped(p)' /\ StackInv(p)' /\ LockInv' /\ KeptInv'
  BY <1>1, <1>3, <1>4, <1>5, ChangeKeeps DEF Inv
<1> QED BY <1>6 DEF Inv, DataInv, AllAlike, OneSecret

(* A walk ends early; a walk begins. *)
LEMMA StopKeeps == ASSUME NEW p, Inv(p), NEW t \in Thread, Stop(t) PROVE Inv(p)'
<1> DEFINE f == [Top(t) EXCEPT !.cursor = None]
<1>1. /\ stack[t] # <<>> /\ In(t, "runs") /\ Top(t).at = "runs" /\ stack' = Change(t, f)
      /\ UNCHANGED <<play, disk, lock, kept, file, temporary, known, deaths>>
  BY DEF Stop, In
<1>2. Top(t) \in Frames(p) /\ FrameInv(p, t, Top(t), disk, lock, file, temporary)
  BY <1>1, TopFacts
<1>3. /\ f \in Frames(p) /\ f.at = "runs" /\ f.call = Top(t).call /\ f.view = Top(t).view
      /\ f.cursor = None
  BY <1>1, <1>2 DEF Frames
<1> HIDE DEF f
<1> QED BY <1>1, <1>2, <1>3, RunKeeps DEF FrameInv

LEMMA EachKeeps == ASSUME NEW p, Inv(p), NEW t \in Thread, Each(t) PROVE Inv(p)'
<1>0. p \in Plays /\ play = p
  BY DEF Inv, DataInv
<1>1. PICK n \in User, lo \in play.keys \cup {None}, hi \in play.keys \cup {None} :
          stack' = Change(t, [Top(t) EXCEPT !.cursor =
             [db |-> n, lo |-> lo, hi |-> hi, last |-> None, over |-> FALSE,
              owed |-> {k \in play.keys :
                          /\ Encode(k) \in Top(t).view[n]
                          /\ lo = None \/ ~Before(k, lo)
                          /\ hi = None \/ ~Before(hi, k)}]])
  BY DEF Each
<1> DEFINE c == [db |-> n, lo |-> lo, hi |-> hi, last |-> None, over |-> FALSE,
                 owed |-> {k \in play.keys :
                          /\ Encode(k) \in Top(t).view[n]
                          /\ lo = None \/ ~Before(k, lo)
                          /\ hi = None \/ ~Before(hi, k)}]
           f == [Top(t) EXCEPT !.cursor = c]
<1>2. /\ stack[t] # <<>> /\ In(t, "runs") /\ Top(t).at = "runs"
      /\ UNCHANGED <<play, disk, lock, kept, file, temporary, known, deaths>>
  BY DEF Each, In
<1>3. Top(t) \in Frames(p) /\ FrameInv(p, t, Top(t), disk, lock, file, temporary)
  BY <1>2, TopFacts
<1>4. c \in Cursors(p)
  BY <1>0 DEF Cursors, User
<1>5. /\ \A k \in c.owed : /\ Encode(k) \in Top(t).view[c.db]
                           /\ (c.lo = None \/ ~Before(k, c.lo))
                           /\ (c.hi = None \/ ~Before(c.hi, k))
      /\ c.last = None /\ ~c.over
  OBVIOUS
<1> HIDE DEF c
<1>6. /\ f \in Frames(p) /\ f.at = "runs" /\ f.call = Top(t).call /\ f.view = Top(t).view
      /\ f.cursor = c
  BY <1>2, <1>3, <1>4 DEF Frames
<1>7. stack' = Change(t, f)
  BY <1>1 DEF c
<1> HIDE DEF f
<1>8. CursorInv(p, f)
  BY <1>5, <1>6 DEF CursorInv
<1> QED BY <1>2, <1>3, <1>6, <1>7, <1>8, RunKeeps DEF FrameInv

(* The function changes a key: what was deleted is owed no more, what is added is not owed.   *)
LEMMA UseKeeps == ASSUME NEW p, Inv(p), NEW t \in Thread, Use(t) PROVE Inv(p)'
<1>0. p \in Plays /\ play = p
  BY DEF Inv, DataInv
<1> DEFINE g == Top(t)
<1>1. PICK n \in p.user, k \in p.keys :
          LET gone == Encode(k) \in g.view[n]
          IN stack' = Change(t,
                [g EXCEPT !.view[n] = IF gone THEN @ \ {Encode(k)} ELSE @ \cup {Encode(k)},
                          !.cursor = IF @ # None /\ gone /\ @.db = n
                                     THEN Disowned(@, k) ELSE @])
  BY <1>0 DEF Use, User
<1>2. /\ stack[t] # <<>> /\ In(t, "runs") /\ g.at = "runs" /\ g.call = "rw"
      /\ UNCHANGED <<play, disk, lock, kept, file, temporary, known, deaths>>
  BY DEF Use, In
<1>3. g \in Frames(p) /\ FrameInv(p, t, g, disk, lock, file, temporary)
  BY <1>2, TopFacts
<1> HIDE DEF g
<1>4. g.view \in Views(p) /\ \A m \in p.user : g.view[m] # Missing
  BY <1>2, <1>3 DEF FrameInv
<1> DEFINE gone == Encode(k) \in g.view[n]
           v == [g.view EXCEPT ![n] = IF gone THEN @ \ {Encode(k)} ELSE @ \cup {Encode(k)}]
           e == IF g.cursor # None /\ gone /\ g.cursor.db = n
                THEN Disowned(g.cursor, k) ELSE g.cursor
           f == [g EXCEPT !.view = v, !.cursor = e]
           h == [g EXCEPT !.view[n] = IF gone THEN @ \ {Encode(k)} ELSE @ \cup {Encode(k)},
                          !.cursor = IF @ # None /\ gone /\ @.db = n
                                     THEN Disowned(@, k) ELSE @]
<1>5. stack' = Change(t, f)
  <2>1. h = f
    BY <1>3 DEF Frames
  <2>2. stack' = Change(t, h)
    BY <1>1
  <2> HIDE DEF h, f
  <2> QED BY <2>1, <2>2
<1>6. n \in Names /\ Encode(k) \in Codes(p) /\ g.view[n] \in States(p) /\ g.view[n] # Missing
  BY <1>0, <1>4, PlayFacts DEF Views, Codes
<1>7. v \in Views(p) /\ \A m \in p.user : v[m] # Missing
  BY <1>0, <1>4, <1>6, StatesGrow DEF Views
<1>8. \A m \in Names : v[m] = IF m # n THEN g.view[m]
                             ELSE IF gone THEN g.view[n] \ {Encode(k)}
                             ELSE g.view[n] \cup {Encode(k)}
  BY <1>4, <1>6 DEF Views
<1>9. g.cursor \in Cursors(p) \cup {None}
  BY <1>3 DEF Frames
<1>10. ASSUME g.cursor # None
       PROVE  /\ e \in Cursors(p) /\ e.db = g.cursor.db /\ e.lo = g.cursor.lo
              /\ e.hi = g.cursor.hi /\ e.last = g.cursor.last /\ e.over = g.cursor.over
              /\ e.owed = IF gone /\ g.cursor.db = n THEN g.cursor.owed \ {k} ELSE g.cursor.owed
  BY <1>9, <1>10 DEF Cursors, Disowned
<1>11. g.cursor = None => e = None
  OBVIOUS
<1> HIDE DEF v, e
<1>12. /\ f \in Frames(p) /\ f.at = "runs" /\ f.call = "rw" /\ f.view = v /\ f.cursor = e
  BY <1>2, <1>3, <1>7, <1>9, <1>10, <1>11 DEF Frames
<1> HIDE DEF f
<1>13. ASSUME f.cursor # None PROVE CursorInv(p, f)
  <2>1. g.cursor # None /\ g.cursor \in Cursors(p) /\ CursorInv(p, g)
    BY <1>3, <1>9, <1>11, <1>12, <1>13 DEF FrameInv
  <2>2. \A j \in e.owed : Encode(j) \in v[e.db]
    <3> TAKE j \in e.owed
    <3>1. j \in p.keys /\ j \in g.cursor.owed /\ Encode(j) \in g.view[g.cursor.db]
      BY <1>10, <2>1 DEF Cursors, CursorInv
    <3>2. e.db = g.cursor.db /\ e.db \in Names
      BY <1>0, <1>10, <2>1, PlayFacts DEF Cursors
    <3>3. CASE e.db = n /\ gone
      <4>1. j # k
        BY <1>10, <2>1, <3>2, <3>3
      <4>2. Encode(j) # Encode(k)
        BY <1>0, <3>1, <4>1, CodesApart
      <4> QED BY <1>8, <3>1, <3>2, <3>3, <4>2
    <3>4. CASE ~(e.db = n /\ gone)
      BY <1>8, <3>1, <3>2, <3>4
    <3> QED BY <3>3, <3>4
  <2>3. e.owed \subseteq g.cursor.owed
    BY <1>10, <2>1
  <2> QED BY <1>10, <1>12, <2>1, <2>2, <2>3 DEF CursorInv
<1> QED BY <1>2, <1>3, <1>5, <1>6, <1>7, <1>8, <1>12, <1>13, RunKeeps DEF FrameInv, g

(* The walk goes to the first of the keys that are ahead of it: every other key that it owes  *)
(* is behind that one, and if there is none ahead it owes none.                               *)
LEMMA ShowKeeps == ASSUME NEW p, Inv(p), NEW t \in Thread, Show(t) PROVE Inv(p)'
<1> DEFINE g == Top(t)
           c == g.cursor
           next == Ahead(c, g.view[c.db])
           x == CHOOSE x \in next : \A y \in next : ~Less(y, x)
           e == IF next = {} THEN [c EXCEPT !.over = TRUE] ELSE Shown(c, Decode(x))
           f == [g EXCEPT !.cursor = e]
<1>1. /\ stack[t] # <<>> /\ In(t, "runs") /\ g.at = "runs" /\ c # None /\ ~c.over
      /\ stack' = Change(t, f)
      /\ UNCHANGED <<play, disk, lock, kept, file, temporary, known, deaths>>
  BY DEF Show, In
<1>2. g \in Frames(p) /\ FrameInv(p, t, g, disk, lock, file, temporary)
  BY <1>1, TopFacts
<1>3. p \in Plays /\ play = p
  BY DEF Inv, DataInv
<1> HIDE DEF g
<1>4. c \in Cursors(p) /\ CursorInv(p, g)
  BY <1>1, <1>2 DEF Frames, FrameInv
<1>5. g.view \in Views(p) /\ \A m \in p.user : g.view[m] # Missing
  BY <1>1, <1>2 DEF FrameInv
<1>6. g.view[c.db] \in SUBSET Codes(p) /\ IsFiniteSet(g.view[c.db])
  BY <1>3, <1>4, <1>5, PlayFacts DEF Views, States, Cursors
<1>7. next \subseteq g.view[c.db] /\ IsFiniteSet(next) /\ next \in SUBSET Codes(p)
  BY <1>6, FS_Subset DEF Ahead
<1>8. \A b \in Codes(p) : b \in Seq(Nat) /\ \E k \in p.keys : IsKey(k) /\ b = Encode(k)
  BY <1>3, PlayFacts, Coded DEF Codes
<1>9. \A k \in c.owed : k \in p.keys /\ IsKey(k) /\ Encode(k) \in next
  <2> TAKE k \in c.owed
  <2>1. /\ k \in p.keys /\ Encode(k) \in g.view[c.db]
        /\ (c.lo = None \/ ~Before(k, c.lo)) /\ (c.hi = None \/ ~Before(c.hi, k))
        /\ (c.last # None => Before(c.last, k))
    BY <1>4 DEF Cursors, CursorInv
  <2>2. /\ IsKey(k) /\ (c.lo # None => IsKey(c.lo)) /\ (c.hi # None => IsKey(c.hi))
        /\ (c.last # None => IsKey(c.last))
    BY <1>3, <1>4, <2>1, PlayFacts DEF Cursors
  <2>3. /\ (c.lo = None \/ ~Less(Encode(k), Encode(c.lo)))
        /\ (c.hi = None \/ ~Less(Encode(c.hi), Encode(k)))
        /\ (c.last = None \/ Less(Encode(c.last), Encode(k)))
    BY <2>1, <2>2, Ordered
  <2> QED BY <2>1, <2>2, <2>3 DEF Ahead
<1> HIDE DEF next, c
<1>10. CASE next = {}
  <2>1. e = [c EXCEPT !.over = TRUE]
    BY <1>10
  <2>2. /\ e \in Cursors(p) /\ e.db = c.db /\ e.lo = c.lo /\ e.hi = c.hi /\ e.last = c.last
        /\ e.owed = c.owed
    BY <1>4, <2>1 DEF Cursors
  <2> HIDE DEF e
  <2>3. f \in Frames(p) /\ f.at = "runs" /\ f.call = g.call /\ f.view = g.view /\ f.cursor = e
    BY <1>1, <1>2, <2>2 DEF Frames
  <2> HIDE DEF f
  <2>4. c.owed = {}
    BY <1>9, <1>10
  <2>5. CursorInv(p, f)
    BY <2>2, <2>3, <2>4 DEF CursorInv
  <2> QED BY <1>1, <1>2, <1>5, <2>3, <2>5, RunKeeps DEF g, FrameInv
<1>11. CASE next # {}
  <2>1. x \in next /\ \A y \in next : ~Less(y, x)
    BY <1>7, <1>8, <1>11, FirstOfMany
  <2> HIDE DEF x
  <2>2. PICK j \in p.keys : IsKey(j) /\ x = Encode(j)
    BY <1>7, <1>8, <2>1
  <2>3. Decode(x) = j
    BY <2>2, Decoded
  <2>4. e = Shown(c, j)
    BY <1>11, <2>3
  <2>5. /\ e \in Cursors(p) /\ e.db = c.db /\ e.lo = c.lo /\ e.hi = c.hi /\ e.last = j
        /\ e.owed = c.owed \ {j} /\ e.over = c.over
    BY <1>4, <2>2, <2>4 DEF Cursors, Shown, Disowned
  <2> HIDE DEF e
  <2>6. f \in Frames(p) /\ f.at = "runs" /\ f.call = g.call /\ f.view = g.view /\ f.cursor = e
    BY <1>1, <1>2, <2>5 DEF Frames
  <2> HIDE DEF f
  <2>7. \A k \in e.owed : Before(j, k)
    <3> TAKE k \in e.owed
    <3>1. k \in c.owed /\ k # j /\ IsKey(k) /\ Encode(k) \in next
      BY <1>9, <2>5
    <3>2. Encode(k) # Encode(j)
      BY <2>2, <3>1, Decoded
    <3>3. Encode(k) \in Seq(Nat) /\ Encode(j) \in Seq(Nat)
      BY <2>2, <3>1, Coded
    <3>4. Less(Encode(j), Encode(k))
      BY <2>1, <2>2, <3>1, <3>2, <3>3, LessTotal
    <3> QED BY <2>2, <3>1, <3>4, Ordered
  <2>8. CursorInv(p, f)
    BY <1>1, <1>4, <2>5, <2>6, <2>7 DEF CursorInv, c
  <2> QED BY <1>1, <1>2, <1>5, <2>6, <2>8, RunKeeps DEF g, FrameInv
<1> QED BY <1>10, <1>11

(* A transaction ends: what it wrote is on disk, and it had the lock. *)
LEMMA FinishKeeps == ASSUME NEW p, Inv(p), NEW t \in Thread, Finish(t) PROVE Inv(p)'
<1> DEFINE f == Top(t)
<1>1. PICK threw \in BOOLEAN :
          (~threw => f.cursor = None /\ InStep(f.view)) /\ disk' = Outcome(f, threw)
  BY DEF Finish
<1>2. /\ stack[t] # <<>> /\ f.at = "runs"
      /\ lock' = (IF f.call = "rw" THEN None ELSE lock)
      /\ kept' = [kept EXCEPT ![t] = @ \ {Len(stack[t])}] /\ stack' = Pop(t)
      /\ UNCHANGED <<play, file, temporary, known, deaths>>
  BY DEF Finish, In, Closed
<1>3. FrameInv(p, t, f, disk, lock, file, temporary)
  BY <1>2, TopFacts
<1>4. p \in Plays /\ play = p /\ disk \in Views(p) /\ AllAlike(p, disk)
  BY DEF Inv, DataInv
<1> HIDE DEF f
<1>5. kept' \in [Thread -> SUBSET Nat]
  BY <1>2 DEF Inv, DataInv
<1>6. CASE f.call = "rw"
  <2>1. Writing(f) /\ lock' = None
    BY <1>2, <1>6 DEF Writing
  <2>2. disk' \in Views(p) /\ Makes(disk, disk') /\ AllAlike(p, disk')
    <3>1. CASE threw
      BY <1>1, <1>4, <3>1 DEF Outcome, Makes
    <3>2. CASE ~threw
      <4>1. disk' = f.view /\ InStep(f.view)
        BY <1>1, <1>6, <3>2 DEF Outcome
      <4>2. /\ f.view \in Views(p) /\ (\A n \in p.user : f.view[n] # Missing)
            /\ \A n \in Names \ p.user : f.view[n] = disk[n]
        BY <1>2, <1>3, <1>6 DEF FrameInv
      <4> QED BY <1>4, <4>1, <4>2 DEF Makes, AllAlike, InStep, User
    <3> QED BY <3>1, <3>2
  <2>3. RestInv(p, t)
    BY <1>2, <2>1, <2>2, RestOwner DEF Inv, f
  <2>4. StackTyped(p)' /\ StackInv(p)' /\ LockInv' /\ KeptInv'
    BY <1>2, <2>1, <2>3, PopKeeps DEF Inv, f
  <2> QED BY <1>2, <1>5, <2>1, <2>2, <2>4 DEF Inv, DataInv, AllAlike, OneSecret
<1>7. CASE f.call # "rw"
  <2>1. ~Writing(f) /\ lock' = lock /\ disk' = disk
    BY <1>1, <1>2, <1>7 DEF Writing, Outcome
  <2>2. RestInv(p, t)
    BY <1>2, <2>1, RestSame DEF Inv
  <2>3. StackTyped(p)' /\ StackInv(p)' /\ LockInv' /\ KeptInv'
    BY <1>2, <2>1, <2>2, PopKeeps DEF Inv, f
  <2> QED BY <1>2, <1>5, <2>1, <2>3 DEF Inv, DataInv, AllAlike, OneSecret
<1> QED BY <1>6, <1>7

-----------------------------------------------------------------------------
(* The file: who makes it has the lock and found none. *)
LEMMA ReadAgainKeeps == ASSUME NEW p, Inv(p), NEW t \in Thread, ReadAgain(t) PROVE Inv(p)'
<1>1. /\ stack[t] # <<>> /\ Top(t).at = "waits" /\ Top(t).call = "data" /\ lock = None
      /\ UNCHANGED <<play, disk, kept, file, temporary, deaths>>
  BY DEF ReadAgain, Calls, In
<1>2. Top(t) \in Frames(p) /\ FrameInv(p, t, Top(t), disk, lock, file, temporary)
  BY <1>1, TopFacts
<1>3. RestInv(p, t)
  BY <1>1, RestFree DEF Inv, Makes
<1>4. CASE file # None
  <2>1. known' = [known EXCEPT ![t] = file] /\ stack' = Pop(t) /\ UNCHANGED lock
    BY <1>4 DEF ReadAgain
  <2>2. StackTyped(p)' /\ StackInv(p)' /\ LockInv' /\ KeptInv'
    BY <1>1, <1>3, <2>1, PopKeeps DEF Inv, Writing
  <2>3. DataInv(p)' /\ OneSecret'
    BY <1>1, <2>1 DEF Inv, DataInv, OneSecret
  <2> QED BY <1>1, <2>2, <2>3 DEF Inv, AllAlike
<1>5. CASE file = None
  <2> DEFINE f == [Top(t) EXCEPT !.at = "writes"]
  <2>1. lock' = t /\ stack' = Change(t, f) /\ UNCHANGED known
    BY <1>5 DEF ReadAgain
  <2>2. f \in Frames(p) /\ f.at = "writes" /\ f.cursor = Top(t).cursor
    BY <1>2 DEF Frames
  <2>3. f.cursor = None
    BY <1>1, <1>2, <2>2 DEF FrameInv, CursorInv
  <2> HIDE DEF f
  <2>4. Writing(f) /\ FrameInv(p, t, f, disk', lock', file', temporary')
    BY <1>1, <1>5, <2>1, <2>2, <2>3 DEF FrameInv, Writing
  <2>5. StackTyped(p)' /\ StackInv(p)' /\ LockInv' /\ KeptInv'
    BY <1>1, <1>3, <2>1, <2>2, <2>4, ChangeKeeps DEF Inv
  <2> QED BY <1>1, <2>1, <2>5 DEF Inv, DataInv, AllAlike, OneSecret
<1> QED BY <1>4, <1>5

LEMMA WriteKeeps == ASSUME NEW p, Inv(p), NEW t \in Thread, Write(t) PROVE Inv(p)'
<1> DEFINE f == [Top(t) EXCEPT !.at = "renames"]
<1>1. /\ stack[t] # <<>> /\ Top(t).at = "writes" /\ temporary' \in Secret
      /\ stack' = Change(t, f)
      /\ UNCHANGED <<play, disk, lock, kept, file, known, deaths>>
  BY DEF Write, In
<1>2. Top(t) \in Frames(p) /\ FrameInv(p, t, Top(t), disk, lock, file, temporary)
  BY <1>1, TopFacts
<1>3. Writing(Top(t)) /\ lock = t
  BY <1>1, <1>2 DEF Writing, FrameInv
<1>4. f \in Frames(p) /\ f.at = "renames" /\ f.cursor = Top(t).cursor
  BY <1>2 DEF Frames
<1>5. f.cursor = None
  BY <1>1, <1>2, <1>4 DEF FrameInv, CursorInv
<1> HIDE DEF f
<1>6. Writing(f) /\ FrameInv(p, t, f, disk', lock', file', temporary')
  BY <1>1, <1>2, <1>3, <1>4, <1>5 DEF FrameInv, Writing
<1>7. RestInv(p, t)
  BY <1>1, <1>3, RestOwner DEF Inv, Makes
<1>8. StackTyped(p)' /\ StackInv(p)' /\ LockInv' /\ KeptInv'
  BY <1>1, <1>3, <1>4, <1>6, <1>7, ChangeKeeps DEF Inv
<1> QED BY <1>1, <1>8 DEF Inv, DataInv, AllAlike, OneSecret

(* The making ends, with the file or without it. *)
LEMMA RenameKeeps == ASSUME NEW p, Inv(p), NEW t \in Thread, Rename(t) PROVE Inv(p)'
<1>1. /\ stack[t] # <<>> /\ Top(t).at = "renames" /\ file' = temporary /\ temporary' = None
      /\ known' = [known EXCEPT ![t] = temporary] /\ lock' = None /\ stack' = Pop(t)
      /\ UNCHANGED <<play, disk, kept, deaths>>
  BY DEF Rename, In
<1>2. FrameInv(p, t, Top(t), disk, lock, file, temporary)
  BY <1>1, TopFacts
<1>3. Writing(Top(t)) /\ file = None /\ temporary \in Secret
  BY <1>1, <1>2 DEF Writing, FrameInv
<1>4. RestInv(p, t)
  BY <1>1, <1>3, RestOwner DEF Inv, Makes
<1>5. StackTyped(p)' /\ StackInv(p)' /\ LockInv' /\ KeptInv'
  BY <1>1, <1>3, <1>4, PopKeeps DEF Inv
<1>6. DataInv(p)' /\ OneSecret'
  BY <1>1, <1>3 DEF Inv, DataInv, OneSecret
<1> QED BY <1>1, <1>5, <1>6 DEF Inv, AllAlike

LEMMA FailKeeps == ASSUME NEW p, Inv(p), NEW t \in Thread, Fail(t) PROVE Inv(p)'
<1>1. /\ stack[t] # <<>> /\ Top(t).at \in {"writes", "renames"}
      /\ temporary' = None /\ lock' = None /\ stack' = Pop(t)
      /\ UNCHANGED <<play, disk, kept, file, known, deaths>>
  BY DEF Fail, In
<1>2. Writing(Top(t)) /\ Top(t).at # "runs"
  BY <1>1 DEF Writing
<1>3. RestInv(p, t)
  BY <1>1, <1>2, RestOwner DEF Inv, Makes
<1>4. StackTyped(p)' /\ StackInv(p)' /\ LockInv' /\ KeptInv'
  BY <1>1, <1>2, <1>3, PopKeeps DEF Inv
<1> QED BY <1>1, <1>4 DEF Inv, DataInv, AllAlike, OneSecret

-----------------------------------------------------------------------------
(* Who was about to open what is gone is told so, and nothing else. *)
LEMMA RacedFacts ==
    ASSUME NEW p, NEW S \in [Thread -> Seq(Frames(p))], NEW d
    PROVE  /\ Raced(S, d) \in [Thread -> Seq(Frames(p))]
           /\ \A s \in Thread :
                /\ Len(Raced(S, d)[s]) = Len(S[s])
                /\ \A i \in 1..Len(S[s]) :
                     LET f == S[s][i]
                         g == Raced(S, d)[s][i]
                     IN /\ g \in Frames(p) /\ g.call = f.call /\ g.at = f.at
                        /\ g.view = f.view /\ g.cursor = f.cursor
                        /\ i = Len(S[s]) /\ g.at = "opens" /\ ~g.raced =>
                               \A n \in Uses(g.call) : d[n] # Missing
<1> DEFINE R(s) == Raced(S, d)[s]
           n(s) == Len(S[s])
           Gone(s) == /\ S[s] # <<>> /\ S[s][n(s)].at = "opens"
                      /\ \E m \in Uses(S[s][n(s)].call) : d[m] = Missing
           Told(s) == [S[s][n(s)] EXCEPT !.raced = TRUE]
<1>1. \A s \in Thread : R(s) = IF Gone(s) THEN [S[s] EXCEPT ![n(s)] = Told(s)] ELSE S[s]
  BY DEF Raced
<1>2. Raced(S, d) = [s \in Thread |-> R(s)]
  BY DEF Raced
<1> HIDE DEF R
<1>3. ASSUME NEW s \in Thread
      PROVE  /\ R(s) \in Seq(Frames(p)) /\ Len(R(s)) = n(s)
             /\ \A i \in 1..n(s) :
                  LET f == S[s][i]
                      g == R(s)[i]
                  IN /\ g \in Frames(p) /\ g.call = f.call /\ g.at = f.at
                     /\ g.view = f.view /\ g.cursor = f.cursor
                     /\ i = n(s) /\ g.at = "opens" /\ ~g.raced =>
                            \A m \in Uses(g.call) : d[m] # Missing
  <2>1. S[s] \in Seq(Frames(p)) /\ n(s) \in Nat
    OBVIOUS
  <2>2. CASE ~Gone(s)
    BY <1>1, <2>1, <2>2
  <2>3. CASE Gone(s)
    <3>1. n(s) \in 1..n(s) /\ S[s][n(s)] \in Frames(p)
      BY <2>1, <2>3
    <3> DEFINE g == Told(s)
    <3>2. /\ g \in Frames(p) /\ g.call = S[s][n(s)].call /\ g.at = S[s][n(s)].at
          /\ g.view = S[s][n(s)].view /\ g.cursor = S[s][n(s)].cursor /\ g.raced
      BY <3>1 DEF Frames
    <3>3. R(s) = [S[s] EXCEPT ![n(s)] = g]
      BY <1>1, <2>3
    <3> HIDE DEF g
    <3> QED BY <2>1, <3>1, <3>2, <3>3
  <2> QED BY <2>2, <2>3
<1>4. Raced(S, d) \in [Thread -> Seq(Frames(p))]
  BY <1>2, <1>3
<1> QED BY <1>3, <1>4 DEF R

(* Storage, drop and the requests of the disk thread are transactions of one step. *)
LEMMA OnceKeeps == ASSUME NEW p, Inv(p), NEW t \in Thread, Once(t) PROVE Inv(p)'
<1>1. PICK c \in {"drop", "set", "remove", "clear", "put", "erase", "wipe"}, k \in p.keys :
          Calls(t, c) /\ disk' = After(c, disk, Encode(k))
  BY DEF Once, Inv, DataInv
<1> DEFINE S == Pop(t)
<1>2. /\ stack[t] # <<>> /\ Top(t).at = "waits" /\ lock = None /\ stack' = Raced(S, disk')
      /\ UNCHANGED <<play, lock, kept, file, temporary, known, deaths>>
  BY <1>1 DEF Once, Calls, In
<1>3. p \in Plays /\ play = p /\ disk \in Views(p) /\ AllAlike(p, disk) /\ Encode(k) \in Codes(p)
  BY DEF Inv, DataInv, Codes
<1>4. disk' \in Views(p) /\ AllAlike(p, disk')
  BY <1>1, <1>3, AfterFacts
<1>5. /\ S \in [Thread -> Seq(Frames(p))] /\ \A s \in Thread : Len(S[s]) <= Len(p.calls[s])
      /\ \A s \in Thread : \A i \in 1..Len(S[s]) :
             /\ i \in 1..Len(stack[s]) /\ S[s][i] = stack[s][i]
             /\ s # t \/ i # Len(stack[t])
             /\ i < Len(S[s]) => i < Len(stack[s])
      /\ \A s \in Thread : \A i \in 1..Len(stack[s]) :
             s # t \/ i # Len(stack[t]) => i \in 1..Len(S[s])
  <2> DEFINE m == Len(stack[t])
  <2>1. m \in Nat /\ m \in 1..m /\ StackTyped(p)
    BY <1>2, TopFacts DEF Inv
  <2>2. /\ S \in [Thread -> Seq(Frames(p))] /\ Len(S[t]) = m - 1
        /\ \A i \in 1..(m - 1) : S[t][i] = stack[t][i]
        /\ \A s \in Thread : s # t => S[s] = stack[s]
    BY <1>2, PopFacts, <2>1
  <2> HIDE DEF S
  <2>3. \A s \in Thread : Len(S[s]) <= Len(p.calls[s])
    <3>1. m <= Len(p.calls[t]) /\ Len(p.calls[t]) \in Nat
      BY <2>1, <1>3, PlayFacts DEF StackTyped
    <3>2. Len(S[t]) <= Len(p.calls[t])
      BY <2>1, <2>2, <3>1
    <3> QED BY <2>1, <2>2, <3>2 DEF StackTyped
  <2> QED BY <2>1, <2>2, <2>3
<1> HIDE DEF S
<1>6. /\ stack' \in [Thread -> Seq(Frames(p))]
      /\ \A s \in Thread :
           /\ Len(stack'[s]) = Len(S[s])
           /\ \A i \in 1..Len(S[s]) :
                LET f == S[s][i]
                    g == stack'[s][i]
                IN /\ g \in Frames(p) /\ g.call = f.call /\ g.at = f.at
                   /\ g.view = f.view /\ g.cursor = f.cursor
                   /\ i = Len(S[s]) /\ g.at = "opens" /\ ~g.raced =>
                          \A n \in Uses(g.call) : disk'[n] # Missing
  BY <1>2, <1>5, RacedFacts
<1>7. \A s \in Thread : \A i \in 1..Len(stack[s]) : ~Writing(stack[s][i])
  BY <1>2, PlayFacts DEF Inv, DataInv, StackInv, FrameInv
<1>8. ASSUME NEW s \in Thread, NEW i \in 1..Len(stack'[s])
      PROVE  /\ FrameInv(p, s, stack'[s][i], disk', lock', file', temporary')
             /\ i < Len(stack'[s]) => stack'[s][i].at = "runs"
  <2> DEFINE f == stack[s][i]
             g == stack'[s][i]
  <2>1. /\ i \in 1..Len(S[s]) /\ i \in 1..Len(stack[s]) /\ S[s][i] = f
        /\ i < Len(S[s]) => i < Len(stack[s])
    BY <1>5, <1>6
  <2>2. /\ g.call = f.call /\ g.at = f.at /\ g.view = f.view /\ g.cursor = f.cursor
        /\ i = Len(S[s]) /\ g.at = "opens" /\ ~g.raced =>
               \A n \in Uses(g.call) : disk'[n] # Missing
    BY <1>6, <2>1
  <2>3. FrameInv(p, s, f, disk, lock, file, temporary) /\ ~Writing(f)
    BY <1>7, <2>1 DEF Inv, StackInv
  <2>4. i < Len(stack'[s]) => g.at = "runs"
    BY <1>6, <2>1, <2>2 DEF Inv, StackInv
  <2>5. g.at = "opens" => i = Len(S[s])
    BY <1>5, <1>6, <2>4
  <2>6. Uses(g.call) = UsesOf(p, g.call)
    BY <1>3 DEF Uses, UsesOf, User
  <2> HIDE DEF f, g
  <2>7. FrameInv(p, s, g, disk', lock', file', temporary')
    BY <2>2, <2>3, <2>5, <2>6 DEF FrameInv, Writing, CursorInv
  <2> QED BY <2>4, <2>7 DEF g
<1>9. StackInv(p)' /\ StackTyped(p)'
  BY <1>5, <1>6, <1>8 DEF StackInv, StackTyped
<1>10. LockInv'
  <2>1. \A s \in Thread : \A i \in 1..Len(stack'[s]) : ~Writing(stack'[s][i])
    <3> TAKE s \in Thread
    <3> TAKE i \in 1..Len(stack'[s])
    <3>1. i \in 1..Len(S[s]) /\ i \in 1..Len(stack[s]) /\ S[s][i] = stack[s][i]
      BY <1>5, <1>6
    <3>2. stack'[s][i].call = stack[s][i].call /\ stack'[s][i].at = stack[s][i].at
      BY <1>6, <3>1
    <3>3. ~Writing(stack[s][i])
      BY <1>7, <3>1
    <3> QED BY <3>2, <3>3 DEF Writing
  <2> QED BY <1>2, <2>1, PlayFacts DEF LockInv, Inv, DataInv
<1>11. KeptInv'
  <2>1. ASSUME NEW s \in Thread, NEW level \in kept[s]
        PROVE  level \in 1..Len(stack'[s]) /\ stack'[s][level].at = "runs"
    <3>1. level \in 1..Len(stack[s]) /\ stack[s][level].at = "runs"
      BY DEF Inv, KeptInv
    <3>2. s # t \/ level # Len(stack[t])
      BY <1>2, <3>1 DEF Top
    <3>3. level \in 1..Len(S[s]) /\ S[s][level] = stack[s][level]
      BY <1>5, <3>1, <3>2
    <3> QED BY <1>6, <3>1, <3>3
  <2> QED BY <1>2, <2>1 DEF KeptInv
<1> QED BY <1>2, <1>4, <1>9, <1>10, <1>11 DEF Inv, DataInv, AllAlike, OneSecret

(* A death takes its stacks, its handles and the lock if it had it. *)
LEMMA DieKeeps == ASSUME NEW p, Inv(p), NEW h \in Process, Die(h) PROVE Inv(p)'
<1> DEFINE its == {t \in Thread : Home[t] = h}
<1>1. /\ lock' = IF lock \in its THEN None ELSE lock
      /\ stack' = [t \in Thread |-> IF t \in its THEN <<>> ELSE stack[t]]
      /\ kept' = [t \in Thread |-> IF t \in its THEN {} ELSE kept[t]]
      /\ known' = [t \in Thread |-> IF t \in its THEN None ELSE known[t]]
      /\ deaths < MaxDeaths /\ deaths' = deaths + 1
      /\ UNCHANGED <<play, disk, file, temporary>>
  BY DEF Die
<1> HIDE DEF its
<1>2. p \in Plays /\ p.calls \in [Thread -> Seq(SUBSET Operations)] /\ None \notin Thread
  BY PlayFacts DEF Inv, DataInv
<1>3. \A t \in Thread : t \in its => stack'[t] = <<>> /\ kept'[t] = {} /\ Len(stack'[t]) = 0
  BY <1>1
<1>4. \A t \in Thread : t \notin its => stack'[t] = stack[t] /\ kept'[t] = kept[t]
  BY <1>1
<1>5. DataInv(p)'
  <2>1. deaths' \in 0..MaxDeaths
    BY <1>1, DatabasesAssumption DEF Inv, DataInv
  <2> QED BY <1>1, <2>1 DEF Inv, DataInv
<1>6. StackTyped(p)'
  <2>1. \A t \in Thread : Len(stack'[t]) <= Len(p.calls[t])
    BY <1>2, <1>3, <1>4 DEF Inv, StackTyped
  <2>2. stack' \in [Thread -> Seq(Frames(p))]
    BY <1>1 DEF Inv, StackTyped
  <2> QED BY <2>1, <2>2 DEF StackTyped
<1>7. StackInv(p)'
  <2>1. ASSUME NEW t \in Thread, NEW i \in 1..Len(stack'[t])
        PROVE  /\ FrameInv(p, t, stack'[t][i], disk', lock', file', temporary')
               /\ i < Len(stack'[t]) => stack'[t][i].at = "runs"
    <3>1. t \notin its /\ stack'[t] = stack[t]
      BY <1>3, <1>4
    <3>2. /\ FrameInv(p, t, stack[t][i], disk, lock, file, temporary)
          /\ i < Len(stack[t]) => stack[t][i].at = "runs"
      BY <3>1 DEF Inv, StackInv
    <3>3. Writing(stack[t][i]) => lock' = t
      BY <1>1, <3>1, <3>2 DEF FrameInv
    <3> QED BY <1>1, <3>1, <3>2, <3>3 DEF FrameInv
  <2> QED BY <2>1 DEF StackInv
<1>8. LockInv'
  <2>1. ASSUME NEW t \in Thread, t \in its
        PROVE  /\ lock' # t
               /\ \A i, j \in 1..Len(stack'[t]) :
                      Writing(stack'[t][i]) /\ Writing(stack'[t][j]) => i = j
    BY <1>1, <1>2, <1>3, <2>1
  <2>2. ASSUME NEW t \in Thread, t \notin its
        PROVE  stack'[t] = stack[t] /\ (lock' = t => lock = t)
    BY <1>1, <1>2, <1>4, <2>2
  <2> QED BY <2>1, <2>2 DEF Inv, LockInv
<1>9. KeptInv'
  BY <1>3, <1>4 DEF Inv, KeptInv
<1>10. OneSecret'
  BY <1>1 DEF Inv, OneSecret
<1> QED BY <1>1, <1>5, <1>6, <1>7, <1>8, <1>9, <1>10 DEF Inv, AllAlike

-----------------------------------------------------------------------------
IInv == \E p \in Plays : Inv(p)

(* The program begins with the invariant, and every step keeps it. *)
LEMMA Begins == ASSUME Init PROVE IInv
<1>1. play \in Plays
  BY DEF Init
<1> DEFINE p == play
<1>2. disk \in Views(p) /\ AllAlike(p, disk)
  BY <1>1, PlayFacts DEF Init, Views, States, AllAlike
<1>3. DataInv(p) /\ OneSecret
  BY <1>1, <1>2, DatabasesAssumption DEF Init, DataInv, OneSecret
<1>4. \A t \in Thread : stack[t] = <<>> /\ Len(stack[t]) = 0 /\ kept[t] = {}
  BY DEF Init
<1>5. StackTyped(p)
  <2>1. p.calls \in [Thread -> Seq(SUBSET Operations)]
    BY <1>1, PlayFacts
  <2>2. \A t \in Thread : Len(stack[t]) <= Len(p.calls[t])
    BY <1>4, <2>1
  <2> QED BY <2>2 DEF Init, StackTyped
<1>6. StackInv(p) /\ KeptInv
  BY <1>4 DEF StackInv, KeptInv
<1>7. LockInv
  BY <1>1, <1>4, PlayFacts DEF Init, LockInv
<1> QED BY <1>1, <1>2, <1>3, <1>5, <1>6, <1>7 DEF IInv, Inv

LEMMA Kept == ASSUME IInv, [Next]_vars PROVE IInv'
<1>1. PICK p \in Plays : Inv(p)
  BY DEF IInv
<1>2. ASSUME NEW t \in Thread, Step(t) PROVE Inv(p)'
  BY <1>1, <1>2, BeginKeeps, BeginWriteKeeps, PrepareKeeps, OpenKeeps, OnceKeeps, UseKeeps,
     EachKeeps, ShowKeeps, StopKeeps, FinishKeeps, ReadKeeps, ReadAgainKeeps, WriteKeeps,
     RenameKeeps, FailKeeps DEF Step
<1>3. ASSUME NEW h \in Process, Die(h) PROVE Inv(p)'
  BY <1>1, <1>3, DieKeeps
<1>4. ASSUME UNCHANGED vars PROVE Inv(p)'
  BY <1>1, <1>4 DEF vars, Inv, DataInv, StackTyped, StackInv, LockInv, KeptInv, AllAlike,
     OneSecret
<1>5. Inv(p)'
  BY <1>2, <1>3, <1>4 DEF Next
<1> QED BY <1>5 DEF IInv

LEMMA SpecInv == Spec => []IInv
<1>1. Init => IInv
  BY Begins
<1>2. IInv /\ [Next]_vars => IInv'
  BY Kept
<1> QED BY <1>1, <1>2, PTL DEF Spec

-----------------------------------------------------------------------------
(* What the invariant says. *)
LEMMA InvSaysOwned == ASSUME IInv PROVE Owned
<1>1. PICK p \in Plays : Inv(p)
  BY DEF IInv
<1>2. play = p /\ p.calls \in [Thread -> Seq(SUBSET Operations)]
  BY <1>1, PlayFacts DEF Inv, DataInv
<1>3. \A t \in Thread : stack[t] \in Seq(Frames(p)) /\ DOMAIN stack[t] = 1..Len(stack[t])
  BY <1>1 DEF Inv, StackTyped
<1>4. TypeOK
  <2> DEFINE All == {Missing} \cup SUBSET {Encode(k) : k \in play.keys}
  <2>1. States(p) \subseteq All
    BY <1>2 DEF States, Codes
  <2> HIDE DEF All
  <2>2. Views(p) \subseteq [Names -> All]
    BY <2>1 DEF Views
  <2>3. \A t \in Thread : \A i \in DOMAIN stack[t] :
            /\ stack[t][i].at \in {"waits", "opens", "runs", "writes", "renames"}
            /\ stack[t][i].view \in [Names -> All] \cup {None}
    <3> TAKE t \in Thread
    <3> TAKE i \in DOMAIN stack[t]
    <3>1. stack[t][i] \in Frames(p)
      BY <1>3
    <3> QED BY <2>2, <3>1 DEF Frames
  <2>4. \A t \in Thread : kept[t] \subseteq 1..Len(play.calls[t])
    <3> TAKE t \in Thread
    <3>1. \A level \in kept[t] : level \in 1..Len(stack[t])
      BY <1>1 DEF Inv, KeptInv
    <3>2. Len(stack[t]) <= Len(p.calls[t]) /\ Len(stack[t]) \in Nat /\ Len(p.calls[t]) \in Nat
      BY <1>1, <1>2, <1>3 DEF Inv, StackTyped
    <3>3. \A level \in 1..Len(stack[t]) : level \in 1..Len(p.calls[t])
      BY <3>2
    <3> QED BY <1>2, <3>1, <3>3
  <2>5. play \in Plays /\ disk \in [Names -> All] /\ lock \in Thread \cup {None}
        /\ {file, temporary} \subseteq Secret \cup {None}
        /\ known \in [Thread -> Secret \cup {None}] /\ deaths \in 0..MaxDeaths
    BY <1>1, <2>2 DEF Inv, DataInv
  <2> QED BY <2>3, <2>4, <2>5 DEF TypeOK, All
<1>5. ASSUME NEW t \in Thread
      PROVE  Cardinality({i \in DOMAIN stack[t] : Writing(stack[t][i])})
               = (IF lock = t THEN 1 ELSE 0)
  <2> DEFINE W == {i \in DOMAIN stack[t] : Writing(stack[t][i])}
  <2>1. CASE lock = t
    <3>1. PICK i \in 1..Len(stack[t]) : Writing(stack[t][i])
      BY <1>1, <2>1 DEF Inv, LockInv
    <3>2. \A j \in 1..Len(stack[t]) : Writing(stack[t][j]) => j = i
      BY <1>1, <3>1 DEF Inv, LockInv
    <3>3. W = {i}
      BY <1>3, <3>1, <3>2
    <3>4. Cardinality({i}) = 1
      BY FS_Singleton
    <3> QED BY <2>1, <3>3, <3>4
  <2>2. CASE lock # t
    <3>1. W = {}
      BY <1>1, <1>3, <2>2 DEF Inv, StackInv, FrameInv
    <3> QED BY <2>2, <3>1, FS_EmptySet
  <2> QED BY <2>1, <2>2
<1>6. \A t \in Thread : \A level \in kept[t] :
          level \in DOMAIN stack[t] /\ stack[t][level].at = "runs"
  BY <1>1, <1>3 DEF Inv, KeptInv
<1> QED BY <1>4, <1>5, <1>6 DEF Owned

LEMMA InvSaysTogether == ASSUME IInv PROVE Together
<1>1. PICK p \in Plays : Inv(p)
  BY DEF IInv
<1>2. play = p
  BY <1>1 DEF Inv, DataInv
<1>3. \A t \in Thread : stack[t] \in Seq(Frames(p)) /\ DOMAIN stack[t] = 1..Len(stack[t])
  BY <1>1 DEF Inv, StackTyped
<1>4. InStep(disk)
  BY <1>1, <1>2 DEF Inv, AllAlike, InStep, User
<1>5. \A t \in Thread : \A i \in DOMAIN stack[t] :
          stack[t][i].call = "ro" /\ stack[t][i].at = "runs" => InStep(stack[t][i].view)
  BY <1>1, <1>2, <1>3 DEF Inv, StackInv, FrameInv, AllAlike, InStep, User
<1>6. ReadersOpen
  <2> SUFFICES ASSUME NEW t \in Thread, In(t, "opens"), ~Top(t).raced
               PROVE  \A n \in Uses(Top(t).call) : disk[n] # Missing
    BY DEF ReadersOpen
  <2>1. FrameInv(p, t, Top(t), disk, lock, file, temporary) /\ Top(t).at = "opens"
    BY <1>1, TopFacts DEF In
  <2> QED BY <1>2, <2>1 DEF FrameInv, Uses, UsesOf, User
<1> QED BY <1>4, <1>5, <1>6 DEF Together

LEMMA InvSaysEachShows == ASSUME IInv PROVE EachShows
<1>1. PICK p \in Plays : Inv(p)
  BY DEF IInv
<1> SUFFICES ASSUME NEW t \in Thread, In(t, "runs"), Top(t).cursor # None
             PROVE  LET c == Top(t).cursor
                    IN /\ c.over => c.owed = {}
                       /\ c.last # None => \A k \in c.owed : Before(c.last, k)
  BY DEF EachShows
<1>2. FrameInv(p, t, Top(t), disk, lock, file, temporary)
  BY <1>1, TopFacts DEF In
<1> QED BY <1>2 DEF FrameInv, CursorInv

-----------------------------------------------------------------------------
(* However calls nest, fail and die in whatever processes, the lock is with the one thread    *)
(* that is in the one write transaction, and no handle outlives its function (Database::tx).  *)
THEOREM LockOwned == Spec => []Owned
<1>1. IInv => Owned
  BY InvSaysOwned
<1> QED BY <1>1, SpecInv, PTL

(* Databases that are changed together are seen together, by whoever reads them, however      *)
(* many there are (Database::tx, DB::open).                                                   *)
THEOREM SeenTogether == Spec => []Together
<1>1. IInv => Together
  BY InvSaysTogether
<1> QED BY <1>1, SpecInv, PTL

(* A walk shows the keys in their order and leaves none out that was there all the time, for  *)
(* numbers of any width and any strings, bounds and changes (Handle::each, encode_key).       *)
THEOREM WalksShowAll == Spec => []EachShows
<1>1. IInv => EachShows
  BY InvSaysEachShows
<1> QED BY <1>1, SpecInv, PTL

(* Nobody ever has another content of the file than the one it has (DB::data).                *)
THEOREM SecretIsOne == Spec => []OneSecret
<1>1. IInv => OneSecret
  BY DEF IInv, Inv
<1> QED BY <1>1, SpecInv, PTL
=============================================================================

------------------------------ MODULE TabsProofs ------------------------------
(* The open books of a page, for any files, titles and kinds, however many books are made and *)
(* requests lost: one book is shown, and a book that is not marked is in its file.  The       *)
(* inductive invariant says what of a file each request under way may still change: a rename  *)
(* that is done has the text under the new name, and a save that is done has it in the file,  *)
(* unless the book is in doubt.                                                               *)
EXTENDS Tabs, TLAPS, FiniteSetTheorems, WellFoundedInduction

IconKinds == BookKinds \cup {"book", "lib"} \cup {name[1] : name \in DOMAIN FirstFiles}
Icons == IconKinds \cup {Hourglass}
Titled == Titles \cup {Untitled, "Packages"} \cup {name[2] : name \in DOMAIN FirstFiles}
FileNames == IconKinds \X Titled
Links == FileNames \cup {NoLink} \cup ({"gone"} \X Titled)

BookRecords ==
    [kind : IconKinds, name : Titled \cup {Unnamed}, title : Titled, icon : Icons, final : Icons,
     text : Nat, mark : BOOLEAN, pack : BOOLEAN, at : {"shown", "tab", "gone"}]
CallRecords ==
    [what : {"put", "drop", "get", "copy", "remove", "move", "list", "packages"}, book : Nat,
     name : FileNames \cup {NoLink}, to : FileNames \cup {NoLink}, text : Nat, icon : Icons,
     link : Links, names : SUBSET FileNames, done : BOOLEAN, ok : BOOLEAN, stale : BOOLEAN]

-----------------------------------------------------------------------------
(* A set of numbers has a least one. *)
LEMMA Least == ASSUME NEW S, S \in SUBSET Nat, S # {} PROVE \E n \in S : \A m \in S : n <= m
<1> DEFINE R == {ss \in Nat \X Nat : ss[1] < ss[2]}
<1>1. OpToRel(<, Nat) = R
  BY DEF OpToRel
<1>2. IsWellFoundedOn(R, Nat)
  BY <1>1, NatLessThanWellFounded
<1> HIDE DEF R
<1>3. PICK n \in S : \A m \in S : ~ (<<m, n>> \in R)
  BY <1>2, WFMin
<1>4. \A m \in S : ~ (m < n)
  BY <1>3 DEF R
<1> QED BY <1>4

(* Of finitely many places there is a k-th one, *)
LEMMA Nth ==
    ASSUME NEW n \in Nat, NEW P \in SUBSET (1..n), NEW k \in 1..Cardinality(P)
    PROVE  \E i \in P : Cardinality({j \in P : j <= i}) = k
<1> DEFINE Upto(i) == {j \in P : j <= i}
<1>0. \A j \in P : j \in Int /\ 1 <= j /\ j <= n
  OBVIOUS
<1>1. IsFiniteSet(P) /\ Cardinality(P) \in Nat
  <2>1. IsFiniteSet(1..n)
    BY FS_Interval
  <2> QED BY <2>1, FS_Subset, FS_CardinalityType
<1>2. \A i \in 0..n : IsFiniteSet(Upto(i)) /\ Cardinality(Upto(i)) \in Nat
  BY <1>1, FS_Subset, FS_CardinalityType
<1>3. Upto(n) = P /\ Upto(0) = {}
  <2>1. \A j \in P : j <= n /\ ~ (j <= 0)
    BY <1>0
  <2> QED BY <2>1, Zenon
<1> DEFINE S == {i \in 0..n : Cardinality(Upto(i)) >= k}
<1>4. n \in S
  BY <1>1, <1>3
<1>5. S \in SUBSET Nat /\ S # {}
  BY <1>4
<1>6. PICK i \in S : \A m \in S : i <= m
  <2> HIDE DEF S
  <2> QED BY <1>5, Least
<1>7. i \in 1..n
  BY <1>3, <1>6, FS_EmptySet
<1>8. i - 1 \in 0..n /\ Cardinality(Upto(i - 1)) < k
  <2>1. i - 1 \in 0..n /\ ~ (i <= i - 1)
    BY <1>7
  <2>2. i - 1 \notin S
    BY <1>6, <2>1
  <2>3. Cardinality(Upto(i - 1)) \in Nat
    BY <1>2, <2>1
  <2> QED BY <2>1, <2>2, <2>3
<1>9. i \in P
  <2> SUFFICES ASSUME i \notin P PROVE FALSE
    OBVIOUS
  <2>1. Upto(i) = Upto(i - 1)
    <3>1. \A j \in P : j <= i <=> j <= i - 1
      BY <1>0, <1>7
    <3> QED BY <3>1, Zenon
  <2> QED BY <1>2, <1>6, <1>8, <2>1
<1>10. Upto(i) = Upto(i - 1) \cup {i} /\ i \notin Upto(i - 1)
  <2>1. \A j \in P : j <= i <=> (j <= i - 1 \/ j = i)
    BY <1>0, <1>7
  <2>2. ~ (i <= i - 1)
    BY <1>7
  <2> QED BY <1>9, <2>1, <2>2, Zenon
<1>11. Cardinality(Upto(i)) = Cardinality(Upto(i - 1)) + 1
  BY <1>2, <1>8, <1>10, FS_AddElement
<1>12. Cardinality(Upto(i)) = k
  <2>1. Cardinality(Upto(i)) >= k /\ Cardinality(Upto(i - 1)) \in Nat
    BY <1>2, <1>6, <1>8
  <2> HIDE DEF Upto
  <2> QED BY <1>8, <1>11, <2>1
<1> QED BY <1>9, <1>12

(* so that what is left of a sequence is a sequence of its members. *)
LEMMA FilteredTyped ==
    ASSUME NEW A, NEW s \in Seq(A), NEW S
    PROVE  Filtered(s, S) \in Seq(A)
<1> DEFINE places == {i \in DOMAIN s : s[i] \in S}
           place(k) == CHOOSE i \in places : Cardinality({j \in places : j <= i}) = k
<1>1. places \in SUBSET (1..Len(s)) /\ Len(s) \in Nat
  OBVIOUS
<1>2. Cardinality(places) \in Nat
  <2>1. IsFiniteSet(1..Len(s))
    BY <1>1, FS_Interval
  <2> HIDE DEF places
  <2> QED BY <1>1, <2>1, FS_Subset, FS_CardinalityType
<1>3. \A k \in 1..Cardinality(places) : place(k) \in places
  BY <1>1, Nth
<1>4. \A k \in 1..Cardinality(places) : s[place(k)] \in A
  <2>1. \A i \in places : s[i] \in A
    OBVIOUS
  <2> HIDE DEF places, place
  <2> QED BY <1>3, <2>1
<1>5. Filtered(s, S) = [k \in 1..Cardinality(places) |-> s[place(k)]]
  BY DEF Filtered
<1> HIDE DEF places, place
<1> QED BY <1>2, <1>4, <1>5

-----------------------------------------------------------------------------
(* Pages: as many books as were made, at most one of them shown.  A page grows into another   *)
(* when its books only change where they are, and others come without a name.                 *)
Pages(n) == [books : [1..n -> BookRecords], opened : Seq(1..n)]
Fine(q) == /\ \E n \in Nat : q \in Pages(n)
           /\ \A b, c \in OnPage(q) : b = c

AlikeBook(x, y) ==
    /\ x.kind = y.kind /\ x.name = y.name /\ x.title = y.title /\ x.icon = y.icon
    /\ x.final = y.final /\ x.text = y.text /\ x.mark = y.mark /\ x.pack = y.pack

Grown(p, q) ==
    /\ \A b \in DOMAIN p.books : b \in DOMAIN q.books /\ AlikeBook(p.books[b], q.books[b])
    /\ \A b \in DOMAIN q.books : b \notin DOMAIN p.books =>
         q.books[b].name = Unnamed /\ q.books[b].text = Blank

LEMMA GrownOn == ASSUME NEW p, NEW q, NEW r, Grown(p, q), Grown(q, r) PROVE Grown(p, r)
BY DEF Grown, AlikeBook

LEMMA GrownSame == ASSUME NEW p PROVE Grown(p, p)
BY DEF Grown, AlikeBook

LEMMA UnusedIs == ASSUME NEW n \in Nat, NEW q \in Pages(n) PROVE Unused(q) = n + 1
<1>1. DOMAIN q.books = 1..n
  BY DEF Pages
<1>2. Cardinality(1..n) = n
  BY FS_Interval
<1> QED BY <1>1, <1>2 DEF Unused

(* One book goes to another place, *)
LEMMA MovedFacts ==
    ASSUME NEW n \in Nat, NEW q \in Pages(n), NEW b \in 1..n,
           NEW at \in {"shown", "tab", "gone"}
    PROVE  /\ Moved(q, b, at) \in Pages(n) /\ Grown(q, Moved(q, b, at))
           /\ Moved(q, b, at).opened = q.opened
           /\ OnPage(Moved(q, b, at)) =
                IF at = "shown" THEN OnPage(q) \cup {b} ELSE OnPage(q) \ {b}
<1> DEFINE book == [q.books[b] EXCEPT !.at = at]
           all == [q.books EXCEPT ![b] = book]
<1>1. q.books \in [1..n -> BookRecords] /\ q.opened \in Seq(1..n)
  BY DEF Pages
<1>2. Moved(q, b, at) = [books |-> all, opened |-> q.opened]
  <2>1. Moved(q, b, at) = [q EXCEPT !.books = all]
    BY DEF Moved
  <2> HIDE DEF all
  <2> QED BY <2>1 DEF Pages
<1>3. book \in BookRecords /\ AlikeBook(q.books[b], book) /\ book.at = at
  BY <1>1 DEF BookRecords, AlikeBook
<1> HIDE DEF book
<1>4. all \in [1..n -> BookRecords] /\ all[b] = book /\ \A c \in 1..n : c # b => all[c] = q.books[c]
  BY <1>1, <1>3
<1> HIDE DEF all
<1>5. Moved(q, b, at) \in Pages(n)
  BY <1>1, <1>2, <1>4 DEF Pages
<1>6. Grown(q, Moved(q, b, at))
  BY <1>1, <1>2, <1>3, <1>4 DEF Grown, AlikeBook
<1>7. OnPage(Moved(q, b, at)) = IF at = "shown" THEN OnPage(q) \cup {b} ELSE OnPage(q) \ {b}
  BY <1>1, <1>2, <1>3, <1>4 DEF OnPage
<1> QED BY <1>2, <1>5, <1>6, <1>7

(* or loses its link. *)
LEMMA UnlinkedFacts ==
    ASSUME NEW n \in Nat, NEW q \in Pages(n), NEW b
    PROVE  /\ Unlinked(q, b) \in Pages(n) /\ Grown(q, Unlinked(q, b))
           /\ Unlinked(q, b).books = q.books /\ OnPage(Unlinked(q, b)) = OnPage(q)
<1>1. q.books \in [1..n -> BookRecords] /\ q.opened \in Seq(1..n)
  BY DEF Pages
<1> DEFINE rest == Filtered(q.opened, Range(q.opened) \ {b})
<1>2. rest \in Seq(1..n)
  BY <1>1, FilteredTyped
<1> HIDE DEF rest
<1>3. Unlinked(q, b) = [books |-> q.books, opened |-> rest]
  BY DEF Unlinked, Pages, rest
<1> QED BY <1>1, <1>2, <1>3 DEF Pages, OnPage, Grown, AlikeBook

LEMMA PutAwayFacts ==
    ASSUME NEW n \in Nat, NEW q \in Pages(n), Fine(q)
    PROVE  /\ PutAway(q) \in Pages(n) /\ Grown(q, PutAway(q)) /\ OnPage(PutAway(q)) = {}
           /\ PutAway(q).opened = q.opened
<1>1. CASE OnPage(q) = {}
  BY <1>1, GrownSame DEF PutAway
<1>2. CASE OnPage(q) # {}
  <2>1. PICK b \in OnPage(q) : PutAway(q) = Moved(q, b, "tab")
    BY <1>2 DEF PutAway
  <2>2. b \in 1..n /\ OnPage(q) \ {b} = {}
    BY DEF Fine, OnPage, Pages
  <2> QED BY <2>1, <2>2, MovedFacts
<1> QED BY <1>1, <1>2

(* A book comes to a place of its own, or to that of another, and is shown. *)
LEMMA WithBookFacts ==
    ASSUME NEW n \in Nat, NEW q \in Pages(n), OnPage(q) = {}, NEW b \in 1..(n + 1),
           NEW book \in BookRecords, book.at = "shown"
    PROVE  /\ Fine(WithBook(q, b, book)) /\ OnPage(WithBook(q, b, book)) = {b}
           /\ DOMAIN WithBook(q, b, book).books = 1..n \cup {b}
           /\ WithBook(q, b, book).books[b] = book
           /\ \A c \in 1..n : c # b => WithBook(q, b, book).books[c] = q.books[c]
<1>1. q.books \in [1..n -> BookRecords] /\ q.opened \in Seq(1..n) /\ DOMAIN q.books = 1..n
  BY DEF Pages
<1> DEFINE m == IF b = n + 1 THEN n + 1 ELSE n
           links == Append(Unlinked(q, b).opened, b)
           all == Put(q.books, b, book)
<1>2. WithBook(q, b, book) = [books |-> all, opened |-> links]
  BY DEF WithBook
<1>3. m \in Nat /\ 1..n \cup {b} = 1..m /\ \A i \in 1..n : i \in 1..m
  OBVIOUS
<1>4. all \in [1..m -> BookRecords] /\ all[b] = book /\ \A c \in 1..n : c # b => all[c] = q.books[c]
  BY <1>1, <1>3 DEF Put
<1>5. links \in Seq(1..m)
  <2>1. Unlinked(q, b).opened \in Seq(1..n)
    BY UnlinkedFacts DEF Pages
  <2>2. Unlinked(q, b).opened \in Seq(1..m)
    BY <1>3, <2>1
  <2>3. b \in 1..m
    BY <1>3
  <2> QED BY <2>2, <2>3
<1> HIDE DEF all, links, m
<1>6. WithBook(q, b, book) \in Pages(m)
  BY <1>2, <1>4, <1>5 DEF Pages
<1>7. OnPage(WithBook(q, b, book)) = {b}
  <2>1. DOMAIN all = 1..n \cup {b}
    BY <1>3, <1>4
  <2>2. \A c \in 1..n : q.books[c].at # "shown"
    BY <1>1 DEF OnPage
  <2>3. \A c \in DOMAIN all : all[c].at = "shown" <=> c = b
    BY <1>4, <2>1, <2>2
  <2>4. OnPage(WithBook(q, b, book)) = {c \in DOMAIN all : all[c].at = "shown"}
    BY <1>2 DEF OnPage
  <2> QED BY <2>1, <2>3, <2>4
<1>8. DOMAIN all = 1..n \cup {b}
  BY <1>3, <1>4
<1> QED BY <1>2, <1>3, <1>4, <1>6, <1>7, <1>8 DEF Fine

LEMMA BookTyped ==
    ASSUME NEW kind \in IconKinds, NEW icon \in Icons, NEW text \in Nat
    PROVE  Book(kind, icon, text) \in BookRecords
BY DEF Book, BookRecords, Titled

LEMMA WithNewFacts ==
    ASSUME NEW q, Fine(q), NEW kind \in IconKinds
    PROVE  Fine(WithNew(q, kind)) /\ Grown(q, WithNew(q, kind)) /\ OnPage(WithNew(q, kind)) # {}
<1>1. PICK n \in Nat : q \in Pages(n)
  BY DEF Fine
<1> DEFINE away == PutAway(q)
           book == Book(kind, kind, Blank)
<1>2. away \in Pages(n) /\ Grown(q, away) /\ OnPage(away) = {}
  BY <1>1, PutAwayFacts
<1>3. Unused(q) = n + 1 /\ n + 1 \in 1..(n + 1)
  BY <1>1, UnusedIs
<1>4. book \in BookRecords /\ book.at = "shown" /\ book.name = Unnamed /\ book.text = Blank
  BY BookTyped DEF Book, Icons, Blank
<1>5. WithNew(q, kind) = WithBook(away, n + 1, book)
  BY <1>3 DEF WithNew
<1> HIDE DEF away, book
<1>6. /\ Fine(WithBook(away, n + 1, book)) /\ OnPage(WithBook(away, n + 1, book)) = {n + 1}
      /\ DOMAIN WithBook(away, n + 1, book).books = 1..n \cup {n + 1}
      /\ WithBook(away, n + 1, book).books[n + 1] = book
      /\ \A c \in 1..n : c # n + 1 => WithBook(away, n + 1, book).books[c] = away.books[c]
  BY <1>2, <1>3, <1>4, WithBookFacts
<1>7. DOMAIN away.books = 1..n
  BY <1>2 DEF Pages
<1>8. \A c \in 1..n : c # n + 1
  OBVIOUS
<1>9. Grown(away, WithBook(away, n + 1, book))
  BY <1>4, <1>6, <1>7, <1>8 DEF Grown, AlikeBook
<1>10. Grown(q, WithBook(away, n + 1, book))
  BY <1>2, <1>9, GrownOn
<1> QED BY <1>5, <1>6, <1>10

(* A tab is closed: if it was shown the first of the others is, or a new one. *)
LEMMA WithoutFacts ==
    ASSUME NEW q, Fine(q), NEW b \in DOMAIN q.books
    PROVE  /\ Fine(Without(q, b)) /\ Grown(q, Without(q, b))
           /\ OnPage(q) # {} => OnPage(Without(q, b)) # {}
<1>1. PICK n \in Nat : q \in Pages(n)
  BY DEF Fine
<1>2. b \in 1..n
  BY <1>1 DEF Pages
<1> DEFINE gone == Moved(q, b, "gone")
           rest == Unlinked(gone, b)
<1>3. gone \in Pages(n) /\ Grown(q, gone) /\ OnPage(gone) = OnPage(q) \ {b}
  BY <1>1, <1>2, MovedFacts
<1> HIDE DEF gone
<1>4. rest \in Pages(n) /\ Grown(gone, rest) /\ OnPage(rest) = OnPage(q) \ {b}
  BY <1>3, UnlinkedFacts
<1>5. Without(q, b) = CASE rest.opened = <<>> -> WithNew(rest, "book")
                        [] rest.opened # <<>> /\ q.books[b].at = "shown" ->
                             Moved(rest, Head(rest.opened), "shown")
                        [] OTHER -> rest
  BY DEF Without, gone
<1> HIDE DEF rest
<1>6. Fine(rest) /\ Grown(q, rest)
  BY <1>3, <1>4, GrownOn DEF Fine
<1>7. CASE rest.opened = <<>>
  <2>1. Without(q, b) = WithNew(rest, "book") /\ "book" \in IconKinds
    BY <1>5, <1>7 DEF IconKinds
  <2> QED BY <1>6, <2>1, WithNewFacts, GrownOn
<1>8. CASE rest.opened # <<>> /\ q.books[b].at = "shown"
  <2> DEFINE first == Head(rest.opened)
  <2>1. first \in 1..n
    BY <1>4, <1>8 DEF Pages
  <2>2. Without(q, b) = Moved(rest, first, "shown")
    BY <1>5, <1>8
  <2> HIDE DEF first
  <2>3. /\ Moved(rest, first, "shown") \in Pages(n) /\ Grown(rest, Moved(rest, first, "shown"))
        /\ OnPage(Moved(rest, first, "shown")) = OnPage(rest) \cup {first}
    BY <1>4, <2>1, MovedFacts
  <2>4. OnPage(rest) = {}
    <3>1. b \in OnPage(q)
      BY <1>8 DEF OnPage
    <3> QED BY <1>4, <3>1 DEF Fine
  <2> QED BY <1>6, <2>2, <2>3, <2>4, GrownOn DEF Fine
<1>9. CASE rest.opened # <<>> /\ q.books[b].at # "shown"
  <2>1. Without(q, b) = rest
    BY <1>5, <1>9
  <2>2. b \notin OnPage(q)
    BY <1>9 DEF OnPage
  <2> QED BY <1>4, <1>6, <2>1, <2>2
<1> QED BY <1>7, <1>8, <1>9

(* Several are: what is done after the i-th, until a book fails to be shown. *)
LEMMA ClosedAllFacts ==
    ASSUME NEW q, Fine(q), NEW doomed \in Seq(DOMAIN q.books)
    PROVE  /\ Fine(ClosedAll(q, doomed)) /\ Grown(q, ClosedAll(q, doomed))
           /\ OnPage(q) # {} => OnPage(ClosedAll(q, doomed)) # {}
<1> DEFINE n == Len(doomed)
           fails(p) == \E c \in OnPage(p) : p # q /\ Bare(p, c)
           step(p, i) == IF fails(p) THEN p ELSE Without(p, doomed[i])
           Does(f, m) == f = [i \in 0..m |-> IF i = 0 THEN q ELSE step(f[i - 1], i)]
<1>1. n \in Nat
  OBVIOUS
<1> HIDE DEF n, step
<1>2. \A m \in 0..n : \E f : Does(f, m)
  <2> DEFINE S == {m \in 0..n : ~ \E f : Does(f, m)}
  <2> SUFFICES ASSUME S # {} PROVE FALSE
    OBVIOUS
  <2>1. S \in SUBSET Nat
    BY <1>1
  <2>2. PICK m \in S : \A k \in S : m <= k
    <3> HIDE DEF S
    <3> QED BY <2>1, Least
  <2>3. CASE m = 0
    <3>1. Does([i \in 0..0 |-> q], 0)
      OBVIOUS
    <3> QED BY <2>2, <2>3, <3>1
  <2>4. CASE m # 0
    <3>1. m - 1 \in 0..n /\ m - 1 \notin S
      <4>1. m \in 0..n
        OBVIOUS
      <4>2. m - 1 \in 0..n /\ ~ (m <= m - 1)
        BY <1>1, <2>4, <4>1
      <4> HIDE DEF S
      <4> QED BY <2>2, <4>2
    <3>2. PICK f : Does(f, m - 1)
      BY <3>1
    <3> DEFINE g == [i \in 0..m |-> IF i = m THEN step(f[m - 1], m) ELSE f[i]]
    <3>3. \A i \in 0..m : g[i] = IF i = 0 THEN q ELSE step(g[i - 1], i)
      <4> SUFFICES ASSUME NEW i \in 0..m PROVE g[i] = IF i = 0 THEN q ELSE step(g[i - 1], i)
        OBVIOUS
      <4>1. CASE i = m
        <5>1. m - 1 \in 0..m /\ m - 1 # m
          BY <3>1
        <5> QED BY <2>4, <4>1, <5>1
      <4>2. CASE i # m
        <5>1. i \in 0..(m - 1) /\ (i # 0 => i - 1 \in 0..m /\ i - 1 # m)
          BY <3>1, <4>2
        <5> QED BY <3>2, <4>2, <5>1
      <4> QED BY <4>1, <4>2
    <3>4. Does(g, m)
      <4> DEFINE h == [i \in 0..m |-> IF i = 0 THEN q ELSE step(g[i - 1], i)]
      <4>1. \A i \in 0..m : g[i] = h[i]
        BY <3>3
      <4>2. g = h
        BY <4>1
      <4> QED BY <4>2
    <3> QED BY <2>2, <3>4
  <2> QED BY <2>3, <2>4
<1> DEFINE after == CHOOSE f : Does(f, n)
<1>3. Does(after, n)
  <2>1. n \in 0..n
    BY <1>1
  <2>2. \E f : Does(f, n)
    BY <1>2, <2>1
  <2> HIDE DEF Does
  <2> QED BY <2>2, Zenon DEF after
<1>4. ClosedAll(q, doomed) = after[n]
  BY DEF ClosedAll, n, step
<1> DEFINE Good(p) == /\ Fine(p) /\ Grown(q, p) /\ (OnPage(q) # {} => OnPage(p) # {})
<1>5. \A i \in 1..n : \A p : Good(p) => Good(step(p, i))
  <2> SUFFICES ASSUME NEW i \in 1..n, NEW p, Good(p) PROVE Good(step(p, i))
    OBVIOUS
  <2>1. doomed[i] \in DOMAIN p.books
    BY DEF n, Grown
  <2> QED BY <2>1, WithoutFacts, GrownOn DEF step
<1> HIDE DEF after, Does, Good
<1>6. after[0] = q /\ \A i \in 1..n : after[i] = step(after[i - 1], i)
  BY <1>1, <1>3 DEF Does
<1>7. Good(q)
  BY GrownSame DEF Good
<1> DEFINE Bad == {i \in 0..n : ~Good(after[i])}
<1>8. Bad = {}
  <2> SUFFICES ASSUME Bad # {} PROVE FALSE
    OBVIOUS
  <2>1. PICK m \in Bad : \A k \in Bad : m <= k
    <3>1. Bad \in SUBSET Nat
      BY <1>1
    <3> HIDE DEF Bad
    <3> QED BY <3>1, Least
  <2>2. m # 0
    BY <1>6, <1>7
  <2>3. m \in 1..n /\ m - 1 \in 0..n /\ ~ (m <= m - 1)
    BY <1>1, <2>2
  <2>4. Good(after[m - 1])
    BY <2>1, <2>3
  <2> QED BY <1>5, <1>6, <2>1, <2>3, <2>4
<1>9. Good(after[n])
  BY <1>1, <1>8
<1> QED BY <1>4, <1>9 DEF Good

-----------------------------------------------------------------------------
(* The invariant.  Types, and what a request says: *)
TypeInv ==
    /\ Fine(Page)
    /\ listing \in [DOMAIN listing -> [icon : Icons, title : Titled]]
    /\ DOMAIN listing \subseteq FileNames
    /\ folder \in [DOMAIN folder -> Nat] /\ DOMAIN folder \subseteq FileNames
    /\ calls \subseteq CallRecords
    /\ deeds \in [done : Nat, lost : Nat, bare : BOOLEAN]

CallInv(c) ==
    /\ c.what \in {"put", "drop"} => c.book \in DOMAIN books /\ Named(c.book) /\ c.link = NoLink
    /\ c.what = "packages" => c.book \in DOMAIN books
    /\ c.what \notin {"list", "packages"} => c.name \in FileNames /\ c.to \in FileNames
    /\ c.what \in {"get", "copy", "move"} => c.name[1] = Kind(c.icon)
    /\ c.what = "move" => c.to[1] = c.name[1] /\ c.link # NoLink
CallsInv == \A c \in calls : CallInv(c)

(* a book is shown unless there was one without cells; *)
ShownInv ==
    /\ \A b \in DOMAIN books : books[b].text = NoCells => deeds.bare
    /\ ~deeds.bare => OnPage(Page) # {}

(* a save is of the file that its book has, and is the only one, or the book is in doubt; *)
PutInv ==
    /\ \A c \in calls : c.what = "put" => FullName(c.book) = c.name \/ c.book \in doubt
    /\ \A c, d \in calls :
         c.what = "put" /\ d.what \in {"put", "drop"} /\ c # d /\ c.book = d.book =>
           c.book \in doubt

(* what was got is still in the file, unless that was noticed; *)
InFile(name, text) == Exists(name) /\ folder[name] = text
GetInv ==
    \A c \in calls :
        c.what = "get" /\ c.done /\ ~c.stale /\ c.text # NoCells => InFile(c.name, c.text)

(* the text of a book that is not marked, or one that was saved and not yet answered, is in   *)
(* its file, or where that is moved to;                                                       *)
Kept(b, text) ==
    \/ ~books[b].mark /\ books[b].text = text
    \/ \E c \in calls : c.what = "put" /\ c.done /\ c.ok /\ c.book = b /\ c.text = text
HonestInv ==
    \A b \in DOMAIN books : Named(b) /\ b \notin doubt =>
        \A text : Kept(b, text) =>
            /\ Moving(FullName(b)) = {} => InFile(FullName(b), text)
            /\ \A m \in Moving(FullName(b)) : InFile(m.to, text)

(* and if there is a file again where one was moved from, its books are in doubt. *)
AgainInv ==
    \A m \in calls : m \in Moving(m.name) /\ Exists(m.name) => Of(m.name) \subseteq doubt

Inv == TypeInv /\ CallsInv /\ ShownInv /\ PutInv /\ GetInv /\ HonestInv /\ AgainInv

-----------------------------------------------------------------------------
(* What keeps the parts about files while no file changes: a book that is new there is right  *)
(* or in doubt, requests come before they are done, and no rename goes that a book relied on. *)
AlikeCall(c, d) ==
    /\ c.what = d.what /\ c.book = d.book /\ c.name = d.name /\ c.to = d.to /\ c.text = d.text
    /\ c.icon = d.icon /\ c.done = d.done /\ c.ok = d.ok /\ c.stale = d.stale
    /\ c.what \in {"put", "drop"} => c = d
    /\ c.link # NoLink => d.link # NoLink

SameBooks ==
    \A b \in DOMAIN books' : Named(b)' /\ b \notin doubt' =>
        \/ /\ Moving(FullName(b))' = {}
           /\ \A text : Kept(b, text)' => InFile(FullName(b), text)'
        \/ /\ b \in DOMAIN books /\ Named(b) /\ b \notin doubt /\ FullName(b)' = FullName(b)
           /\ \A text : Kept(b, text)' => Kept(b, text)

NewPut(d) ==
    /\ d.what = "put" => FullName(d.book)' = d.name \/ d.book \in doubt'
    /\ \A c \in calls' \ {d} :
         c.what \in {"put", "drop"} /\ c.book = d.book /\ "put" \in {c.what, d.what} =>
           d.book \in doubt'

NewCalls ==
    \A d \in calls' :
        \/ \E c \in calls : AlikeCall(c, d)
        \/ ~d.done /\ (d.what \in {"put", "drop"} => NewPut(d))

SameMoves ==
    \A c \in calls : c \in Moving(c.name) =>
        \/ \E d \in calls' : AlikeCall(c, d)
        \/ \A b \in Of(c.name) : FullName(b)' = c.name => b \in doubt'

SamePuts ==
    \A c \in calls : c.what \in {"put", "drop"} /\ c \in calls' =>
        /\ FullName(c.book)' = FullName(c.book) \/ c.book \in doubt'
        /\ c.book \in doubt => c.book \in doubt'

LEMMA FilesKept ==
    ASSUME HonestInv, AgainInv, folder' = folder, SameBooks, NewCalls, SameMoves
    PROVE  HonestInv' /\ AgainInv'
<1>1. ASSUME NEW n, NEW d \in Moving(n)'
      PROVE \E c \in Moving(n) : c.to = d.to
  BY <1>1 DEF Moving, NewCalls, AlikeCall
<1>3. \A n, t : InFile(n, t)' <=> InFile(n, t)
  BY DEF InFile, Exists
<1>4. HonestInv'
  <2> SUFFICES ASSUME NEW b \in DOMAIN books', Named(b)', b \notin doubt', NEW text, Kept(b, text)'
               PROVE  /\ Moving(FullName(b))' = {} => InFile(FullName(b), text)'
                      /\ \A m \in Moving(FullName(b))' : InFile(m.to, text)'
    BY DEF HonestInv
  <2>1. CASE Moving(FullName(b))' = {} /\ InFile(FullName(b), text)'
    BY <2>1
  <2>2. CASE /\ b \in DOMAIN books /\ Named(b) /\ b \notin doubt /\ FullName(b)' = FullName(b)
             /\ Kept(b, text)
    <3> DEFINE n == FullName(b)
    <3>1. /\ Moving(n) = {} => InFile(n, text)
          /\ \A m \in Moving(n) : InFile(m.to, text)
      BY <2>2 DEF HonestInv
    <3>2. b \in Of(n)
      BY <2>2 DEF Of
    <3>3. Moving(FullName(b))' = {} => Moving(n) = {}
      <4> SUFFICES ASSUME Moving(FullName(b))' = {}, NEW c \in Moving(n) PROVE FALSE
        OBVIOUS
      <4>1. c \in calls /\ c.name = n /\ c \in Moving(c.name)
        BY DEF Moving
      <4>2. FullName(b)' = n
        BY <2>2
      <4>3. PICK d \in calls' : AlikeCall(c, d)
        BY <3>2, <4>1, <4>2 DEF SameMoves
      <4> HIDE DEF n
      <4>4. d \in Moving(FullName(b))'
        BY <4>1, <4>2, <4>3 DEF Moving, AlikeCall
      <4> QED BY <4>4
    <3>4. FullName(b)' = n
      BY <2>2
    <3> HIDE DEF n
    <3>5. InFile(FullName(b), text)' <=> InFile(n, text)
      BY <1>3, <3>4 DEF InFile, Exists
    <3>6. ASSUME NEW m \in Moving(FullName(b))' PROVE InFile(m.to, text)'
      <4>1. PICK c \in Moving(n) : c.to = m.to
        BY <3>4, <3>6 DEF Moving, NewCalls, AlikeCall
      <4> QED BY <1>3, <3>1, <3>4, <4>1
    <3> QED BY <3>1, <3>3, <3>5, <3>6
  <2> QED BY <2>1, <2>2 DEF SameBooks
<1>5. AgainInv'
  <2> SUFFICES ASSUME NEW m \in calls', m \in Moving(m.name)', Exists(m.name)',
                      NEW b \in Of(m.name)', b \notin doubt'
               PROVE  FALSE
    BY DEF AgainInv
  <2>1. b \in DOMAIN books' /\ Named(b)' /\ FullName(b)' = m.name
    BY DEF Of
  <2>2. Moving(FullName(b))' # {}
    BY <2>1 DEF Moving
  <2>3. b \in DOMAIN books /\ Named(b) /\ b \notin doubt /\ FullName(b) = m.name
    BY <2>1, <2>2 DEF SameBooks
  <2>4. PICK c \in calls : AlikeCall(c, m)
    BY DEF NewCalls, Moving
  <2>5. c \in Moving(c.name) /\ c.name = m.name /\ Exists(c.name)
    BY <2>4 DEF AlikeCall, Moving, Exists
  <2> QED BY <2>3, <2>5 DEF AgainInv, Of
<1> QED BY <1>4, <1>5

LEMMA PutsKept ==
    ASSUME PutInv, NewCalls, SamePuts
    PROVE  PutInv'
<1>1. ASSUME NEW c \in calls', c.what = "put"
      PROVE FullName(c.book)' = c.name \/ c.book \in doubt'
  BY <1>1 DEF PutInv, NewCalls, SamePuts, NewPut, AlikeCall
<1>2. ASSUME NEW c \in calls', NEW d \in calls', c.what = "put", d.what \in {"put", "drop"},
             c # d, c.book = d.book
      PROVE c.book \in doubt'
  <2>1. CASE c \in calls /\ d \in calls
    BY <1>2, <2>1 DEF PutInv, SamePuts
  <2>2. CASE c \notin calls
    <3>1. NewPut(c)
      BY <1>2, <2>2 DEF NewCalls, AlikeCall
    <3> QED BY <1>2, <3>1 DEF NewPut
  <2>3. CASE d \notin calls
    <3>1. NewPut(d)
      BY <1>2, <2>3 DEF NewCalls, AlikeCall
    <3> QED BY <1>2, <3>1 DEF NewPut
  <2> QED BY <2>1, <2>2, <2>3
<1> QED BY <1>1, <1>2 DEF PutInv

LEMMA GetsKept ==
    ASSUME GetInv, folder' = folder, NewCalls
    PROVE  GetInv'
BY DEF GetInv, NewCalls, AlikeCall, InFile, Exists

-----------------------------------------------------------------------------
(* Steps in which books only grow and nobody is put in doubt. *)
Grows ==
    /\ \A b \in DOMAIN books :
         /\ b \in DOMAIN books' /\ books'[b].kind = books[b].kind /\ books'[b].name = books[b].name
         /\ books'[b].text = books[b].text /\ books'[b].mark = books[b].mark
    /\ \A b \in DOMAIN books' : b \notin DOMAIN books => ~Named(b)'

QuietCalls ==
    /\ \A d \in calls' :
         \/ \E c \in calls : AlikeCall(c, d)
         \/ ~d.done /\ d.what \notin {"put", "drop"} /\ CallInv(d)'
    /\ \A c \in calls : c \in Moving(c.name) => \E d \in calls' : AlikeCall(c, d)

LEMMA CallsKept ==
    ASSUME NEW c \in calls, NEW d, CallInv(c), AlikeCall(c, d),
           c.what \in {"put", "drop", "packages"} =>
             c.book \in DOMAIN books' /\ (Named(c.book) => Named(c.book)')
    PROVE  CallInv(d)'
BY DEF CallInv, AlikeCall

LEMMA QuietKeeps ==
    ASSUME Inv, Grows, QuietCalls, folder' = folder, doubt' = doubt, TypeInv', ShownInv'
    PROVE  Inv'
<1> USE DEF Inv
<1>1. \A b \in DOMAIN books : b \in DOMAIN books' /\ FullName(b)' = FullName(b)
                              /\ (Named(b)' <=> Named(b))
  BY DEF Grows, FullName, Named
<1>2. NewCalls /\ SameMoves
  BY DEF QuietCalls, NewCalls, SameMoves
<1>3. \A b \in DOMAIN books : \A text : Kept(b, text)' => Kept(b, text)
  <2> SUFFICES ASSUME NEW b \in DOMAIN books, NEW text, Kept(b, text)' PROVE Kept(b, text)
    OBVIOUS
  <2>1. books'[b].mark = books[b].mark /\ books'[b].text = books[b].text
    BY DEF Grows
  <2>2. CASE ~books'[b].mark /\ books'[b].text = text
    BY <2>1, <2>2 DEF Kept
  <2>3. CASE \E d \in calls' : d.what = "put" /\ d.done /\ d.ok /\ d.book = b /\ d.text = text
    BY <2>3 DEF Kept, QuietCalls, AlikeCall
  <2> QED BY <2>2, <2>3 DEF Kept
<1>4. SameBooks
  <2> SUFFICES ASSUME NEW b \in DOMAIN books', Named(b)', b \notin doubt'
               PROVE  /\ b \in DOMAIN books /\ Named(b) /\ b \notin doubt
                      /\ FullName(b)' = FullName(b)
                      /\ \A text : Kept(b, text)' => Kept(b, text)
    BY DEF SameBooks
  <2>1. b \in DOMAIN books
    BY DEF Grows
  <2> QED BY <1>1, <1>3, <2>1 DEF Grows
<1>5. SamePuts
  BY <1>1 DEF SamePuts, CallsInv, CallInv
<1>6. CallsInv'
  <2> SUFFICES ASSUME NEW d \in calls' PROVE CallInv(d)'
    BY DEF CallsInv
  <2>1. CASE \E c \in calls : AlikeCall(c, d)
    <3>1. PICK c \in calls : AlikeCall(c, d)
      BY <2>1
    <3>2. CallInv(c)
      BY DEF CallsInv
    <3>3. c.what \in {"put", "drop", "packages"} =>
             c.book \in DOMAIN books' /\ (Named(c.book) => Named(c.book)')
      BY <1>1, <3>2 DEF CallInv
    <3> QED BY <3>1, <3>2, <3>3, CallsKept
  <2> QED BY <2>1 DEF QuietCalls
<1> QED BY <1>2, <1>4, <1>5, <1>6, FilesKept, PutsKept, GetsKept

LEMMA SameCalls == ASSUME CallsInv, calls' = calls PROVE QuietCalls
BY DEF QuietCalls, AlikeCall

(* A page becomes another that it grows into. *)
LEMMA PageGrows ==
    ASSUME TypeInv, ShownInv, NEW q, Fine(q), Becomes(q), Grown(Page, q), deeds'.bare = deeds.bare,
           OnPage(Page) # {} => OnPage(q) # {}
    PROVE  Fine(Page)' /\ Grows /\ ShownInv'
<1>1. q = [books |-> q.books, opened |-> q.opened]
  BY DEF Fine, Pages
<1>2. Page' = q
  BY <1>1 DEF Becomes, Page
<1>3. Grows
  BY <1>2 DEF Grown, Page, Grows, AlikeBook, Named, Becomes
<1>4. OnPage(Page)' = OnPage(q)
  BY <1>2 DEF OnPage
<1>5. Fine(Page)'
  BY <1>2, <1>4 DEF Fine
<1>6. ShownInv'
  <2>1. \A b \in DOMAIN books' : books'[b].text = NoCells => deeds'.bare
    BY <1>2, <1>3 DEF ShownInv, Grown, Page, Becomes, AlikeBook, NoCells, Blank
  <2> QED BY <1>4, <2>1 DEF ShownInv
<1> QED BY <1>3, <1>5, <1>6

LEMMA KindsTyped == 
    BookKinds \subseteq IconKinds /\ "book" \in IconKinds /\ IconKinds \subseteq Icons
BY DEF IconKinds, Icons

LEMMA DeedTyped == ASSUME TypeInv, Deed PROVE deeds' \in [done : Nat, lost : Nat, bare : BOOLEAN]
                                               /\ deeds'.bare = deeds.bare
                                               /\ deeds'.done = deeds.done + 1
BY DEF TypeInv, Deed

(* What users do with books, and leaves their files alone. *)
LEMMA NewKeeps == ASSUME Inv, NEW kind \in BookKinds, New(kind) PROVE Inv'
<1> USE DEF Inv
<1>1. Fine(Page) /\ kind \in IconKinds
  BY KindsTyped DEF TypeInv
<1>2. /\ Fine(WithNew(Page, kind)) /\ Grown(Page, WithNew(Page, kind))
      /\ OnPage(WithNew(Page, kind)) # {}
  BY <1>1, WithNewFacts
<1>3. deeds' \in [done : Nat, lost : Nat, bare : BOOLEAN] /\ deeds'.bare = deeds.bare
  BY DeedTyped DEF New
<1>4. Becomes(WithNew(Page, kind)) /\ UNCHANGED <<listing, folder, calls, doubt>>
  BY DEF New
<1>5. Fine(Page)' /\ Grows /\ ShownInv'
  BY <1>2, <1>3, <1>4, PageGrows
<1>6. TypeInv'
  BY <1>3, <1>4, <1>5 DEF TypeInv
<1> QED BY <1>4, <1>5, <1>6, SameCalls, QuietKeeps

LEMMA CloseTabKeeps == ASSUME Inv, NEW b \in DOMAIN books, CloseTab(b) PROVE Inv'
<1> USE DEF Inv
<1>1. Fine(Page) /\ b \in DOMAIN Page.books
  BY DEF TypeInv, Page
<1>2. /\ Fine(Without(Page, b)) /\ Grown(Page, Without(Page, b))
      /\ OnPage(Page) # {} => OnPage(Without(Page, b)) # {}
  BY <1>1, WithoutFacts
<1>3. deeds' \in [done : Nat, lost : Nat, bare : BOOLEAN] /\ deeds'.bare = deeds.bare
  BY DeedTyped DEF CloseTab
<1>4. Becomes(Without(Page, b)) /\ UNCHANGED <<listing, folder, calls, doubt>>
  BY DEF CloseTab
<1>5. Fine(Page)' /\ Grows /\ ShownInv'
  BY <1>2, <1>3, <1>4, PageGrows
<1>6. TypeInv'
  BY <1>3, <1>4, <1>5 DEF TypeInv
<1> QED BY <1>4, <1>5, <1>6, SameCalls, QuietKeeps

(* Another book is shown than the one that was. *)
LEMMA ShowFacts ==
    ASSUME NEW q, Fine(q), NEW b \in DOMAIN q.books
    PROVE  LET p == Moved(PutAway(q), b, "shown")
           IN Fine(p) /\ Grown(q, p) /\ OnPage(p) # {}
<1> DEFINE away == PutAway(q)
           p == Moved(away, b, "shown")
<1>1. PICK n \in Nat : q \in Pages(n)
  BY DEF Fine
<1>2. away \in Pages(n) /\ Grown(q, away) /\ OnPage(away) = {}
  BY <1>1, PutAwayFacts
<1>3. b \in 1..n
  BY <1>1 DEF Pages
<1> HIDE DEF away
<1>4. p \in Pages(n) /\ Grown(away, p) /\ OnPage(p) = OnPage(away) \cup {b}
  BY <1>2, <1>3, MovedFacts
<1> HIDE DEF p
<1>5. Fine(p) /\ Grown(q, p) /\ OnPage(p) # {}
  BY <1>2, <1>4, GrownOn DEF Fine
<1> QED BY <1>5 DEF p, away

LEMMA SwitchToKeeps == ASSUME Inv, NEW b \in DOMAIN books, SwitchTo(b) PROVE Inv'
<1> USE DEF Inv
<1> DEFINE q == Moved(PutAway(Page), b, "shown")
<1>1. Fine(Page) /\ b \in DOMAIN Page.books
  BY DEF TypeInv, Page
<1>2. Fine(q) /\ Grown(Page, q) /\ OnPage(q) # {}
  BY <1>1, ShowFacts
<1>3. deeds' \in [done : Nat, lost : Nat, bare : BOOLEAN] /\ deeds'.bare = deeds.bare
  BY DeedTyped DEF SwitchTo
<1>4. Becomes(q) /\ UNCHANGED <<listing, folder, calls, doubt>>
  BY DEF SwitchTo
<1> HIDE DEF q
<1>5. Fine(Page)' /\ Grows /\ ShownInv'
  BY <1>2, <1>3, <1>4, PageGrows
<1>6. TypeInv'
  BY <1>3, <1>4, <1>5 DEF TypeInv
<1> QED BY <1>4, <1>5, <1>6, SameCalls, QuietKeeps

(* A request that is not about to save is added. *)
LEMMA AskTyped ==
    ASSUME NEW what \in {"put", "drop", "get", "copy", "remove", "move", "list", "packages"},
           NEW b \in Nat, NEW name \in FileNames \cup {NoLink}
    PROVE  Ask(what, b, name) \in CallRecords
BY DEF Ask, CallRecords, Icons, Links, NoCells

LEMMA AskedQuiet ==
    ASSUME CallsInv, NEW d, calls' = calls \cup {d}, ~d.done, d.what \notin {"put", "drop"},
           CallInv(d)'
    PROVE  QuietCalls
BY DEF QuietCalls, AlikeCall

LEMMA EditPackagesKeeps == ASSUME Inv, EditPackages PROVE Inv'
<1> USE DEF Inv
<1> DEFINE away == PutAway(Page)
           packs == {b \in Present(away) : books[b].pack}
           u == Unused(away)
           packages == [Book("book", Hourglass, Blank) EXCEPT !.title = "Packages", !.pack = TRUE]
<1>1. PICK n \in Nat : Page \in Pages(n)
  BY DEF TypeInv, Fine
<1>2. away \in Pages(n) /\ Grown(Page, away) /\ OnPage(away) = {} /\ Fine(Page)
  BY <1>1, PutAwayFacts DEF TypeInv
<1>3. u = n + 1 /\ DOMAIN away.books = 1..n /\ DOMAIN books = 1..n
  BY <1>1, <1>2, UnusedIs DEF Pages, Page
<1>4. deeds' \in [done : Nat, lost : Nat, bare : BOOLEAN] /\ deeds'.bare = deeds.bare
  BY DeedTyped DEF EditPackages
<1>5. CASE /\ \E c \in Present(away) : Bare(away, c)
           /\ Becomes(away) /\ UNCHANGED <<calls, listing, folder, doubt>>
  <2>1. PICK c \in DOMAIN books : books[c].text = NoCells
    BY <1>2, <1>3, <1>5 DEF Present, Bare, Grown, AlikeBook, Page
  <2>2. deeds.bare
    BY <2>1 DEF ShownInv
  <2>3. away = [books |-> away.books, opened |-> away.opened]
    BY <1>2 DEF Pages
  <2> HIDE DEF away
  <2>4. Page' = away
    BY <1>5, <2>3 DEF Becomes, Page
  <2>5. Grows
    BY <1>2, <1>3, <2>4 DEF Grows, Grown, AlikeBook, Page
  <2>6. Fine(Page)'
    BY <1>2, <2>4 DEF Fine
  <2>7. ShownInv'
    BY <1>4, <2>2 DEF ShownInv
  <2>8. TypeInv'
    BY <1>4, <1>5, <2>6 DEF TypeInv
  <2> QED BY <1>5, <2>5, <2>7, <2>8, SameCalls, QuietKeeps
<1>6. CASE /\ \E c \in packs : Becomes(Moved(away, c, "shown"))
           /\ UNCHANGED <<calls, listing, folder, doubt>>
  <2>1. PICK c \in packs : Becomes(Moved(away, c, "shown"))
    BY <1>6
  <2> DEFINE q == Moved(away, c, "shown")
  <2>2. c \in DOMAIN Page.books
    BY <1>3 DEF Present, Page
  <2>3. Fine(q) /\ Grown(Page, q) /\ OnPage(q) # {} /\ Becomes(q)
    BY <1>2, <2>1, <2>2, ShowFacts
  <2> HIDE DEF q
  <2>4. Fine(Page)' /\ Grows /\ ShownInv'
    BY <1>2, <1>4, <2>3, PageGrows
  <2>5. TypeInv'
    BY <1>4, <1>6, <2>4 DEF TypeInv
  <2> QED BY <1>6, <2>4, <2>5, SameCalls, QuietKeeps
<1>7. CASE /\ Becomes(WithBook(away, u, packages))
           /\ calls' = calls \cup {Ask("packages", u, NoLink)}
           /\ UNCHANGED <<listing, folder, doubt>>
  <2> DEFINE q == WithBook(away, u, packages)
  <2>1. Book("book", Hourglass, Blank) \in BookRecords
    BY BookTyped, KindsTyped DEF Icons, Blank
  <2>2. packages \in BookRecords /\ packages.at = "shown" /\ packages.name = Unnamed
        /\ packages.text = Blank
    BY <2>1 DEF BookRecords, Titled, Book
  <2>3. u \in 1..(n + 1) /\ u \notin 1..n
    BY <1>3
  <2> HIDE DEF away, packages, u
  <2>4. /\ Fine(q) /\ OnPage(q) = {u} /\ DOMAIN q.books = 1..n \cup {u} /\ q.books[u] = packages
        /\ \A c \in 1..n : c # u => q.books[c] = away.books[c]
    BY <1>2, <2>2, <2>3, WithBookFacts
  <2>5. Grown(away, q)
    BY <1>3, <2>2, <2>3, <2>4 DEF Grown, AlikeBook
  <2>6. Grown(Page, q) /\ OnPage(q) # {}
    BY <1>2, <2>4, <2>5, GrownOn
  <2> HIDE DEF q
  <2>7. Becomes(q)
    BY <1>7 DEF q
  <2>8. Fine(Page)' /\ Grows /\ ShownInv'
    BY <1>2, <1>4, <2>4, <2>6, <2>7, PageGrows
  <2>9. PICK ask : ask = Ask("packages", u, NoLink)
    OBVIOUS
  <2>10. ask \in CallRecords
    BY <1>3, <2>9, AskTyped
  <2>11. calls' = calls \cup {ask}
    BY <1>7, <2>9
  <2>12. TypeInv'
    BY <1>4, <1>7, <2>8, <2>10, <2>11 DEF TypeInv
  <2>13. ~ask.done /\ ask.what = "packages" /\ ask.book \in DOMAIN books'
    <3>1. ~ask.done /\ ask.what = "packages" /\ ask.book = u
      BY <2>9 DEF Ask
    <3> QED BY <2>4, <2>7, <3>1 DEF Becomes
  <2>14. CallInv(ask)'
    BY <2>13 DEF CallInv
  <2>15. QuietCalls
    BY <2>11, <2>13, <2>14, AskedQuiet
  <2> QED BY <1>7, <2>8, <2>12, <2>15, QuietKeeps
<1> QED BY <1>5, <1>6, <1>7 DEF EditPackages

-----------------------------------------------------------------------------
(* What users do with files: a request for one. *)
Listing(l) == l \in [DOMAIN l -> [icon : Icons, title : Titled]] /\ DOMAIN l \subseteq FileNames
Deeds(d) == d \in [done : Nat, lost : Nat, bare : BOOLEAN] /\ d.bare = deeds.bare

LEMMA AskKeeps ==
    ASSUME Inv, UNCHANGED <<books, opened, folder, doubt>>, NEW d \in CallRecords,
           calls' = calls \cup {d}, ~d.done, d.what \notin {"put", "drop"}, CallInv(d)',
           Listing(listing'), Deeds(deeds')
    PROVE  Inv'
<1> USE DEF Inv
<1>1. QuietCalls
  BY AskedQuiet
<1>2. Page' = Page /\ OnPage(Page)' = OnPage(Page) /\ Fine(Page)'
  BY DEF Page, OnPage, TypeInv, Fine
<1>3. Grows /\ ShownInv'
  BY <1>2 DEF Grows, ShownInv, Deeds
<1>4. TypeInv'
  BY <1>2 DEF TypeInv, Listing, Deeds
<1> QED BY <1>1, <1>3, <1>4, QuietKeeps

LEMMA LinkFacts ==
    ASSUME TypeInv, NEW link \in DOMAIN listing
    PROVE  /\ Shows(link) \in FileNames /\ Shows(link)[1] = Kind(listing[link].icon)
           /\ listing[link].icon \in Icons /\ listing[link].title \in Titled
           /\ Kind(listing[link].icon) \in IconKinds
           /\ link \in FileNames /\ link \in Links /\ link # NoLink
<1>1. listing[link].icon \in Icons /\ listing[link].title \in Titled /\ link \in FileNames
  BY DEF TypeInv
<1>2. Kind(listing[link].icon) \in IconKinds
  BY <1>1, KindsTyped DEF Kind, Icons
<1>3. Shows(link) \in FileNames /\ Shows(link)[1] = Kind(listing[link].icon)
  BY <1>1, <1>2 DEF Shows, FileNames
<1>4. link # NoLink
  BY <1>1 DEF FileNames, NoLink
<1> QED BY <1>1, <1>2, <1>3, <1>4 DEF Links

(* A file is opened, *)
LEMMA OpenFileKeeps == ASSUME Inv, NEW link \in DOMAIN listing, OpenFile(link) PROVE Inv'
<1>1. PICK ask : ask = Ask("get", 0, Shows(link))
  OBVIOUS
<1>2. PICK d : d = [ask EXCEPT !.icon = listing[link].icon, !.link = link]
  OBVIOUS
<1>3. ask \in CallRecords
  BY <1>1, LinkFacts, AskTyped DEF Inv
<1>4. d \in CallRecords
  BY <1>2, <1>3, LinkFacts DEF CallRecords, Inv
<1>5. /\ d.what = "get" /\ ~d.done /\ d.name = Shows(link) /\ d.to = Shows(link)
      /\ d.icon = listing[link].icon
  BY <1>1, <1>2 DEF Ask
<1>6. CallInv(d)'
  BY <1>5, LinkFacts DEF CallInv, Inv
<1>7. Listing(listing')
  <2>1. listing' = [listing EXCEPT ![link].icon = Hourglass]
    BY DEF OpenFile
  <2>2. \A l \in DOMAIN listing : listing[l] \in [icon : Icons, title : Titled]
    BY DEF Inv, TypeInv
  <2>3. [listing[link] EXCEPT !.icon = Hourglass] \in [icon : Icons, title : Titled]
    BY <2>2 DEF Icons
  <2> QED BY <2>1, <2>3 DEF Listing, Inv, TypeInv
<1>8. Deeds(deeds')
  BY DeedTyped DEF OpenFile, Deeds, Inv
<1> QED BY <1>1, <1>2, <1>4, <1>5, <1>6, <1>7, <1>8, AskKeeps DEF OpenFile

(* copied, *)
LEMMA CopyFileKeeps == ASSUME Inv, NEW link \in DOMAIN listing, CopyFile(link) PROVE Inv'
<1>1. PICK ask : ask = Ask("copy", 0, Shows(link))
  OBVIOUS
<1>2. PICK d : d = [ask EXCEPT !.icon = listing[link].icon]
  OBVIOUS
<1>3. ask \in CallRecords
  BY <1>1, LinkFacts, AskTyped DEF Inv
<1>4. d \in CallRecords
  BY <1>2, <1>3, LinkFacts DEF CallRecords, Inv
<1>5. /\ d.what = "copy" /\ ~d.done /\ d.name = Shows(link) /\ d.to = Shows(link)
      /\ d.icon = listing[link].icon
  BY <1>1, <1>2 DEF Ask
<1>6. CallInv(d)'
  BY <1>5, LinkFacts DEF CallInv, Inv
<1>7. Listing(listing') /\ Deeds(deeds')
  BY DeedTyped DEF CopyFile, Listing, Deeds, Inv, TypeInv
<1> QED BY <1>1, <1>2, <1>4, <1>5, <1>6, <1>7, AskKeeps DEF CopyFile

(* removed, *)
LEMMA RemoveFileKeeps == ASSUME Inv, NEW link \in DOMAIN listing, RemoveFile(link) PROVE Inv'
<1>1. PICK ask : ask = Ask("remove", 0, Shows(link))
  OBVIOUS
<1>2. PICK d : d = [ask EXCEPT !.link = link]
  OBVIOUS
<1>3. ask \in CallRecords
  BY <1>1, LinkFacts, AskTyped DEF Inv
<1>4. d \in CallRecords
  BY <1>2, <1>3, LinkFacts DEF CallRecords, Inv
<1>5. d.what = "remove" /\ ~d.done /\ d.name = Shows(link) /\ d.to = Shows(link)
  BY <1>1, <1>2 DEF Ask
<1>6. CallInv(d)'
  BY <1>5, LinkFacts DEF CallInv, Inv
<1>7. Listing(listing') /\ Deeds(deeds')
  BY DeedTyped DEF RemoveFile, Listing, Deeds, Inv, TypeInv
<1> QED BY <1>1, <1>2, <1>4, <1>5, <1>6, <1>7, AskKeeps DEF RemoveFile

(* or renamed. *)
LEMMA RenameFileKeeps ==
    ASSUME Inv, NEW link \in DOMAIN listing, NEW title \in Titles, RenameFile(link, title)
    PROVE  Inv'
<1>1. PICK ask : ask = Ask("move", 0, Shows(link))
  OBVIOUS
<1> DEFINE kind == Kind(listing[link].icon)
<1>2. PICK d : d = [ask EXCEPT !.to = <<kind, title>>, !.icon = listing[link].icon, !.link = link]
  OBVIOUS
<1>3. ask \in CallRecords
  BY <1>1, LinkFacts, AskTyped DEF Inv
<1>4. title \in Titled /\ <<kind, title>> \in FileNames
  BY LinkFacts DEF FileNames, Titled, Inv
<1>5. d \in CallRecords
  BY <1>2, <1>3, <1>4, LinkFacts DEF CallRecords, Inv
<1>6. /\ d.what = "move" /\ ~d.done /\ d.name = Shows(link) /\ d.to = <<kind, title>>
      /\ d.icon = listing[link].icon /\ d.link = link
  BY <1>1, <1>2 DEF Ask
<1>7. CallInv(d)'
  <2>1. d.name \in FileNames /\ d.to \in FileNames /\ d.name[1] = kind /\ d.to[1] = kind
    BY <1>4, <1>6, LinkFacts DEF Inv
  <2> QED BY <1>6, <2>1, LinkFacts DEF CallInv, Inv
<1>8. Listing(listing')
  <2>1. listing' = [listing EXCEPT ![link].title = title]
    BY DEF RenameFile
  <2>2. \A l \in DOMAIN listing : listing[l] \in [icon : Icons, title : Titled]
    BY DEF Inv, TypeInv
  <2>3. [listing[link] EXCEPT !.title = title] \in [icon : Icons, title : Titled]
    BY <1>4, <2>2
  <2> QED BY <2>1, <2>3 DEF Listing, Inv, TypeInv
<1>9. Deeds(deeds')
  BY DeedTyped DEF RenameFile, Deeds, Inv
<1> QED BY <1>1, <1>2, <1>5, <1>6, <1>7, <1>8, <1>9, AskKeeps DEF RenameFile

(* The files are listed. *)
LEMMA OpenSideKeeps == ASSUME Inv, OpenSide PROVE Inv'
<1>1. PICK d : d = Ask("list", 0, NoLink)
  OBVIOUS
<1>2. d \in CallRecords /\ d.what = "list" /\ ~d.done
  BY <1>1, AskTyped DEF Ask
<1>3. CallInv(d)'
  BY <1>2 DEF CallInv
<1>4. Listing(listing') /\ Deeds(deeds')
  BY DeedTyped DEF OpenSide, Listing, Deeds, Inv, TypeInv
<1> QED BY <1>1, <1>2, <1>3, <1>4, AskKeeps DEF OpenSide

-----------------------------------------------------------------------------
(* Answers that concern no file.  Links that are no longer shown keep their title. *)
LEMMA DetachedFacts ==
    ASSUME Inv, NEW those \in SUBSET calls, NEW L,
           \A c \in calls : c \in Moving(c.name) => c \in those,
           calls' = Detached(those, L)
    PROVE  QuietCalls /\ calls' \subseteq CallRecords
<1> USE DEF Inv
<1> DEFINE to(c) == IF c.link \in L \cap DOMAIN listing
                    THEN [c EXCEPT !.link = <<"gone", listing[c.link].title>>] ELSE c
<1>1. calls' = {to(c) : c \in those}
  BY DEF Detached
<1>2. ASSUME NEW c \in those PROVE to(c) \in CallRecords /\ AlikeCall(c, to(c))
  <2>1. c \in CallRecords /\ CallInv(c)
    BY DEF TypeInv, CallsInv
  <2>2. CASE c.link \in L \cap DOMAIN listing
    <3> DEFINE link == <<"gone", listing[c.link].title>>
    <3>1. link \in Links /\ link # NoLink
      BY <2>2, LinkFacts DEF Links, NoLink
    <3>2. c.link # NoLink
      BY <2>2, LinkFacts
    <3>3. c.what \notin {"put", "drop"}
      BY <2>1, <3>2 DEF CallInv
    <3> HIDE DEF link
    <3>4. [c EXCEPT !.link = link] \in CallRecords /\ AlikeCall(c, [c EXCEPT !.link = link])
      BY <2>1, <3>1, <3>3 DEF CallRecords, AlikeCall
    <3> QED BY <2>2, <3>4 DEF link
  <2>3. CASE c.link \notin L \cap DOMAIN listing
    BY <2>1, <2>3 DEF AlikeCall
  <2> QED BY <2>2, <2>3
<1> HIDE DEF to
<1> QED BY <1>1, <1>2 DEF QuietCalls

LEMMA CallGone ==
    ASSUME NEW c \in calls, c.what # "move"
    PROVE  /\ calls \ {c} \in SUBSET calls
           /\ \A d \in calls : d \in Moving(d.name) => d \in calls \ {c}
BY DEF Moving

LEMMA FewerCalls ==
    ASSUME Inv, NEW c \in calls, c.what # "move", calls' = calls \ {c}
    PROVE  QuietCalls /\ calls' \subseteq CallRecords
BY CallGone DEF QuietCalls, AlikeCall, Inv, TypeInv

(* A file is gone: its tabs are closed. *)
LEMMA OnRemovedKeeps == ASSUME Inv, NEW c \in calls, OnRemoved(c) PROVE Inv'
<1> USE DEF Inv
<1>1. c.what = "remove" /\ UNCHANGED <<folder, deeds, doubt>>
  BY DEF OnRemoved, Came
<1>2. CASE c.ok
  <2> DEFINE doomed == Filtered(opened, Of(c.name))
             q == ClosedAll(Page, doomed)
  <2>1. /\ Becomes(q) /\ listing' = Restrict(listing, DOMAIN listing \ {c.link})
        /\ calls' = Detached(calls \ {c}, {c.link})
    BY <1>2 DEF OnRemoved
  <2>2. Fine(Page) /\ opened \in Seq(DOMAIN Page.books)
    BY DEF TypeInv, Fine, Pages, Page
  <2>3. doomed \in Seq(DOMAIN Page.books)
    BY <2>2, FilteredTyped
  <2> HIDE DEF doomed
  <2>4. Fine(q) /\ Grown(Page, q) /\ (OnPage(Page) # {} => OnPage(q) # {})
    BY <2>2, <2>3, ClosedAllFacts
  <2> HIDE DEF q
  <2>5. Fine(Page)' /\ Grows /\ ShownInv'
    BY <1>1, <2>1, <2>4, PageGrows
  <2>6. QuietCalls /\ calls' \subseteq CallRecords
    BY <1>1, <2>1, CallGone, DetachedFacts
  <2>7. Listing(listing')
    BY <2>1 DEF TypeInv, Listing, Restrict
  <2>8. TypeInv'
    BY <1>1, <2>5, <2>6, <2>7 DEF TypeInv, Listing
  <2> QED BY <1>1, <2>5, <2>6, <2>8, QuietKeeps
<1>3. CASE ~c.ok
  <2>1. calls' = calls \ {c} /\ UNCHANGED <<books, opened, listing>>
    BY <1>3 DEF OnRemoved
  <2>2. QuietCalls /\ calls' \subseteq CallRecords
    BY <1>1, <2>1, FewerCalls
  <2>3. Fine(Page)' /\ Grows /\ ShownInv'
    BY <1>1, <2>1 DEF Page, OnPage, TypeInv, Fine, Grows, ShownInv
  <2>4. TypeInv'
    BY <1>1, <2>1, <2>2, <2>3 DEF TypeInv
  <2> QED BY <1>1, <2>2, <2>3, <2>4, QuietKeeps
<1> QED BY <1>2, <1>3

LEMMA OnListedKeeps == ASSUME Inv, NEW c \in calls, OnListed(c) PROVE Inv'
<1> USE DEF Inv
<1>1. /\ c.what = "list" /\ UNCHANGED <<books, opened, folder, deeds, doubt>>
      /\ listing' = [name \in c.names |-> [icon |-> name[1], title |-> name[2]]]
      /\ calls' = Detached(calls \ {c}, DOMAIN listing)
  BY DEF OnListed, Came
<1>2. QuietCalls /\ calls' \subseteq CallRecords
  BY <1>1, CallGone, DetachedFacts
<1>3. c.names \subseteq FileNames
  BY DEF TypeInv, CallRecords
<1>4. \A name \in c.names : [icon |-> name[1], title |-> name[2]] \in [icon : Icons, title : Titled]
  BY <1>3, KindsTyped DEF FileNames
<1>5. Listing(listing')
  BY <1>1, <1>3, <1>4 DEF Listing
<1>6. Fine(Page)' /\ Grows /\ ShownInv'
  BY <1>1 DEF Page, OnPage, TypeInv, Fine, Grows, ShownInv
<1>7. TypeInv'
  BY <1>1, <1>2, <1>5, <1>6 DEF TypeInv, Listing
<1> QED BY <1>1, <1>2, <1>6, <1>7, QuietKeeps

(* A book gets another icon. *)
LEMMA IconFacts ==
    ASSUME TypeInv, ShownInv, NEW b \in DOMAIN books, NEW icon \in Icons,
           books' = [books EXCEPT ![b].icon = icon], UNCHANGED <<opened, deeds>>
    PROVE  Fine(Page)' /\ Grows /\ ShownInv'
<1>1. PICK n \in Nat : Page \in Pages(n)
  BY DEF TypeInv, Fine
<1>2. books \in [1..n -> BookRecords] /\ opened \in Seq(1..n) /\ DOMAIN books = 1..n
  BY <1>1 DEF Pages, Page
<1> DEFINE book == [books[b] EXCEPT !.icon = icon]
<1>3. book \in BookRecords /\ book.kind = books[b].kind /\ book.name = books[b].name
      /\ book.text = books[b].text /\ book.mark = books[b].mark /\ book.at = books[b].at
  BY <1>2 DEF BookRecords
<1>4. books' = [books EXCEPT ![b] = book]
  OBVIOUS
<1> HIDE DEF book
<1>5. /\ books' \in [1..n -> BookRecords] /\ DOMAIN books' = 1..n /\ books'[b] = book
      /\ \A c \in 1..n : c # b => books'[c] = books[c]
  BY <1>2, <1>3, <1>4
<1>6. Grows
  BY <1>2, <1>3, <1>5 DEF Grows
<1>7. OnPage(Page)' = OnPage(Page)
  <2>1. \A c \in 1..n : books'[c].at = books[c].at
    BY <1>3, <1>5
  <2> QED BY <1>2, <1>5, <2>1 DEF OnPage, Page
<1>8. Fine(Page)'
  <2>1. (Page \in Pages(n))'
    BY <1>2, <1>5 DEF Page, Pages
  <2> QED BY <1>7, <2>1 DEF Fine, TypeInv
<1>9. ShownInv'
  BY <1>2, <1>5, <1>6, <1>7 DEF ShownInv, Grows
<1> QED BY <1>6, <1>8, <1>9

LEMMA RenderedKeeps == ASSUME Inv, NEW b \in DOMAIN books, Rendered(b) PROVE Inv'
<1> USE DEF Inv
<1>1. /\ books' = [books EXCEPT ![b].icon = books[b].final]
      /\ UNCHANGED <<opened, listing, folder, calls, deeds, doubt>>
  BY DEF Rendered
<1>2. books[b].final \in Icons
  BY DEF TypeInv, Fine, Pages, Page, BookRecords
<1>3. Fine(Page)' /\ Grows /\ ShownInv'
  BY <1>1, <1>2, IconFacts
<1>4. TypeInv'
  BY <1>1, <1>3 DEF TypeInv
<1> QED BY <1>1, <1>3, <1>4, SameCalls, QuietKeeps

LEMMA OnPackagesKeeps == ASSUME Inv, NEW c \in calls, OnPackages(c) PROVE Inv'
<1> USE DEF Inv
<1>1. /\ books' = [books EXCEPT ![c.book].icon = "lib"] /\ calls' = calls \ {c}
      /\ UNCHANGED <<opened, listing, folder, deeds, doubt>> /\ c.what = "packages"
  BY DEF OnPackages, Came
<1>2. c.book \in DOMAIN books /\ "lib" \in Icons
  BY <1>1 DEF CallsInv, CallInv, Icons, IconKinds
<1>3. Fine(Page)' /\ Grows /\ ShownInv'
  BY <1>1, <1>2, IconFacts
<1>4. QuietCalls /\ calls' \subseteq CallRecords
  BY <1>1, FewerCalls
<1>5. TypeInv'
  BY <1>1, <1>3, <1>4 DEF TypeInv
<1> QED BY <1>1, <1>3, <1>4, <1>5, QuietKeeps

-----------------------------------------------------------------------------
(* Steps that change what a book has.  It stays where it is. *)
LEMMA KeepsAll ==
    ASSUME Inv, folder' = folder, SameBooks, NewCalls, SameMoves, SamePuts,
           TypeInv', CallsInv', ShownInv'
    PROVE  Inv'
BY FilesKept, PutsKept, GetsKept DEF Inv

LEMMA BookFacts ==
    ASSUME TypeInv, NEW b \in DOMAIN books, NEW book \in BookRecords, book.at = books[b].at,
           books' = [books EXCEPT ![b] = book], opened' \in Seq(DOMAIN books)
    PROVE  /\ Fine(Page)' /\ OnPage(Page)' = OnPage(Page)
           /\ DOMAIN books' = DOMAIN books /\ books'[b] = book
           /\ \A c \in DOMAIN books : c # b => books'[c] = books[c]
<1>1. PICK n \in Nat : Page \in Pages(n)
  BY DEF TypeInv, Fine
<1>2. books \in [1..n -> BookRecords] /\ DOMAIN books = 1..n
  BY <1>1 DEF Pages, Page
<1>3. /\ books' \in [1..n -> BookRecords] /\ DOMAIN books' = 1..n /\ books'[b] = book
      /\ \A c \in 1..n : c # b => books'[c] = books[c]
  BY <1>2
<1>4. OnPage(Page)' = OnPage(Page)
  <2>1. \A c \in 1..n : books'[c].at = books[c].at
    BY <1>3
  <2> QED BY <1>2, <1>3, <2>1 DEF OnPage, Page
<1>5. Fine(Page)'
  <2>1. (Page \in Pages(n))'
    BY <1>2, <1>3 DEF Page, Pages
  <2> QED BY <1>4, <2>1 DEF Fine, TypeInv
<1> QED BY <1>2, <1>3, <1>4, <1>5

LEMMA BookTypes ==
    ASSUME TypeInv
    PROVE  /\ \A b \in DOMAIN books : books[b] \in BookRecords
           /\ opened \in Seq(DOMAIN books) /\ DOMAIN books \subseteq Nat
BY DEF TypeInv, Fine, Pages, Page

LEMMA NewCallsSame == ASSUME calls' \subseteq calls PROVE NewCalls
BY DEF NewCalls, AlikeCall

(* A book that is typed into is marked: no more is said of it than what was saved. *)
LEMMA TypeKeeps == ASSUME Inv, NEW b \in DOMAIN books, Type(b) PROVE Inv'
<1> USE DEF Inv
<1>1. /\ books' = [books EXCEPT ![b].text = deeds'.done + 1, ![b].mark = TRUE]
      /\ UNCHANGED <<opened, listing, folder, calls, doubt>>
  BY DEF Type
<1>2. /\ deeds' \in [done : Nat, lost : Nat, bare : BOOLEAN] /\ deeds'.bare = deeds.bare
      /\ deeds'.done + 1 \in Nat /\ deeds'.done + 1 # NoCells
  BY DeedTyped DEF Type, TypeInv, NoCells
<1> DEFINE book == [books[b] EXCEPT !.text = deeds'.done + 1, !.mark = TRUE]
<1>3. /\ book \in BookRecords /\ book.at = books[b].at /\ book.mark = TRUE /\ book.text # NoCells
      /\ book.kind = books[b].kind /\ book.name = books[b].name
  BY <1>2, BookTypes DEF BookRecords
<1>4. books' = [books EXCEPT ![b] = book]
  BY <1>1
<1> HIDE DEF book
<1>5. /\ Fine(Page)' /\ OnPage(Page)' = OnPage(Page)
      /\ DOMAIN books' = DOMAIN books /\ books'[b] = book
      /\ \A c \in DOMAIN books : c # b => books'[c] = books[c]
  BY <1>1, <1>3, <1>4, BookTypes, BookFacts
<1>6. TypeInv' /\ ShownInv'
  BY <1>1, <1>2, <1>3, <1>5 DEF TypeInv, ShownInv
<1>7. \A c \in DOMAIN books : FullName(c)' = FullName(c) /\ (Named(c)' <=> Named(c))
  BY <1>3, <1>5 DEF FullName, Named
<1>8. CallsInv'
  BY <1>1, <1>5, <1>7 DEF CallsInv, CallInv
<1>9. NewCalls /\ SameMoves /\ SamePuts
  BY <1>1, <1>7, NewCallsSame DEF SameMoves, AlikeCall, SamePuts, CallsInv, CallInv
<1>10. \A c \in DOMAIN books : \A text : Kept(c, text)' => Kept(c, text)
  BY <1>1, <1>3, <1>5 DEF Kept
<1>11. SameBooks
  BY <1>1, <1>5, <1>7, <1>10 DEF SameBooks
<1> QED BY <1>1, <1>6, <1>8, <1>9, <1>11, KeepsAll

(* What is lost was done, or not: the books of a file that was renamed are in doubt. *)
LEMMA LostKeeps == ASSUME Inv, NEW c \in calls, Lost(c) PROVE Inv'
<1> USE DEF Inv
<1>1. /\ calls' = calls \ {c} /\ UNCHANGED <<books, opened, listing, folder>>
      /\ deeds' = [deeds EXCEPT !.lost = @ + 1]
      /\ doubt' = IF c \in Moving(c.name) THEN doubt \cup Touched(c.name) ELSE doubt
  BY DEF Lost, Mishap
<1>2. deeds' \in [done : Nat, lost : Nat, bare : BOOLEAN] /\ deeds'.bare = deeds.bare
  BY <1>1 DEF TypeInv
<1>3. TypeInv' /\ ShownInv'
  BY <1>1, <1>2 DEF TypeInv, Fine, OnPage, Page, ShownInv
<1>4. CallsInv'
  BY <1>1 DEF CallsInv, CallInv, Named
<1>5. NewCalls /\ SamePuts
  BY <1>1, NewCallsSame DEF SamePuts, FullName
<1>6. SameMoves
  BY <1>1 DEF SameMoves, AlikeCall, Touched
<1>7. SameBooks
  BY <1>1 DEF SameBooks, Kept, FullName, Named
<1> QED BY <1>1, <1>3, <1>4, <1>5, <1>6, <1>7, KeepsAll

(* The mark goes when a save is answered.  The book is in doubt unless it has the text that    *)
(* was sent, which was in the file when the save was done. *)
LEMMA OnPutKeeps == ASSUME Inv, NEW c \in calls, OnPut(c) PROVE Inv'
<1> USE DEF Inv
<1> DEFINE b == c.book
           book == [books[b] EXCEPT !.mark = FALSE]
<1>1. /\ c.what = "put" /\ c.done /\ books' = [books EXCEPT ![b] = book]
      /\ doubt' = (IF c.ok /\ books[b].text = c.text THEN doubt ELSE doubt \cup {b})
      /\ UNCHANGED <<listing, folder, deeds>>
  BY DEF OnPut, Came
<1>2. opened' \in Seq(DOMAIN books)
  BY BookTypes, FilteredTyped DEF OnPut
<1>3. PICK d : d = Ask("list", 0, NoLink)
  OBVIOUS
<1>4. d \in CallRecords /\ d.what = "list" /\ ~d.done /\ calls' = (calls \ {c}) \cup {d}
  BY <1>3, AskTyped DEF Ask, OnPut
<1>5. b \in DOMAIN books /\ Named(b)
  BY <1>1 DEF CallsInv, CallInv
<1>6. /\ book \in BookRecords /\ book.at = books[b].at /\ book.text = books[b].text
      /\ book.kind = books[b].kind /\ book.name = books[b].name
  BY <1>5, BookTypes DEF BookRecords
<1> HIDE DEF book, b
<1>7. /\ Fine(Page)' /\ OnPage(Page)' = OnPage(Page)
      /\ DOMAIN books' = DOMAIN books /\ books'[b] = book
      /\ \A e \in DOMAIN books : e # b => books'[e] = books[e]
  BY <1>1, <1>2, <1>5, <1>6, BookFacts
<1>8. TypeInv' /\ ShownInv'
  BY <1>1, <1>4, <1>6, <1>7 DEF TypeInv, ShownInv
<1>9. \A e \in DOMAIN books : /\ FullName(e)' = FullName(e) /\ (Named(e)' <=> Named(e))
                              /\ books'[e].text = books[e].text
  BY <1>6, <1>7 DEF FullName, Named
<1>10. CallInv(d)'
  BY <1>4 DEF CallInv
<1>11. CallsInv'
  BY <1>4, <1>7, <1>9, <1>10 DEF CallsInv, CallInv
<1>12. NewCalls /\ SamePuts
  BY <1>1, <1>4, <1>9 DEF NewCalls, AlikeCall, SamePuts, CallsInv, CallInv
<1>13. SameMoves
  BY <1>1, <1>4 DEF SameMoves, AlikeCall, Moving
<1>14. ASSUME NEW e \in DOMAIN books, e \notin doubt', NEW text, Kept(e, text)'
       PROVE  Kept(e, text)
  <2>1. CASE ~books'[e].mark /\ books'[e].text = text
    <3>1. CASE e # b
      BY <1>7, <2>1, <3>1 DEF Kept
    <3>2. CASE e = b
      BY <1>1, <1>9, <1>14, <2>1, <3>2 DEF Kept, b
    <3> QED BY <3>1, <3>2
  <2>2. CASE \E f \in calls' : f.what = "put" /\ f.done /\ f.ok /\ f.book = e /\ f.text = text
    BY <1>4, <2>2 DEF Kept
  <2> QED BY <1>14, <2>1, <2>2 DEF Kept
<1>15. SameBooks
  BY <1>1, <1>7, <1>9, <1>14 DEF SameBooks
<1> QED BY <1>1, <1>8, <1>11, <1>12, <1>13, <1>15, KeepsAll

-----------------------------------------------------------------------------
(* Saving a book: it gets the name it is saved by, and a request for that file. *)
LEMMA TitledNamed == \A title \in Titled : title # Unnamed
BY TabsAssumption DEF Titled, Unnamed, Untitled

LEMMA SavesKeep ==
    ASSUME Inv, NEW b \in DOMAIN books, NEW book \in BookRecords,
           book.at = books[b].at, book.kind = books[b].kind, book.text = books[b].text,
           book.mark = books[b].mark, book.name # Unnamed,
           books' = [books EXCEPT ![b] = book], UNCHANGED <<opened, listing, folder>>,
           Deeds(deeds'), NEW others \in SUBSET calls,
           \A c \in calls : c \in Moving(c.name) => c \in others,
           NEW d \in CallRecords, calls' = others \cup {d}, d.what \in {"put", "drop"},
           d.book = b, ~d.done, d.link = NoLink, d.name \in FileNames, d.to \in FileNames,
           d.name = <<book.kind, book.name>>, doubt' \in {doubt, doubt \cup {b}},
           Saving(b) \/ book.name # books[b].name => b \in doubt'
    PROVE  Inv'
<1> USE DEF Inv
<1>1. /\ Fine(Page)' /\ OnPage(Page)' = OnPage(Page)
      /\ DOMAIN books' = DOMAIN books /\ books'[b] = book
      /\ \A c \in DOMAIN books : c # b => books'[c] = books[c]
  BY BookTypes, BookFacts
<1>2. TypeInv' /\ ShownInv'
  BY <1>1 DEF TypeInv, ShownInv, Deeds
<1>3. \A c \in DOMAIN books : c # b => FullName(c)' = FullName(c) /\ (Named(c)' <=> Named(c))
  BY <1>1 DEF FullName, Named
<1>4. /\ Named(b)' /\ FullName(b)' = d.name
      /\ (b \notin doubt' => Named(b) /\ FullName(b)' = FullName(b))
  BY <1>1 DEF FullName, Named
<1>5. CallInv(d)'
  BY <1>1, <1>4 DEF CallInv
<1>6. CallsInv'
  <2> SUFFICES ASSUME NEW e \in calls' PROVE CallInv(e)'
    BY DEF CallsInv
  <2>1. CASE e \in calls
    <3>1. CallInv(e) /\ AlikeCall(e, e)
      BY <2>1 DEF CallsInv, AlikeCall
    <3>2. e.what \in {"put", "drop", "packages"} =>
            e.book \in DOMAIN books' /\ (Named(e.book) => Named(e.book)')
      BY <1>1, <1>3, <1>4, <3>1 DEF CallInv
    <3> QED BY <2>1, <3>1, <3>2, CallsKept
  <2> QED BY <1>5, <2>1
<1>7. NewPut(d)
  BY <1>4 DEF NewPut, Saving
<1>8. NewCalls
  <2>1. \A c \in others : AlikeCall(c, c)
    BY DEF AlikeCall
  <2> QED BY <1>7, <2>1 DEF NewCalls
<1>9. SameMoves
  <2>1. \A c \in others : AlikeCall(c, c)
    BY DEF AlikeCall
  <2> QED BY <2>1 DEF SameMoves
<1>10. SamePuts
  <2> SUFFICES ASSUME NEW c \in calls, c.what \in {"put", "drop"}
               PROVE  /\ FullName(c.book)' = FullName(c.book) \/ c.book \in doubt'
                      /\ c.book \in doubt => c.book \in doubt'
    BY DEF SamePuts
  <2>1. c.book \in DOMAIN books
    BY DEF CallsInv, CallInv
  <2>2. c.book = b => Saving(b)
    BY DEF Saving
  <2> QED BY <1>3, <2>1, <2>2
<1>11. \A e \in DOMAIN books : \A text : Kept(e, text)' => Kept(e, text)
  BY <1>1 DEF Kept
<1>12. SameBooks
  BY <1>1, <1>3, <1>4, <1>11 DEF SameBooks
<1> QED BY <1>2, <1>6, <1>8, <1>9, <1>10, <1>12, KeepsAll

LEMMA SaveBookKeeps ==
    ASSUME Inv, NEW b \in DOMAIN books, NEW book \in BookRecords,
           book.at = books[b].at, book.kind = books[b].kind, book.text = books[b].text,
           book.mark = books[b].mark, book.name = books[b].name,
           NEW page, page = [books |-> [books EXCEPT ![b] = book], opened |-> opened],
           NEW f \in BOOLEAN, NEW others \in SUBSET calls,
           \A c \in calls : c \in Moving(c.name) => c \in others,
           SaveBook(b, page, f, others), UNCHANGED <<listing, folder>>, Deeds(deeds')
    PROVE  Inv'
<1>1. b \in Nat /\ page.books[b] = book /\ page.opened = opened
  BY BookTypes DEF Inv
<1>2. CASE HasOtherName(book) /\ ~f
  <2>1. PICK d : d = Ask("drop", b, <<book.kind, book.name>>)
    OBVIOUS
  <2>2. book.name # Unnamed /\ <<book.kind, book.name>> \in FileNames
    BY <1>2 DEF HasOtherName, BookRecords, FileNames
  <2>3. d \in CallRecords
    BY <1>1, <2>1, <2>2, AskTyped
  <2>4. /\ d.what = "drop" /\ d.book = b /\ ~d.done /\ d.link = NoLink
        /\ d.name = <<book.kind, book.name>> /\ d.to = d.name
    BY <2>1 DEF Ask
  <2>5. /\ books' = [books EXCEPT ![b] = book] /\ opened' = opened
        /\ calls' = others \cup {d}
        /\ doubt' = IF Saving(b) THEN doubt \cup {b} ELSE doubt
    BY <1>1, <1>2, <2>1 DEF SaveBook, Becomes
  <2> QED BY <2>2, <2>3, <2>4, <2>5, SavesKeep
<1>3. CASE ~ (HasOtherName(book) /\ ~f)
  <2> DEFINE saved == [book EXCEPT !.name = book.title]
  <2>1. /\ saved \in BookRecords /\ saved.at = book.at /\ saved.kind = book.kind
        /\ saved.text = book.text /\ saved.mark = book.mark /\ saved.name = book.title
    BY DEF BookRecords
  <2>2. book.title \in Titled /\ book.kind \in IconKinds
    BY DEF BookRecords
  <2>3. book.title # Unnamed /\ <<book.kind, book.title>> \in FileNames
    BY <2>2, TitledNamed DEF FileNames
  <2>4. PICK ask : ask = Ask("put", b, <<book.kind, book.title>>)
    OBVIOUS
  <2>5. ask \in CallRecords
    BY <1>1, <2>3, <2>4, AskTyped
  <2>6. PICK d : d = [ask EXCEPT !.text = book.text]
    OBVIOUS
  <2>7. d \in CallRecords
    BY <2>5, <2>6 DEF BookRecords, CallRecords
  <2>8. /\ d.what = "put" /\ d.book = b /\ ~d.done /\ d.link = NoLink
        /\ d.name = <<book.kind, book.title>> /\ d.to = d.name
    BY <2>4, <2>6 DEF Ask
  <2> DEFINE next == [page EXCEPT !.books[b].name = book.title]
  <2>9. Becomes(next) /\ calls' = others \cup {d}
        /\ doubt' = IF Saving(b) \/ book.name # book.title THEN doubt \cup {b} ELSE doubt
    BY <1>1, <1>3, <2>4, <2>6 DEF SaveBook
  <2>10. books' = [[books EXCEPT ![b] = book] EXCEPT ![b] = saved] /\ opened' = opened
    BY <2>9 DEF Becomes
  <2> HIDE DEF next, saved
  <2>11. books' = [books EXCEPT ![b] = saved]
    BY <2>10
  <2>12. /\ saved.at = books[b].at /\ saved.kind = books[b].kind /\ saved.text = books[b].text
         /\ saved.mark = books[b].mark /\ saved.name # Unnamed
         /\ d.name = <<saved.kind, saved.name>> /\ d.name \in FileNames /\ d.to \in FileNames
    BY <2>1, <2>3, <2>8
  <2>13. /\ doubt' \in {doubt, doubt \cup {b}}
         /\ Saving(b) \/ saved.name # books[b].name => b \in doubt'
    BY <2>1, <2>9
  <2>14. calls' = others \cup {d} /\ UNCHANGED <<opened, listing, folder>>
    BY <2>9, <2>10
  <2> QED BY ONLY Inv, SavesKeep, <2>1, <2>7, <2>8, <2>11, <2>12, <2>13, <2>14, Deeds(deeds'),
                  b \in DOMAIN books, others \in SUBSET calls,
                  \A c \in calls : c \in Moving(c.name) => c \in others
<1> QED BY <1>2, <1>3

LEMMA ClickIconKeeps == ASSUME Inv, NEW b \in DOMAIN books, ClickIcon(b) PROVE Inv'
<1> DEFINE book == books[b]
<1>1. book \in BookRecords
  BY BookTypes DEF Inv
<1>2. Page = [books |-> [books EXCEPT ![b] = book], opened |-> opened]
  <2>1. books = [books EXCEPT ![b] = book]
    BY DEF Inv, TypeInv, Fine, Pages, Page
  <2> QED BY <2>1 DEF Page
<1>3. \A c \in calls : c \in Moving(c.name) => c \in calls
  OBVIOUS
<1>4. SaveBook(b, Page, FALSE, calls) /\ UNCHANGED <<listing, folder>> /\ Deeds(deeds')
  BY DeedTyped DEF ClickIcon, Inv, Deeds
<1> HIDE DEF book
<1>5. \A p : p = Page => SaveBook(b, p, FALSE, calls)
  BY <1>4
<1>6. /\ book.at = books[b].at /\ book.kind = books[b].kind /\ book.text = books[b].text
      /\ book.mark = books[b].mark /\ book.name = books[b].name
  BY DEF book
<1> QED BY <1>1, <1>2, <1>3, <1>4, <1>6, SaveBookKeeps

LEMMA RetitleKeeps ==
    ASSUME Inv, NEW b \in DOMAIN books, NEW title \in Titles, Retitle(b, title)
    PROVE  Inv'
<1> DEFINE book == [books[b] EXCEPT !.title = title]
           page == [Page EXCEPT !.books[b].title = title]
<1>1. /\ book \in BookRecords /\ book.at = books[b].at /\ book.kind = books[b].kind
      /\ book.text = books[b].text /\ book.mark = books[b].mark /\ book.name = books[b].name
  BY BookTypes DEF Inv, BookRecords, Titled
<1>2. page = [books |-> [books EXCEPT ![b] = book], opened |-> opened]
  BY DEF Page
<1>3. SaveBook(b, page, FALSE, calls) /\ UNCHANGED <<listing, folder>> /\ Deeds(deeds')
  BY DeedTyped DEF Retitle, Inv, Deeds
<1> HIDE DEF book, page
<1> QED BY <1>1, <1>2, <1>3, SaveBookKeeps

(* The file of the other name is gone, and the book is saved, or it was not there. *)
LEMMA OnDropKeeps == ASSUME Inv, NEW c \in calls, OnDrop(c) PROVE Inv'
<1>1. c.what = "drop" /\ UNCHANGED <<listing, folder, deeds>>
  BY DEF OnDrop, Came
<1>2. c.book \in DOMAIN books
  BY <1>1 DEF Inv, CallsInv, CallInv
<1>3. CASE c.ok
  <2> DEFINE book == books[c.book]
  <2>1. book \in BookRecords
    BY <1>2, BookTypes DEF Inv
  <2>2. Page = [books |-> [books EXCEPT ![c.book] = book], opened |-> opened]
    <3>1. books = [books EXCEPT ![c.book] = book]
      BY <1>2 DEF Inv, TypeInv, Fine, Pages, Page
    <3> QED BY <3>1 DEF Page
  <2>3. SaveBook(c.book, Page, TRUE, calls \ {c})
    BY <1>3 DEF OnDrop
  <2>4. calls \ {c} \in SUBSET calls /\ \A d \in calls : d \in Moving(d.name) => d \in calls \ {c}
    BY <1>1, CallGone
  <2>5. Deeds(deeds')
    BY <1>1 DEF Deeds, Inv, TypeInv
  <2> HIDE DEF book
  <2>6. /\ book.at = books[c.book].at /\ book.kind = books[c.book].kind
        /\ book.text = books[c.book].text /\ book.mark = books[c.book].mark
        /\ book.name = books[c.book].name
    BY DEF book
  <2> QED BY <1>1, <1>2, <2>1, <2>2, <2>3, <2>4, <2>5, <2>6, SaveBookKeeps
<1>4. CASE ~c.ok
  <2>1. calls' = calls \ {c} /\ UNCHANGED <<books, opened, doubt>>
    BY <1>4 DEF OnDrop
  <2>2. QuietCalls /\ calls' \subseteq CallRecords
    BY <1>1, <2>1, FewerCalls
  <2>3. Fine(Page)' /\ Grows /\ ShownInv'
    BY <1>1, <2>1 DEF Page, OnPage, Inv, TypeInv, Fine, Grows, ShownInv
  <2>4. TypeInv'
    BY <1>1, <2>1, <2>2, <2>3 DEF TypeInv, Inv
  <2> QED BY <1>1, <2>1, <2>2, <2>3, <2>4, QuietKeeps
<1> QED BY <1>3, <1>4

-----------------------------------------------------------------------------
(* A file's book comes, in the place of one that has no name, or in one of its own. *)
LEMMA FilledTyped ==
    ASSUME NEW icon \in Icons, NEW text \in Nat, NEW name \in Titled \cup {Unnamed}
    PROVE  LET filled == Filled(icon, text, name)
           IN /\ filled \in BookRecords /\ filled.at = "shown" /\ filled.text = text
              /\ filled.name = name /\ filled.kind = Kind(icon)
<1>1. Kind(icon) \in IconKinds
  BY KindsTyped DEF Kind, Icons
<1>2. PICK book : book = Book(Kind(icon), Hourglass, text)
  OBVIOUS
<1>3. book \in BookRecords
  BY <1>1, <1>2, BookTyped DEF Icons
<1>4. /\ book.at = "shown" /\ book.text = text /\ book.name = Unnamed /\ book.kind = Kind(icon)
  BY <1>2 DEF Book
<1>5. Filled(icon, text, name) =
        [book EXCEPT !.final = icon, !.name = name, !.mark = (name = Unnamed),
                     !.title = IF name = Unnamed THEN Untitled ELSE name]
  BY <1>2 DEF Filled
<1> QED BY <1>3, <1>4, <1>5 DEF BookRecords, Titled

LEMMA OpensKeeps ==
    ASSUME Inv, NEW c \in calls, c.done, c.what \in {"get", "copy"}, NEW name,
           name = Unnamed \/ (c.what = "get" /\ name = c.name[2]),
           NEW q, Fine(q), Grown(Page, q), DOMAIN q.books = DOMAIN books,
           Opens(c, q, name), calls' = calls \ {c}, folder' = folder, Listing(listing')
    PROVE  Inv'
<1> USE DEF Inv
<1> DEFINE away == PutAway(q)
           filled == Filled(c.icon, c.text, name)
<1>1. PICK n \in Nat : q \in Pages(n)
  BY DEF Fine
<1>2. away \in Pages(n) /\ Grown(q, away) /\ OnPage(away) = {}
  BY <1>1, PutAwayFacts
<1>3. DOMAIN books = 1..n /\ DOMAIN away.books = 1..n /\ Unused(away) = n + 1
  BY <1>1, <1>2, UnusedIs DEF Pages
<1>4. \A e \in DOMAIN books : AlikeBook(books[e], away.books[e])
  BY <1>2 DEF Grown, Page, AlikeBook
<1>5. PICK b \in Places(away) :
        /\ Becomes(WithBook(away, b, filled))
        /\ doubt' = IF c.stale \/ c.text = NoCells \/ Moving(c.name) # {}
                    THEN doubt \cup {b} ELSE doubt \ {b}
        /\ deeds' = [deeds EXCEPT !.bare = @ \/ c.text = NoCells]
  BY DEF Opens
<1>6. b \in 1..(n + 1) /\ (b \in DOMAIN books => ~Named(b))
  BY <1>3, <1>4, <1>5 DEF Places, Reusable, Present, Named, AlikeBook
<1>7. CallInv(c) /\ c \in CallRecords
  BY DEF CallsInv, TypeInv
<1>8. name \in Titled \cup {Unnamed} /\ c.icon \in Icons /\ c.text \in Nat
      /\ c.name = <<Kind(c.icon), c.name[2]>>
  BY <1>7 DEF CallInv, CallRecords, FileNames
<1>9. /\ filled \in BookRecords /\ filled.at = "shown" /\ filled.text = c.text
      /\ filled.name = name /\ filled.kind = Kind(c.icon)
  BY <1>8, FilledTyped
<1> DEFINE p == WithBook(away, b, filled)
<1>10. p = [books |-> p.books, opened |-> p.opened] /\ Becomes(p)
  BY <1>5 DEF WithBook
<1> HIDE DEF away, filled
<1>11. /\ Fine(p) /\ OnPage(p) = {b} /\ DOMAIN p.books = 1..n \cup {b} /\ p.books[b] = filled
       /\ \A e \in 1..n : e # b => p.books[e] = away.books[e]
  BY <1>2, <1>6, <1>9, WithBookFacts
<1> HIDE DEF p
<1>12. Page' = p /\ books' = p.books
  BY <1>10 DEF Becomes, Page
<1>13. DOMAIN books' = DOMAIN books \cup {b} /\ books'[b] = filled
  BY <1>3, <1>11, <1>12
<1>14. \A e \in DOMAIN books : e # b => AlikeBook(books[e], books'[e])
  BY <1>3, <1>4, <1>11, <1>12
<1>15. deeds' \in [done : Nat, lost : Nat, bare : BOOLEAN]
       /\ (deeds'.bare <=> deeds.bare \/ c.text = NoCells)
  BY <1>5 DEF TypeInv
<1>16. Fine(Page)' /\ OnPage(Page)' # {}
  <2>1. OnPage(Page)' = OnPage(p)
    BY <1>12 DEF OnPage
  <2> QED BY <1>11, <1>12, <2>1 DEF Fine
<1>17. TypeInv' /\ ShownInv'
  <2>1. \A e \in DOMAIN books' : books'[e].text = NoCells => deeds'.bare
    BY <1>9, <1>13, <1>14, <1>15 DEF ShownInv, AlikeBook
  <2> QED BY <1>15, <1>16, <2>1 DEF TypeInv, Listing, ShownInv
<1>18. \A e \in DOMAIN books : e # b => FullName(e)' = FullName(e) /\ (Named(e)' <=> Named(e))
  BY <1>14 DEF FullName, Named, AlikeBook
<1>19. \A d \in calls : d.what \in {"put", "drop"} => d.book \in DOMAIN books /\ d.book # b
  BY <1>6 DEF CallsInv, CallInv
<1>20. CallsInv'
  <2> SUFFICES ASSUME NEW e \in calls PROVE CallInv(e)'
    BY DEF CallsInv
  <2>1. CallInv(e) /\ AlikeCall(e, e)
    BY DEF CallsInv, AlikeCall
  <2>2. e.what \in {"put", "drop"} => e.book \in DOMAIN books' /\ Named(e.book)'
    BY <1>13, <1>18, <1>19, <2>1 DEF CallInv
  <2>3. e.what = "packages" => e.book \in DOMAIN books'
    BY <1>13, <2>1 DEF CallInv
  <2> QED BY <2>1, <2>2, <2>3 DEF CallInv
<1>21. NewCalls /\ SameMoves
  BY NewCallsSame DEF SameMoves, AlikeCall, Moving
<1>22. SamePuts
  BY <1>5, <1>18, <1>19 DEF SamePuts
<1>23. \A e \in DOMAIN books : e # b => \A text : Kept(e, text)' => Kept(e, text)
  BY <1>14 DEF Kept, AlikeBook
<1>24. Named(b)' /\ b \notin doubt' =>
         /\ Moving(FullName(b))' = {}
         /\ \A text : Kept(b, text)' => InFile(FullName(b), text)'
  <2> SUFFICES ASSUME Named(b)', b \notin doubt', NEW text, Kept(b, text)'
               PROVE  Moving(FullName(b))' = {} /\ InFile(FullName(b), text)'
    BY <1>5, <1>8, <1>9, <1>13 DEF Named, FullName, Moving
  <2>1. name # Unnamed /\ FullName(b)' = c.name /\ books'[b].text = c.text
    BY <1>8, <1>9, <1>13 DEF Named, FullName
  <2>2. ~c.stale /\ c.text # NoCells /\ Moving(c.name) = {}
    BY <1>5
  <2>3. InFile(c.name, c.text)
    BY <2>1, <2>2 DEF GetInv
  <2>4. text = c.text
    BY <1>19, <2>1 DEF Kept
  <2> QED BY <2>1, <2>2, <2>3, <2>4 DEF Moving, InFile, Exists
<1>25. SameBooks
  <2> SUFFICES ASSUME NEW e \in DOMAIN books', e # b, Named(e)', e \notin doubt'
               PROVE  /\ e \in DOMAIN books /\ Named(e) /\ e \notin doubt
                      /\ FullName(e)' = FullName(e)
                      /\ \A text : Kept(e, text)' => Kept(e, text)
    BY <1>24 DEF SameBooks
  <2> QED BY <1>5, <1>13, <1>14, <1>18, <1>23 DEF AlikeBook
<1> QED BY <1>17, <1>20, <1>21, <1>22, <1>25, KeepsAll

LEMMA OnCopyKeeps == ASSUME Inv, NEW c \in calls, OnCopy(c) PROVE Inv'
<1>1. /\ c.done /\ c.what = "copy" /\ Opens(c, Page, Unnamed) /\ calls' = calls \ {c}
      /\ UNCHANGED <<listing, folder>>
  BY DEF OnCopy, Came
<1>2. Fine(Page) /\ Grown(Page, Page) /\ DOMAIN Page.books = DOMAIN books
  BY GrownSame DEF Inv, TypeInv, Page
<1>3. Listing(listing')
  BY <1>1 DEF Inv, TypeInv, Listing
<1> QED BY <1>1, <1>2, <1>3, OpensKeeps

(* The books that the file is open in go. *)
LEMMA ReopenedFacts ==
    ASSUME TypeInv, NEW c
    PROVE  LET q == Reopened(Page, c)
           IN Fine(q) /\ Grown(Page, q) /\ DOMAIN q.books = DOMAIN books
<1>1. PICK n \in Nat : Page \in Pages(n)
  BY DEF TypeInv, Fine
<1>2. books \in [1..n -> BookRecords] /\ DOMAIN books = 1..n /\ opened \in Seq(1..n)
  BY <1>1 DEF Pages, Page
<1> DEFINE old == {b \in Range(opened) : b \in Of(c.name) /\ books[b].icon = c.icon}
           book(b) == IF b \in old THEN [books[b] EXCEPT !.at = "gone"] ELSE books[b]
           all == [b \in DOMAIN books |-> book(b)]
           links == Filtered(opened, Range(opened) \ old)
<1>3. Reopened(Page, c) = [books |-> all, opened |-> links]
  BY DEF Reopened, Page
<1>4. \A b \in 1..n : book(b) \in BookRecords /\ AlikeBook(books[b], book(b))
                      /\ (book(b).at = "shown" => books[b].at = "shown")
  <2> HIDE DEF old
  <2> QED BY <1>2 DEF BookRecords, AlikeBook
<1>5. links \in Seq(1..n)
  BY <1>2, FilteredTyped
<1> HIDE DEF book, links
<1>6. all \in [1..n -> BookRecords] /\ DOMAIN all = 1..n /\ \A b \in 1..n : all[b] = book(b)
  BY <1>2, <1>4
<1> HIDE DEF all
<1>7. Reopened(Page, c) \in Pages(n)
  BY <1>3, <1>5, <1>6 DEF Pages
<1>8. \A b \in OnPage(Reopened(Page, c)) : b \in OnPage(Page)
  BY <1>2, <1>3, <1>4, <1>6 DEF OnPage, Page
<1>9. Grown(Page, Reopened(Page, c))
  BY <1>2, <1>3, <1>4, <1>6 DEF Grown, Page
<1> QED BY <1>2, <1>3, <1>6, <1>7, <1>8, <1>9 DEF Fine, TypeInv

LEMMA OnGetKeeps == ASSUME Inv, NEW c \in calls, OnGet(c) PROVE Inv'
<1>1. PICK q : q = Reopened(Page, c)
  OBVIOUS
<1>2. /\ c.done /\ c.what = "get" /\ Opens(c, q, c.name[2]) /\ calls' = calls \ {c}
      /\ folder' = folder
      /\ listing' = IF c.link \in DOMAIN listing THEN [listing EXCEPT ![c.link].icon = c.icon]
                    ELSE listing
  BY <1>1 DEF OnGet, Came
<1>3. Fine(q) /\ Grown(Page, q) /\ DOMAIN q.books = DOMAIN books
  BY <1>1, ReopenedFacts DEF Inv
<1>4. c.icon \in Icons
  BY DEF Inv, TypeInv, CallRecords
<1>5. Listing(listing')
  <2>1. CASE c.link \in DOMAIN listing
    <3>1. \A l \in DOMAIN listing : listing[l] \in [icon : Icons, title : Titled]
      BY DEF Inv, TypeInv
    <3>2. [listing[c.link] EXCEPT !.icon = c.icon] \in [icon : Icons, title : Titled]
      BY <1>4, <2>1, <3>1
    <3> QED BY <1>2, <2>1, <3>2 DEF Listing, Inv, TypeInv
  <2>2. CASE c.link \notin DOMAIN listing
    BY <1>2, <2>2 DEF Listing, Inv, TypeInv
  <2> QED BY <2>1, <2>2
<1> QED BY <1>2, <1>3, <1>5, OpensKeeps

(* A file was renamed: its books that are there get the title of its link. *)
LEMMA OnMovedKeeps == ASSUME Inv, NEW c \in calls, OnMoved(c) PROVE Inv'
<1> USE DEF Inv
<1>1. /\ c.what = "move" /\ c.done /\ calls' = calls \ {c}
      /\ UNCHANGED <<opened, listing, folder, deeds>>
  BY DEF OnMoved, Came
<1>2. CASE ~c.ok
  <2>1. UNCHANGED <<books, doubt>>
    BY <1>2 DEF OnMoved
  <2>2. QuietCalls /\ calls' \subseteq CallRecords
    BY <1>1, <1>2 DEF QuietCalls, AlikeCall, Moving, TypeInv
  <2>3. Fine(Page)' /\ Grows /\ ShownInv'
    BY <1>1, <2>1 DEF Page, OnPage, TypeInv, Fine, Grows, ShownInv
  <2>4. TypeInv'
    BY <1>1, <2>1, <2>2, <2>3 DEF TypeInv
  <2> QED BY <1>1, <2>1, <2>2, <2>3, <2>4, QuietKeeps
<1>3. CASE c.ok
  <2> DEFINE title == IF c.link \in DOMAIN listing THEN listing[c.link].title ELSE c.link[2]
             follow == {b \in Range(opened) : b \in Of(c.name) /\ books[b].icon = c.icon}
             book(b) == IF b \in follow THEN Renamed(books[b], title) ELSE books[b]
  <2>1. /\ books' = [b \in DOMAIN books |-> book(b)]
        /\ doubt' = doubt \cup (Of(c.name) \ follow)
             \cup {b \in follow : title # c.to[2] \/ Saving(b) \/ Moving(c.to) # {}}
    BY <1>3 DEF OnMoved
  <2>2. CallInv(c) /\ c \in CallRecords
    BY DEF CallsInv, TypeInv
  <2>3. /\ c.name \in FileNames /\ c.to \in FileNames /\ c.to[1] = c.name[1]
        /\ c.link \in Links /\ c.link # NoLink
    BY <1>1, <2>2 DEF CallInv, CallRecords
  <2>4. title \in Titled
    <3>1. CASE c.link \in DOMAIN listing
      BY <3>1, LinkFacts
    <3>2. CASE c.link \notin DOMAIN listing
      BY <2>3, <3>2 DEF Links, FileNames
    <3> QED BY <3>1, <3>2
  <2>5. title # Unnamed
    BY <2>4, TitledNamed
  <2>6. follow \subseteq Of(c.name)
    OBVIOUS
  <2> HIDE DEF title, follow
  <2>7. PICK n \in Nat : Page \in Pages(n)
    BY DEF TypeInv, Fine
  <2>8. books \in [1..n -> BookRecords] /\ DOMAIN books = 1..n /\ opened \in Seq(1..n)
    BY <2>7 DEF Pages, Page
  <2>9. \A b \in 1..n :
          /\ book(b) \in BookRecords /\ book(b).kind = books[b].kind /\ book(b).at = books[b].at
          /\ book(b).text = books[b].text /\ book(b).mark = books[b].mark
          /\ book(b).name = IF b \in follow THEN title ELSE books[b].name
    BY <2>4, <2>8 DEF BookRecords, Renamed
  <2> HIDE DEF book
  <2>10. /\ books' \in [1..n -> BookRecords] /\ DOMAIN books' = 1..n
         /\ \A b \in 1..n : books'[b] = book(b)
    BY <2>1, <2>8, <2>9
  <2>11. OnPage(Page)' = OnPage(Page)
    BY <2>8, <2>9, <2>10 DEF OnPage, Page
  <2>12. Fine(Page)'
    <3>1. (Page \in Pages(n))'
      BY <1>1, <2>8, <2>10 DEF Page, Pages
    <3> QED BY <2>11, <3>1 DEF Fine, TypeInv
  <2>13. TypeInv' /\ ShownInv'
    BY <1>1, <2>8, <2>9, <2>10, <2>11, <2>12 DEF TypeInv, ShownInv
  <2>14. \A b \in DOMAIN books : b \notin follow =>
           FullName(b)' = FullName(b) /\ (Named(b)' <=> Named(b))
    BY <2>8, <2>9, <2>10 DEF FullName, Named
  <2>15. \A b \in DOMAIN books : b \in follow => Named(b)' /\ FullName(b)' = <<c.name[1], title>>
    <3> SUFFICES ASSUME NEW b \in DOMAIN books, b \in follow
                 PROVE  Named(b)' /\ FullName(b)' = <<c.name[1], title>>
      OBVIOUS
    <3>1. FullName(b) = c.name
      BY <2>6 DEF Of
    <3>2. books[b].kind = c.name[1]
      BY <3>1 DEF FullName
    <3> QED BY <2>5, <2>8, <2>9, <2>10, <3>2 DEF FullName, Named
  <2>16. CallsInv'
    <3> SUFFICES ASSUME NEW e \in calls PROVE CallInv(e)'
      BY <1>1 DEF CallsInv
    <3>1. CallInv(e) /\ AlikeCall(e, e)
      BY DEF CallsInv, AlikeCall
    <3>2. e.what \in {"put", "drop", "packages"} =>
             e.book \in DOMAIN books' /\ (Named(e.book) => Named(e.book)')
      BY <2>8, <2>10, <2>14, <2>15, <3>1 DEF CallInv
    <3> QED BY <3>1, <3>2, CallsKept
  <2>17. NewCalls
    BY <1>1, NewCallsSame
  <2>18. \A b \in follow : b \notin doubt' =>
           b \notin doubt /\ FullName(b)' = c.to /\ ~Saving(b) /\ Moving(c.to) = {}
    <3> SUFFICES ASSUME NEW b \in follow, b \notin doubt'
                 PROVE  b \notin doubt /\ FullName(b)' = c.to /\ ~Saving(b) /\ Moving(c.to) = {}
      OBVIOUS
    <3>1. title = c.to[2] /\ ~Saving(b) /\ Moving(c.to) = {} /\ b \notin doubt
      BY <2>1
    <3>2. FullName(b)' = <<c.to[1], c.to[2]>>
      BY <2>3, <2>6, <2>15, <3>1 DEF Of
    <3> QED BY <2>3, <3>1, <3>2 DEF FileNames
  <2>19. SameMoves
    <3> SUFFICES ASSUME NEW m \in calls, m \in Moving(m.name), m \notin calls'
                 PROVE  \A b \in Of(m.name) : FullName(b)' = m.name => b \in doubt'
      BY DEF SameMoves, AlikeCall
    <3>1. m = c /\ c.to # c.name
      BY <1>1 DEF Moving
    <3> QED BY <2>1, <2>18, <3>1
  <2>20. SamePuts
    <3> SUFFICES ASSUME NEW d \in calls, d.what \in {"put", "drop"}
                 PROVE  /\ FullName(d.book)' = FullName(d.book) \/ d.book \in doubt'
                        /\ d.book \in doubt => d.book \in doubt'
      BY DEF SamePuts
    <3>1. d.book \in DOMAIN books /\ Saving(d.book)
      BY DEF CallsInv, CallInv, Saving
    <3> QED BY <2>1, <2>14, <2>18, <3>1
  <2>21. \A b \in DOMAIN books : \A text : Kept(b, text)' => Kept(b, text)
    BY <1>1, <2>8, <2>9, <2>10 DEF Kept
  <2>22. SameBooks
    <3> SUFFICES ASSUME NEW b \in DOMAIN books', Named(b)', b \notin doubt'
                 PROVE  \/ /\ Moving(FullName(b))' = {}
                           /\ \A text : Kept(b, text)' => InFile(FullName(b), text)'
                        \/ /\ b \in DOMAIN books /\ Named(b) /\ b \notin doubt
                           /\ FullName(b)' = FullName(b)
                           /\ \A text : Kept(b, text)' => Kept(b, text)
      BY DEF SameBooks
    <3>1. b \in DOMAIN books
      BY <2>8, <2>10
    <3>2. CASE b \notin follow
      BY <2>1, <2>14, <2>21, <3>1, <3>2
    <3>3. CASE b \in follow
      <4>1. /\ b \notin doubt /\ FullName(b)' = c.to /\ Moving(c.to) = {}
            /\ Named(b) /\ FullName(b) = c.name
        BY <2>6, <2>18, <3>3 DEF Of
      <4>2. Moving(FullName(b))' = {}
        BY <1>1, <4>1 DEF Moving
      <4>3. ASSUME NEW text, Kept(b, text)' PROVE InFile(c.to, text)
        <5>1. Kept(b, text)
          BY <2>21, <3>1, <4>3
        <5>2. /\ Moving(c.name) = {} => InFile(c.name, text)
              /\ \A m \in Moving(c.name) : InFile(m.to, text)
          BY <3>1, <4>1, <5>1 DEF HonestInv
        <5>3. c.to # c.name => c \in Moving(c.name)
          BY <1>1, <1>3 DEF Moving
        <5> QED BY <4>1, <5>2, <5>3
      <4> QED BY <1>1, <3>1, <4>1, <4>2, <4>3 DEF InFile, Exists
    <3> QED BY <3>2, <3>3
  <2> QED BY <1>1, <2>13, <2>16, <2>17, <2>19, <2>20, <2>22, KeepsAll
<1> QED BY <1>2, <1>3

-----------------------------------------------------------------------------
(* The server does what it is asked for: nothing else changes than the files said to change. *)
LEMMA FolderFacts ==
    ASSUME TypeInv, NEW c \in calls, folder' = FolderAfter(c)
    PROVE  /\ \A name : name \notin Changed(c) =>
                (Exists(name)' <=> Exists(name)) /\ (Exists(name) => folder'[name] = folder[name])
           /\ c.what = "put" => InFile(c.name, c.text)'
           /\ c.what = "move" /\ Exists(c.name) /\ c.to # c.name =>
                ~Exists(c.name)' /\ \A text : text = folder[c.name] => InFile(c.to, text)'
           /\ c.what \in {"get", "copy", "list", "packages"} => folder' = folder
<1> DEFINE others == Restrict(folder, DOMAIN folder \ {c.name})
<1>1. DOMAIN others = DOMAIN folder \ {c.name} /\ \A x \in DOMAIN others : others[x] = folder[x]
  BY DEF Restrict
<1>2. c.what \in {"put", "drop", "get", "copy", "remove", "move", "list", "packages"}
  BY DEF TypeInv, CallRecords
<1>3. folder' = CASE c.what = "put" -> Put(folder, c.name, c.text)
                  [] c.what \in {"drop", "remove"} -> others
                  [] c.what = "move" /\ Exists(c.name) -> Put(others, c.to, folder[c.name])
                  [] OTHER -> folder
  BY DEF FolderAfter
<1> HIDE DEF others
<1>4. CASE c.what = "put"
  <2>1. folder' = Put(folder, c.name, c.text) /\ Changed(c) = {c.name}
    BY <1>3, <1>4 DEF Changed
  <2>2. DOMAIN folder' = {c.name} \cup DOMAIN folder /\ folder'[c.name] = c.text
        /\ \A x \in DOMAIN folder : x # c.name => folder'[x] = folder[x]
    BY <2>1 DEF Put
  <2>3. \A name : name \notin Changed(c) =>
          (Exists(name)' <=> Exists(name)) /\ (Exists(name) => folder'[name] = folder[name])
    BY <2>1, <2>2 DEF Exists
  <2>4. InFile(c.name, c.text)'
    BY <2>2 DEF Exists, InFile
  <2> QED BY <1>4, <2>3, <2>4
<1>5. CASE c.what \in {"drop", "remove"}
  <2>1. folder' = others /\ (Exists(c.name) => Changed(c) = {c.name})
    BY <1>3, <1>5 DEF Changed
  <2> QED BY <1>1, <1>5, <2>1 DEF Exists
<1>6. CASE c.what = "move" /\ Exists(c.name)
  <2>1. folder' = Put(others, c.to, folder[c.name])
        /\ (c.to # c.name => Changed(c) = {c.name, c.to})
    BY <1>3, <1>6 DEF Changed
  <2>2. DOMAIN folder' = {c.to} \cup (DOMAIN folder \ {c.name}) /\ folder'[c.to] = folder[c.name]
        /\ \A x \in DOMAIN folder \ {c.name} : x # c.to => folder'[x] = folder[x]
    BY <1>1, <2>1 DEF Put
  <2>3. c.to # c.name => c.name \notin DOMAIN folder'
    BY <2>2
  <2>4. \A name : name \notin Changed(c) =>
          (Exists(name)' <=> Exists(name)) /\ (Exists(name) => folder'[name] = folder[name])
    BY <1>6, <2>1, <2>2 DEF Exists
  <2> QED BY <1>6, <2>2, <2>3, <2>4 DEF Exists, InFile
<1>7. CASE (c.what = "move" /\ ~Exists(c.name)) \/ c.what \in {"get", "copy", "list", "packages"}
  <2>1. folder' = folder
    BY <1>3, <1>7
  <2> QED BY <1>7, <2>1 DEF Exists
<1> QED BY <1>2, <1>4, <1>5, <1>6, <1>7

LEMMA FolderTyped ==
    ASSUME TypeInv, CallsInv, NEW c \in calls, folder' = FolderAfter(c)
    PROVE  folder' \in [DOMAIN folder' -> Nat] /\ DOMAIN folder' \subseteq FileNames
<1> DEFINE others == Restrict(folder, DOMAIN folder \ {c.name})
<1>1. c \in CallRecords /\ CallInv(c)
  BY DEF TypeInv, CallsInv
<1>2. /\ c.text \in Nat
      /\ (c.what \notin {"list", "packages"} => c.name \in FileNames /\ c.to \in FileNames)
  BY <1>1 DEF CallRecords, CallInv
<1>3. folder \in [DOMAIN folder -> Nat] /\ DOMAIN folder \subseteq FileNames
  BY DEF TypeInv
<1>4. others \in [DOMAIN others -> Nat] /\ DOMAIN others \subseteq FileNames
  BY <1>3 DEF Restrict
<1> HIDE DEF others
<1>5. folder' \in {folder, others} \/ (c.what = "put" /\ folder' = Put(folder, c.name, c.text))
      \/ (c.what = "move" /\ Exists(c.name) /\ folder' = Put(others, c.to, folder[c.name]))
  BY DEF FolderAfter, others
<1> QED BY <1>2, <1>3, <1>4, <1>5 DEF Put, Exists

LEMMA DoneFacts ==
    ASSUME TypeInv, CallsInv, NEW c \in calls, NEW d, d = Done(c)
    PROVE  /\ d \in CallRecords /\ d.what = c.what /\ d.book = c.book /\ d.name = c.name
           /\ d.to = c.to /\ d.icon = c.icon /\ d.link = c.link /\ d.done /\ d.stale = c.stale
           /\ c.what \in {"get", "copy"} =>
                (IF Exists(c.name) THEN d.text = folder[c.name] ELSE d.text = NoCells)
           /\ c.what = "put" => d.text = c.text
           /\ c.what = "move" => (d.ok <=> Exists(c.name))
<1>1. c \in CallRecords
  BY DEF TypeInv
<1>2. /\ (Exists(c.name) => folder[c.name] \in Nat)
      /\ DOMAIN folder \subseteq FileNames /\ NoCells \in Nat
  BY DEF TypeInv, Exists, NoCells
<1> DEFINE ok == c.what \notin {"drop", "remove", "move"} \/ Exists(c.name)
           text == IF c.what \notin {"get", "copy"} THEN c.text
                   ELSE IF Exists(c.name) THEN folder[c.name] ELSE NoCells
           names == IF c.what = "list" THEN DOMAIN folder ELSE {}
<1>3. d = [c EXCEPT !.done = TRUE, !.ok = ok, !.text = text, !.names = names]
  BY DEF Done
<1>4. text \in Nat /\ names \in SUBSET FileNames /\ ok \in BOOLEAN
  BY <1>1, <1>2 DEF CallRecords
<1>5. /\ c.what \in {"get", "copy"} =>
           (IF Exists(c.name) THEN text = folder[c.name] ELSE text = NoCells)
      /\ c.what = "put" => text = c.text
      /\ c.what = "move" => (ok <=> Exists(c.name))
  OBVIOUS
<1> HIDE DEF ok, text, names
<1>6. /\ d \in CallRecords /\ d.text = text /\ d.ok = ok /\ d.what = c.what /\ d.book = c.book
      /\ d.name = c.name /\ d.to = c.to /\ d.icon = c.icon /\ d.link = c.link /\ d.done
      /\ d.stale = c.stale
  BY <1>1, <1>3, <1>4 DEF CallRecords
<1> QED BY <1>5, <1>6

(* A book that the save leaves clean is in its file; one of a file that is renamed is where it *)
(* goes to; and of the others' files nothing has changed. *)
LEMMA ServeKeeps == ASSUME Inv, NEW c \in calls, Serve(c) PROVE Inv'
<1> USE DEF Inv
<1> DEFINE image(e) == [e EXCEPT !.stale = @ \/ (e.what = "get" /\ e.done /\ e.name \in Changed(c))]
           touched == UNION {Touched(name) : name \in Changed(c)}
<1>1. PICK d : d = Done(c)
  OBVIOUS
<1>2. /\ ~c.done /\ folder' = FolderAfter(c) /\ calls' = {d} \cup {image(e) : e \in calls \ {c}}
      /\ doubt' = (doubt \cup (touched \ Follow(c))) \ SavedWell(c)
      /\ UNCHANGED <<books, opened, listing, deeds>>
  <2>1. /\ ~c.done /\ folder' = FolderAfter(c) /\ UNCHANGED <<books, opened, listing, deeds>>
        /\ doubt' = (doubt \cup (touched \ Follow(c))) \ SavedWell(c)
    BY Zenon DEF Serve
  <2>2. calls' = {Done(c)} \cup {image(e) : e \in calls \ {c}}
    BY Zenon DEF Serve, Replied
  <2> HIDE DEF image, touched
  <2> QED BY <1>1, <2>1, <2>2
<1>3. /\ d \in CallRecords /\ d.what = c.what /\ d.book = c.book /\ d.name = c.name
      /\ d.to = c.to /\ d.icon = c.icon /\ d.link = c.link /\ d.done /\ d.stale = c.stale
      /\ c.what \in {"get", "copy"} =>
           (IF Exists(c.name) THEN d.text = folder[c.name] ELSE d.text = NoCells)
      /\ c.what = "put" => d.text = c.text
      /\ c.what = "move" => (d.ok <=> Exists(c.name))
  BY <1>1, DoneFacts
<1>4. \A e \in calls \ {c} :
        /\ image(e) \in CallRecords /\ image(e).what = e.what /\ image(e).book = e.book
        /\ image(e).name = e.name /\ image(e).to = e.to /\ image(e).text = e.text
        /\ image(e).icon = e.icon /\ image(e).link = e.link /\ image(e).done = e.done
        /\ image(e).ok = e.ok
        /\ (image(e).stale <=> e.stale \/ (e.what = "get" /\ e.done /\ e.name \in Changed(c)))
  BY DEF TypeInv, CallRecords
<1>5. /\ \A name : name \notin Changed(c) =>
           (Exists(name)' <=> Exists(name)) /\ (Exists(name) => folder'[name] = folder[name])
      /\ c.what = "put" => InFile(c.name, c.text)'
      /\ c.what = "move" /\ Exists(c.name) /\ c.to # c.name =>
           ~Exists(c.name)' /\ \A text : text = folder[c.name] => InFile(c.to, text)'
      /\ c.what \in {"get", "copy", "list", "packages"} => folder' = folder
  BY <1>2, FolderFacts
<1>6. \A name, text : name \notin Changed(c) => (InFile(name, text)' <=> InFile(name, text))
  BY <1>5 DEF InFile
<1> HIDE DEF image, touched
<1>7. TypeInv' /\ ShownInv'
  <2>1. Fine(Page)' /\ OnPage(Page)' = OnPage(Page)
    BY <1>2 DEF Page, OnPage, Fine, TypeInv
  <2>2. folder' \in [DOMAIN folder' -> Nat] /\ DOMAIN folder' \subseteq FileNames
    BY <1>2, FolderTyped
  <2>3. calls' \subseteq CallRecords
    BY <1>2, <1>3, <1>4
  <2>4. ShownInv'
    BY <1>2, <2>1 DEF ShownInv
  <2> QED BY <1>2, <2>1, <2>2, <2>3, <2>4 DEF TypeInv
<1>8. CallsInv'
  <2> SUFFICES ASSUME NEW f \in calls' PROVE CallInv(f)'
    BY DEF CallsInv
  <2>1. PICK e \in calls : /\ f.what = e.what /\ f.book = e.book /\ f.name = e.name /\ f.to = e.to
                           /\ f.icon = e.icon /\ f.link = e.link
    BY <1>2, <1>3, <1>4
  <2> QED BY <1>2, <2>1 DEF CallsInv, CallInv, Named
(* Renames that are done. *)
<1>9. ASSUME NEW n, NEW m \in Moving(n)'
      PROVE  \/ /\ m = d /\ c.what = "move" /\ c.name = n /\ Exists(n) /\ c.to # n /\ m.to = c.to
             \/ \E e \in Moving(n) : e # c /\ e.to = m.to
  <2>1. CASE m = d
    BY <1>3, <2>1 DEF Moving
  <2>2. CASE m # d
    <3>1. PICK e \in calls \ {c} : m = image(e)
      BY <1>2, <2>2 DEF Moving
    <3> QED BY <1>4, <3>1 DEF Moving
  <2> QED BY <2>1, <2>2
<1>10. ASSUME NEW n, Moving(n) # {} PROVE Moving(n)' # {}
  <2>1. PICK e \in calls \ {c} : e \in Moving(n)
    BY <1>2, <1>10 DEF Moving
  <2>2. image(e) \in Moving(n)'
    BY <1>2, <1>4, <2>1 DEF Moving
  <2> QED BY <2>2
(* Of the books that are saved well nothing else is under way. *)
<1>11. \A b \in SavedWell(c) :
         /\ c.what = "put" /\ b = c.book /\ FullName(b) = c.name
         /\ books[b].mark \/ books[b].text = c.text
         /\ Moving(c.name) = {} /\ \A e \in calls \ {c} : e.what \in {"put", "drop"} => e.book # b
  BY DEF SavedWell, Of
<1>12. \A b : b \in doubt /\ b \notin SavedWell(c) => b \in doubt'
  BY <1>2
<1>13. PutInv'
  <2>1. ASSUME NEW f \in calls', f.what = "put", FullName(f.book)' # f.name, f.book \notin doubt'
        PROVE  FALSE
    <3>1. PICK e \in calls : /\ e.what = "put" /\ e.book = f.book /\ e.name = f.name
                           /\ (f = d <=> e = c)
      <4>1. CASE f = d
        BY <1>3, <2>1, <4>1
      <4>2. CASE f # d
        BY <1>2, <1>4, <2>1, <4>2
      <4> QED BY <4>1, <4>2
    <3>2. FullName(e.book) # e.name /\ e.book \in doubt
      BY <1>2, <2>1, <3>1 DEF PutInv, FullName
    <3> QED BY <1>11, <1>12, <2>1, <3>1, <3>2
  <2>2. ASSUME NEW f \in calls', NEW g \in calls', f.what = "put", g.what \in {"put", "drop"},
               f # g, f.book = g.book, f.book \notin doubt'
        PROVE  FALSE
    <3>1. PICK e \in calls : /\ e.what = f.what /\ e.book = f.book
                           /\ f = (IF e = c THEN d ELSE image(e))
      BY <1>2, <1>3, <1>4
    <3>2. PICK h \in calls : /\ h.what = g.what /\ h.book = g.book
                           /\ g = (IF h = c THEN d ELSE image(h))
      BY <1>2, <1>3, <1>4
    <3>3. e # h
      BY <2>2, <3>1, <3>2
    <3>4. e.book \in doubt
      BY <2>2, <3>1, <3>2, <3>3 DEF PutInv
    <3> QED BY <1>11, <1>12, <2>2, <3>1, <3>2, <3>3, <3>4
  <2> QED BY <2>1, <2>2 DEF PutInv
<1>14. GetInv'
  <2> SUFFICES ASSUME NEW f \in calls', f.what = "get", f.done, ~f.stale, f.text # NoCells
               PROVE  InFile(f.name, f.text)'
    BY DEF GetInv
  <2>1. CASE f = d
    <3>1. Exists(c.name) /\ f.text = folder[c.name] /\ f.name = c.name /\ folder' = folder
      BY <1>3, <1>5, <2>1
    <3> QED BY <3>1 DEF InFile, Exists
  <2>2. CASE f # d
    <3>1. PICK e \in calls \ {c} : f = image(e)
      BY <1>2, <2>2
    <3>2. /\ e.what = "get" /\ e.done /\ ~e.stale /\ e.text = f.text /\ e.name = f.name
          /\ e.name \notin Changed(c)
      BY <1>4, <3>1
    <3>3. InFile(e.name, e.text)
      BY <3>2 DEF GetInv
    <3> QED BY <1>6, <3>2, <3>3
  <2> QED BY <2>1, <2>2
(* The books. *)
<1>15. ASSUME NEW b \in DOMAIN books, b \notin doubt', b \notin SavedWell(c)
       PROVE  b \notin doubt /\ (b \in touched => b \in Follow(c))
  BY <1>2, <1>15
<1>16. \A b \in DOMAIN books : b \notin touched =>
         \A name \in Changed(c) : /\ Named(b) => FullName(b) # name
                                  /\ \A m \in Moving(FullName(b)) : m.to # name
  BY DEF touched, Touched, Of
<1>17. HonestInv'
  <2> SUFFICES ASSUME NEW b \in DOMAIN books, Named(b), b \notin doubt', NEW text, Kept(b, text)'
               PROVE  /\ Moving(FullName(b))' = {} => InFile(FullName(b), text)'
                      /\ \A m \in Moving(FullName(b))' : InFile(m.to, text)'
    BY <1>2 DEF HonestInv, Named
  <2>1. PICK n : n = FullName(b)
    OBVIOUS
  <2>2. FullName(b)' = n
    BY <1>2, <2>1 DEF FullName
  <2> SUFFICES /\ Moving(n)' = {} => InFile(n, text)'
               /\ \A m \in Moving(n)' : InFile(m.to, text)'
    <3>1. Moving(FullName(b))' = Moving(n)'
      BY <2>2 DEF Moving
    <3>2. InFile(FullName(b), text)' <=> InFile(n, text)'
      BY <2>2 DEF InFile, Exists
    <3> QED BY <3>1, <3>2
  <2>3. \/ ~books[b].mark /\ books[b].text = text
        \/ \E e \in calls \ {c} : e.what = "put" /\ e.done /\ e.ok /\ e.book = b /\ e.text = text
        \/ c.what = "put" /\ c.book = b /\ c.text = text
    BY <1>2, <1>3, <1>4 DEF Kept
  <2>4. CASE b \in SavedWell(c)
    <3>1. c.what = "put" /\ n = c.name /\ text = c.text /\ Moving(n) = {}
      BY <1>11, <2>1, <2>3, <2>4
    <3>2. Moving(n)' = {}
      BY <1>9, <3>1
    <3> QED BY <1>5, <3>1, <3>2
  <2>5. CASE b \notin SavedWell(c)
    <3>1. b \notin doubt /\ (b \in touched => b \in Follow(c))
      BY <1>15, <2>5
    <3>2. Kept(b, text)
      <4> SUFFICES ASSUME ~Kept(b, text) PROVE FALSE
        OBVIOUS
      <4>1. c.what = "put" /\ c.book = b
        BY <2>3 DEF Kept
      <4>2. c.name = n /\ \A e \in calls \ {c} : e.what \in {"put", "drop"} => e.book # b
        BY <2>1, <3>1, <4>1 DEF PutInv
      <4>3. b \in Touched(c.name) /\ c.name \in Changed(c) /\ Follow(c) = {}
        BY <2>1, <4>1, <4>2 DEF Touched, Of, Changed, Follow
      <4> QED BY <3>1, <4>3 DEF touched
    <3>3. /\ Moving(n) = {} => InFile(n, text)
          /\ \A m \in Moving(n) : InFile(m.to, text)
      BY <2>1, <3>1, <3>2 DEF HonestInv
    <3>4. CASE b \notin touched
      <4>1. n \notin Changed(c) /\ \A m \in Moving(n) : m.to \notin Changed(c)
        BY <1>16, <2>1, <3>4
      <4>2. ASSUME NEW m \in Moving(n)' PROVE \E e \in Moving(n) : e.to = m.to
        <5>1. ~ (c.what = "move" /\ c.name = n /\ Exists(n) /\ c.to # n)
          BY <4>1 DEF Changed
        <5> QED BY <1>9, <5>1
      <4>3. \A m \in Moving(n)' : InFile(m.to, text)'
        BY <1>6, <3>3, <4>1, <4>2
      <4> QED BY <1>6, <1>10, <3>3, <4>1, <4>3
    <3>5. CASE b \in touched
      <4>1. c.what = "move" /\ n = c.name /\ b \in Of(n)
        BY <2>1, <3>1, <3>5 DEF Follow, Of
      <4>2. Exists(n) /\ c.to # n
        <5>1. Changed(c) # {}
          BY <3>5 DEF touched
        <5> QED BY <4>1, <5>1 DEF Changed
      <4>3. Moving(n) = {}
        <5> SUFFICES ASSUME NEW e \in Moving(n) PROVE FALSE
          OBVIOUS
        <5>1. e \in calls /\ e.name = n /\ e \in Moving(e.name) /\ Exists(e.name)
          BY <4>2 DEF Moving
        <5> QED BY <3>1, <4>1, <5>1 DEF AgainInv
      <4>4. InFile(c.to, text)'
        BY <1>5, <3>3, <4>1, <4>2, <4>3 DEF InFile
      <4>5. \A m \in Moving(n)' : m.to = c.to
        BY <1>9, <4>3
      <4>6. d \in Moving(n)'
        BY <1>2, <1>3, <4>1, <4>2 DEF Moving
      <4> QED BY <4>4, <4>5, <4>6
    <3> QED BY <3>4, <3>5
  <2> QED BY <2>4, <2>5
(* A file that is there again. *)
<1>18. AgainInv'
  <2> SUFFICES ASSUME NEW m \in calls', m \in Moving(m.name)', Exists(m.name)',
                      NEW b \in DOMAIN books, Named(b), FullName(b) = m.name, b \notin doubt'
               PROVE  FALSE
    BY <1>2 DEF AgainInv, Of, Named, FullName
  <2>1. PICK n : n = m.name
    OBVIOUS
  <2>2. m \in Moving(n)' /\ Exists(n)'
    BY <2>1
  <2>3. PICK e \in Moving(n) : e # c
    <3>1. ~ (m = d /\ c.what = "move" /\ c.name = n /\ Exists(n) /\ c.to # n)
      BY <1>5, <2>2
    <3> QED BY <1>9, <2>2, <3>1
  <2>4. b \notin SavedWell(c)
    BY <1>11, <2>1, <2>3
  <2>5. b \notin doubt /\ (b \in touched => b \in Follow(c)) /\ b \in Of(n)
    BY <1>15, <2>1, <2>4 DEF Of
  <2>6. CASE Exists(n)
    <3>1. e \in calls /\ e.name = n /\ e \in Moving(e.name) /\ Exists(e.name)
      BY <2>6 DEF Moving
    <3> QED BY <2>5, <3>1 DEF AgainInv
  <2>7. CASE ~Exists(n)
    <3>1. n \in Changed(c)
      BY <1>5, <2>2, <2>7
    <3>2. b \in touched
      BY <2>5, <3>1 DEF touched, Touched
    <3>3. c.what = "move" /\ n = c.name
      BY <2>1, <2>5, <3>2 DEF Follow, Of
    <3> QED BY <2>7, <3>1, <3>3 DEF Changed
  <2> QED BY <2>6, <2>7
<1> QED BY <1>7, <1>8, <1>13, <1>14, <1>17, <1>18

(* A save that fails stores nothing: the books of the file that is gone, if it is, are in doubt. *)
LEMMA SaveFailsKeeps == ASSUME Inv, NEW c \in calls, SaveFails(c) PROVE Inv'
<1> USE DEF Inv
<1>1. PICK gone \in SUBSET ({c.name} \cap DOMAIN folder) :
        /\ folder' = Restrict(folder, DOMAIN folder \ gone)
        /\ calls' = Replied(c, [c EXCEPT !.done = TRUE, !.ok = FALSE], gone)
        /\ doubt' = doubt \cup UNION {Touched(x) : x \in gone}
  BY DEF SaveFails
<1> DEFINE image(e) == [e EXCEPT !.stale = @ \/ (e.what = "get" /\ e.done /\ e.name \in gone)]
<1>2. PICK d : d = [c EXCEPT !.done = TRUE, !.ok = FALSE]
  OBVIOUS
<1>3. /\ calls' = {d} \cup {image(e) : e \in calls \ {c}} /\ c.what = "put"
      /\ deeds' = [deeds EXCEPT !.lost = @ + 1] /\ UNCHANGED <<books, opened, listing>>
  <2>1. calls' = {[c EXCEPT !.done = TRUE, !.ok = FALSE]} \cup {image(e) : e \in calls \ {c}}
    BY <1>1, Zenon DEF Replied
  <2>2. /\ c.what = "put" /\ UNCHANGED <<books, opened, listing>>
        /\ deeds' = [deeds EXCEPT !.lost = @ + 1]
    BY DEF SaveFails, Mishap
  <2> HIDE DEF image
  <2> QED BY <1>2, <2>1, <2>2
<1>4. /\ d \in CallRecords /\ d.what = c.what /\ d.book = c.book /\ d.name = c.name
      /\ d.to = c.to /\ d.icon = c.icon /\ d.link = c.link /\ ~d.ok
  BY <1>2 DEF TypeInv, CallRecords
<1>5. \A e \in calls \ {c} :
        /\ image(e) \in CallRecords /\ image(e).what = e.what /\ image(e).book = e.book
        /\ image(e).name = e.name /\ image(e).to = e.to /\ image(e).text = e.text
        /\ image(e).icon = e.icon /\ image(e).link = e.link /\ image(e).done = e.done
        /\ image(e).ok = e.ok
        /\ (image(e).stale <=> e.stale \/ (e.what = "get" /\ e.done /\ e.name \in gone))
  BY DEF TypeInv, CallRecords
<1>6. /\ \A name, text : name \notin gone => (InFile(name, text)' <=> InFile(name, text))
      /\ \A name : Exists(name)' => Exists(name)
      /\ folder' \in [DOMAIN folder' -> Nat] /\ DOMAIN folder' \subseteq FileNames
  BY <1>1 DEF InFile, Exists, Restrict, TypeInv
<1> HIDE DEF image
<1>7. TypeInv' /\ ShownInv'
  <2>1. Fine(Page)' /\ OnPage(Page)' = OnPage(Page)
    BY <1>3 DEF Page, OnPage, Fine, TypeInv
  <2>2. deeds' \in [done : Nat, lost : Nat, bare : BOOLEAN] /\ deeds'.bare = deeds.bare
    BY <1>3 DEF TypeInv
  <2>3. calls' \subseteq CallRecords
    BY <1>3, <1>4, <1>5
  <2>4. ShownInv'
    BY <1>3, <2>1, <2>2 DEF ShownInv
  <2> QED BY <1>3, <1>6, <2>1, <2>2, <2>3, <2>4 DEF TypeInv
<1>8. CallsInv'
  <2> SUFFICES ASSUME NEW f \in calls' PROVE CallInv(f)'
    BY DEF CallsInv
  <2>1. PICK e \in calls : /\ f.what = e.what /\ f.book = e.book /\ f.name = e.name /\ f.to = e.to
                           /\ f.icon = e.icon /\ f.link = e.link
    BY <1>3, <1>4, <1>5
  <2> QED BY <1>3, <2>1 DEF CallsInv, CallInv, Named
<1>9. ASSUME NEW n, NEW m \in Moving(n)' PROVE \E e \in Moving(n) : e.to = m.to
  <2>1. PICK e \in calls \ {c} : m = image(e)
    BY <1>3, <1>4 DEF Moving
  <2> QED BY <1>5, <2>1 DEF Moving
<1>10. ASSUME NEW n, Moving(n) # {} PROVE Moving(n)' # {}
  <2>1. PICK e \in calls \ {c} : e \in Moving(n)
    BY <1>3, <1>10 DEF Moving
  <2>2. image(e) \in Moving(n)'
    BY <1>3, <1>5, <2>1 DEF Moving
  <2> QED BY <2>2
<1>11. PutInv'
  <2>1. ASSUME NEW f \in calls' PROVE \E e \in calls : /\ e.what = f.what /\ e.book = f.book
                                     /\ e.name = f.name /\ f = (IF e = c THEN d ELSE image(e))
    BY <1>3, <1>4, <1>5
  <2>2. ASSUME NEW f \in calls', f.what = "put"
        PROVE  FullName(f.book)' = f.name \/ f.book \in doubt'
    <3>1. PICK e \in calls : e.what = f.what /\ e.book = f.book /\ e.name = f.name
      BY <2>1
    <3> QED BY <1>1, <1>3, <2>2, <3>1 DEF PutInv, FullName
  <2>3. ASSUME NEW f \in calls', NEW g \in calls', f.what = "put", g.what \in {"put", "drop"},
               f # g, f.book = g.book
        PROVE  f.book \in doubt'
    <3>1. PICK e \in calls : /\ e.what = f.what /\ e.book = f.book
                            /\ f = (IF e = c THEN d ELSE image(e))
      BY <2>1
    <3>2. PICK h \in calls : /\ h.what = g.what /\ h.book = g.book
                            /\ g = (IF h = c THEN d ELSE image(h))
      BY <2>1
    <3>3. e # h
      BY <2>3, <3>1, <3>2
    <3> QED BY <1>1, <2>3, <3>1, <3>2, <3>3 DEF PutInv
  <2> QED BY <2>2, <2>3 DEF PutInv
<1>12. GetInv'
  <2> SUFFICES ASSUME NEW f \in calls', f.what = "get", f.done, ~f.stale, f.text # NoCells
               PROVE  InFile(f.name, f.text)'
    BY DEF GetInv
  <2>1. PICK e \in calls \ {c} : f = image(e)
    BY <1>3, <1>4
  <2>2. /\ e.what = "get" /\ e.done /\ ~e.stale /\ e.text = f.text /\ e.name = f.name
        /\ e.name \notin gone
    BY <1>5, <2>1
  <2> QED BY <1>6, <2>2 DEF GetInv
<1>13. HonestInv'
  <2> SUFFICES ASSUME NEW b \in DOMAIN books, Named(b), b \notin doubt', NEW text, Kept(b, text)'
               PROVE  /\ Moving(FullName(b))' = {} => InFile(FullName(b), text)'
                      /\ \A m \in Moving(FullName(b))' : InFile(m.to, text)'
    BY <1>3 DEF HonestInv, Named
  <2>1. PICK n : n = FullName(b)
    OBVIOUS
  <2>2. FullName(b)' = n
    BY <1>3, <2>1 DEF FullName
  <2>3. Moving(FullName(b))' = Moving(n)' /\ (InFile(FullName(b), text)' <=> InFile(n, text)')
    BY <2>2 DEF Moving, InFile, Exists
  <2>4. Kept(b, text)
    BY <1>3, <1>4, <1>5 DEF Kept
  <2>5. /\ Moving(n) = {} => InFile(n, text)
        /\ \A m \in Moving(n) : InFile(m.to, text)
    BY <1>1, <2>1, <2>4 DEF HonestInv
  <2>6. n \notin gone /\ \A m \in Moving(n) : m.to \notin gone
    BY <1>1, <2>1 DEF Touched, Of
  <2> QED BY <1>6, <1>9, <1>10, <2>3, <2>5, <2>6
<1>14. AgainInv'
  <2> SUFFICES ASSUME NEW m \in calls', m \in Moving(m.name)', Exists(m.name)',
                      NEW b \in DOMAIN books, Named(b), FullName(b) = m.name, b \notin doubt'
               PROVE  FALSE
    BY <1>3 DEF AgainInv, Of, Named, FullName
  <2>1. PICK n : n = m.name
    OBVIOUS
  <2>2. m \in Moving(n)' /\ Exists(n)
    BY <1>6, <2>1
  <2>3. PICK e \in Moving(n) : TRUE
    BY <1>9, <2>2
  <2>4. e \in calls /\ e.name = n /\ e \in Moving(e.name) /\ Exists(e.name)
    BY <2>2, <2>3 DEF Moving
  <2>5. b \in Of(n)
    BY <2>1 DEF Of
  <2> QED BY <1>1, <2>4, <2>5 DEF AgainInv
<1> QED BY <1>7, <1>8, <1>11, <1>12, <1>13, <1>14

-----------------------------------------------------------------------------
(* At first there is one new book, and no request. *)
LEMMA Begins == ASSUME TabsInit PROVE Inv
<1> DEFINE new == Book("book", "book", Blank)
<1>1. new \in BookRecords
  BY BookTyped, KindsTyped DEF Blank
<1>2. new.at = "shown" /\ new.name = Unnamed /\ new.text = Blank
  BY DEF Book
<1>3. /\ books = [b \in {1} |-> new] /\ opened = <<1>> /\ folder = FirstFiles /\ calls = {}
      /\ listing = [name \in DOMAIN FirstFiles |-> [icon |-> name[1], title |-> name[2]]]
      /\ deeds = [done |-> 0, lost |-> 0, bare |-> FALSE]
  BY DEF TabsInit
<1> HIDE DEF new
<1>4. 1..1 = {1} /\ 1 \in Nat
  OBVIOUS
<1>5. books \in [1..1 -> BookRecords] /\ opened \in Seq(1..1) /\ books[1] = new
  BY <1>1, <1>3, <1>4
<1>6. Page \in Pages(1)
  BY <1>5 DEF Page, Pages
<1>7. OnPage(Page) = {1}
  BY <1>2, <1>3 DEF OnPage, Page
<1>8. \A name \in DOMAIN FirstFiles :
        /\ name \in FileNames /\ FirstFiles[name] \in Nat
        /\ [icon |-> name[1], title |-> name[2]] \in [icon : Icons, title : Titled]
  <2> SUFFICES ASSUME NEW name \in DOMAIN FirstFiles
               PROVE  /\ name \in FileNames /\ FirstFiles[name] \in Nat
                      /\ [icon |-> name[1], title |-> name[2]] \in [icon : Icons, title : Titled]
    OBVIOUS
  <2>1. name = <<name[1], name[2]>> /\ FirstFiles[name] \in Nat
    BY TabsAssumption
  <2>2. name[1] \in IconKinds /\ name[2] \in Titled
    BY DEF IconKinds, Titled
  <2> QED BY <2>1, <2>2, KindsTyped DEF FileNames
<1>9. folder \in [DOMAIN folder -> Nat] /\ DOMAIN folder \subseteq FileNames
  BY <1>3, <1>8, TabsAssumption
<1>10. Listing(listing)
  BY <1>3, <1>8 DEF Listing
<1>11. TypeInv
  BY <1>3, <1>4, <1>6, <1>7, <1>9, <1>10 DEF TypeInv, Fine, Listing
<1>12. ShownInv /\ HonestInv
  BY <1>2, <1>3, <1>7 DEF ShownInv, HonestInv, Named, NoCells, Blank
<1>13. CallsInv /\ PutInv /\ GetInv /\ AgainInv
  BY <1>3 DEF CallsInv, PutInv, GetInv, AgainInv
<1> QED BY <1>11, <1>12, <1>13 DEF Inv

LEMMA InvKept == ASSUME Inv, [TabsNext]_tabsVars PROVE Inv'
<1>1. CASE UNCHANGED tabsVars
  <2>1. UNCHANGED <<books, opened, listing, folder, calls, deeds, doubt>>
    BY <1>1 DEF tabsVars
  <2>2. Fine(Page)' /\ Grows /\ ShownInv'
    BY <2>1 DEF Page, OnPage, Inv, TypeInv, Fine, Grows, ShownInv
  <2>3. TypeInv'
    BY <2>1, <2>2 DEF TypeInv, Inv
  <2> QED BY <2>1, <2>2, <2>3, SameCalls, QuietKeeps DEF Inv
<1>2. CASE TabsNext
  <2>1. CASE \E kind \in BookKinds : New(kind)
    BY <2>1, NewKeeps
  <2>2. CASE \E b \in DOMAIN books :
               \/ Type(b) \/ ClickIcon(b) \/ SwitchTo(b) \/ CloseTab(b) \/ Rendered(b)
               \/ \E title \in Titles : Retitle(b, title)
    BY <2>2, TypeKeeps, ClickIconKeeps, SwitchToKeeps, CloseTabKeeps, RenderedKeeps, RetitleKeeps
  <2>3. CASE EditPackages \/ OpenSide
    BY <2>3, EditPackagesKeeps, OpenSideKeeps
  <2>4. CASE \E link \in DOMAIN listing :
               \/ OpenFile(link) \/ CopyFile(link) \/ RemoveFile(link)
               \/ \E title \in Titles : RenameFile(link, title)
    BY <2>4, OpenFileKeeps, CopyFileKeeps, RemoveFileKeeps, RenameFileKeeps
  <2>5. CASE \E c \in calls : Serve(c) \/ SaveFails(c) \/ Lost(c)
    BY <2>5, ServeKeeps, SaveFailsKeeps, LostKeeps
  <2>6. CASE \E c \in calls : OnPut(c) \/ OnDrop(c) \/ OnGet(c) \/ OnCopy(c)
    BY <2>6, OnPutKeeps, OnDropKeeps, OnGetKeeps, OnCopyKeeps
  <2>7. CASE \E c \in calls : OnRemoved(c) \/ OnMoved(c) \/ OnListed(c) \/ OnPackages(c)
    BY <2>7, OnRemovedKeeps, OnMovedKeeps, OnListedKeeps, OnPackagesKeeps
  <2> QED BY <1>2, <2>1, <2>2, <2>3, <2>4, <2>5, <2>6, <2>7 DEF TabsNext
<1> QED BY <1>1, <1>2

LEMMA Honest == ASSUME Inv PROVE PageHonest
<1> USE DEF Inv
<1>1. Cardinality(OnPage(Page)) <= 1
  <2>1. CASE OnPage(Page) = {}
    BY <2>1, FS_EmptySet
  <2>2. CASE OnPage(Page) # {}
    <3>1. PICK b : OnPage(Page) = {b}
      BY <2>2 DEF TypeInv, Fine
    <3> QED BY <3>1, FS_Singleton
  <2> QED BY <2>1, <2>2
<1>2. OneShown
  BY <1>1 DEF OneShown, ShownInv
<1>3. MarkHonest
  <2> SUFFICES ASSUME NEW b \in Range(opened), Named(b), ~books[b].mark, b \notin doubt,
                      Moving(FullName(b)) = {}
               PROVE  Exists(FullName(b)) /\ folder[FullName(b)] = books[b].text
    BY DEF MarkHonest
  <2>1. b \in DOMAIN books
    BY BookTypes DEF Range
  <2> QED BY <2>1 DEF HonestInv, Kept, InFile
<1> QED BY <1>2, <1>3 DEF PageHonest

(* PageHonest, whatever users do, the network loses and the server fails to do: one book is on *)
(* the page, and a book whose title is not in italics is in its file as it is on the page,     *)
(* unless the file is being renamed, something else was done to the file or the book           *)
(* meanwhile, or the answer to a save took the mark though the save failed or the text had     *)
(* changed since it was sent (window.js:129-133).                                              *)
THEOREM PagesAreHonest == TabsSpec => []PageHonest
<1>1. TabsInit => Inv
  BY Begins
<1>2. Inv /\ [TabsNext]_tabsVars => Inv'
  BY InvKept
<1>3. Inv => PageHonest
  BY Honest
<1> QED BY <1>1, <1>2, <1>3, PTL DEF TabsSpec
=============================================================================

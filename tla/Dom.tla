------------------------------- MODULE Dom -------------------------------
(* The tree of a document, as a script changes it: the checks of a mutation (MutationPlan),  *)
(* the methods of Node and NodeMixin, and the two backends they run on, pugixml for XML and  *)
(* lexbor for HTML.  One script, one thread: the steps are its calls, in any order.  A call  *)
(* that throws changes nothing, so the guards of the actions are what the calls check first. *)
EXTENDS Integers, FiniteSets, SequencesExt

CONSTANTS
    Doc,     \* the document
    None,    \* no node
    Word,    \* a string argument
    Texts,   \* the text nodes that string arguments may become: this bounds them
    MaxArguments,  \* bounds the arguments of a call
    Casts    \* the documents a script may begin with: [be, type, kids, marks, top, roots, styled]

VARIABLES
    be,      \* the backend, "xml" or "html"
    type,    \* the nodes there are, with their DOM node types
    tree,    \* the tree, as a record (below)
    held,    \* the nodes the script has objects for (XMLBackend::nodes, HTMLBackend::nodes)
    script,  \* what it uses: nodes with collections, and elements whose class it sets
    classed, \* the elements that have the class a collection selects
    live     \* a live collection of them: [root, stale, out], root = None before there is one

vars == <<be, type, script, tree, held, classed, live>>

(* tree.kids[p] are p's children, in order.  For XML the document's children hold the nodes  *)
(* without a parent too, marked as detached.  tree.texts are the nodes of Texts that exist,  *)
(* tree.blank the text nodes whose value is empty, tree.top the root element that lexbor's   *)
(* document remembers, and tree.told the nodes that the mutation callbacks of the call have  *)
(* published: it is empty between two calls.                                                 *)
Element == 1
Text == 3
Comment == 8
Document == 9
Doctype == 10
Fragment == 11
Branches(t) == {n \in DOMAIN t : t[n] \in {Element, Document, Fragment}}
Inner == Branches(type)
ChildTypes == {Element, Text, 4, 7, Comment, Doctype}

Pool == Texts \cap DOMAIN type
Xml == be = "xml"

(* A step for each of s in turn, from d on: every loop is one of these. *)
Each(step(_, _), d, s) ==
    LET after[i \in 0..Len(s)] == IF i = 0 THEN d ELSE step(after[i - 1], s[i])
    IN after[Len(s)]

Counted(n) == [k \in 1..n |-> k]
Joined(ss) == Each(LAMBDA all, s: all \o s, <<>>, ss)
Without(s, S) ==
    IF ToSet(s) \cap S = {} THEN s
    ELSE Each(LAMBDA t, x: IF x \in S THEN t ELSE Append(t, x), <<>>, s)
Only(s, S) == Without(s, ToSet(s) \ S)
Index(s, x) == CHOOSE i \in DOMAIN s : s[i] = x
(* s with x before r, or at the end *)
Inserted(s, x, r) ==
    IF r \in ToSet(s)
    THEN LET i == Index(s, r) IN SubSeq(s, 1, i - 1) \o <<x>> \o SubSeq(s, i, Len(s))
    ELSE Append(s, x)
(* The first of s, from its i-th on, that is in S. *)
FirstFrom(s, i, S) ==
    LET at == {j \in DOMAIN s : j >= i /\ s[j] \in S}
    IN IF at = {} THEN None ELSE s[CHOOSE j \in at : \A k \in at : j <= k]
FirstOf(s) == FirstFrom(s, 1, ToSet(s))

-----------------------------------------------------------------------------
(* Reading the tree *)

Above(d, n) ==
    LET in == {p \in DOMAIN d.kids : n \in ToSet(d.kids[p])}
    IN IF in = {} THEN None ELSE CHOOSE p \in in : TRUE

(* XMLBackend::parentNode, HTMLBackend::parentNode: a marked node has none. *)
Parent(d, n) == IF n \in d.marks THEN None ELSE Above(d, n)

(* The children that first_child and next_sibling walk through. *)
Kids(d, p) == IF p = Doc THEN Without(d.kids[p], d.marks) ELSE d.kids[p]

(* n and what it is in, inmost first: the loop of contains and of compareDocumentPosition. *)
Path(d, n) ==
    Each(LAMBDA s, k: LET p == Parent(d, s[Len(s)]) IN IF p = None THEN s ELSE Append(s, p),
         <<n>>, Counted(Cardinality(Inner)))

IsChild(d, p, c) == Above(d, c) = p /\ (p # Doc \/ c \notin d.marks)

NextOf(d, n) ==
    LET s == Kids(d, Above(d, n)) IN IF Index(s, n) = Len(s) THEN None ELSE s[Index(s, n) + 1]

(* Backend::parent: elements and documents only, so the children of a fragment have none. *)
ParentOf(d, n) ==
    LET p == Parent(d, n) IN IF p # None /\ type[p] \in {Element, Document} THEN p ELSE None

(* Each node followed by what is beneath it, in order: what a walk of the tree visits. *)
Beneath(d) ==
    Each(LAMBDA deeper, k: [n \in DOMAIN type |->
            LET s == IF n \in Inner THEN Kids(d, n) ELSE <<>>
            IN <<n>> \o Joined([i \in DOMAIN s |-> deeper[s[i]]])],
         [n \in DOMAIN type |-> <<n>>], Counted(Cardinality(Inner)))
Below(d, n) == Beneath(d)[n]

(* Defect: a node in one that is stored counts as connected. *)
IsConnectedOwn(d, n) == IF Xml THEN n \notin d.marks ELSE type[Last(Path(d, n))] = Document

IsConnected(d, n) ==
    IF Xml THEN \A x \in ToSet(Path(d, n)) : x \notin d.marks ELSE type[Last(Path(d, n))] = Document

GetRootNode(d, n) == Last(Path(d, n))

(* The elements a selector finds beneath n (querySelectorAll): here, those with the class. *)
QueryAll(d, n) == Only(Tail(Below(d, n)), classed)

(* compareDocumentPosition: 20 contained by and following, 10 contains and preceding, 2      *)
(* preceding, 4 following, 1 disconnected.                                                   *)
Compare(d, n, o) ==
    LET up == Path(d, n)  uo == Path(d, o)
        depth(s, i) == s[Len(s) + 1 - i]
        fork == CHOOSE i \in 1..Len(up) :
                   /\ i <= Len(uo) /\ depth(up, i) # depth(uo, i)
                   /\ \A j \in 1..(i - 1) : depth(up, j) = depth(uo, j)
        sibs == Kids(d, Above(d, depth(up, fork)))
    IN CASE n = o -> 0
         [] n # o /\ n \in ToSet(uo) -> 20
         [] n # o /\ o \in ToSet(up) -> 10
         [] n \notin ToSet(uo) /\ o \notin ToSet(up) /\ Last(up) # Last(uo) -> 1
         [] OTHER -> IF Index(sibs, depth(uo, fork)) < Index(sibs, depth(up, fork)) THEN 2 ELSE 4

-----------------------------------------------------------------------------
(* Changing the tree *)

(* What the callbacks of lexbor's document publish for an element: where it was, where it is. *)
Tell(d, c, at) ==
    IF Xml \/ type[c] # Element THEN d
    ELSE [d EXCEPT !.told = @ \cup {c} \cup ToSet(Path(d, at))]

(* Defect: nobody is told of an element that is taken out. *)
UnlinkSilent(d, c) ==
    LET p == Above(d, c) IN IF p = None THEN d ELSE [d EXCEPT !.kids[p] = Without(@, {c})]

Unlink(d, c) ==
    LET p == Above(d, c)
    IN IF p = None THEN d ELSE Tell([d EXCEPT !.kids[p] = Without(@, {c})], c, p)

Link(d, c, p, r) ==
    Tell([Unlink(d, c) EXCEPT !.kids[p] = Inserted(@, c, r)], c, p)

(* lxb_dom_node_append_child and _insert_before_spec: a fragment gives its children. *)
LinkAll(d, c, p, r) ==
    IF type[c] = Fragment THEN Each(LAMBDA e, x: Link(e, x, p, r), d, d.kids[c])
    ELSE Link(d, c, p, r)

(* sync_document *)
Sync(d, p) ==
    IF Xml \/ p # Doc THEN d
    ELSE [d EXCEPT !.top = FirstFrom(d.kids[Doc], 1, {n \in Inner : type[n] = Element})]

(* Defect: what is appended to a document goes behind the nodes that are stored there. *)
StorageNone(d, c) == None

(* The first stored node: what is appended to an XML document is put before it. *)
Storage(d, c) == FirstFrom(d.kids[Doc], 1, d.marks \ {c})

Attach(d, c, p, r) ==
    IF Xml
    THEN IF c = r THEN d
         ELSE LET ref == IF r = None /\ p = Doc THEN Storage(d, c) ELSE r
              IN [Link(d, c, p, ref) EXCEPT !.marks = @ \ {c}]
    ELSE Sync(LinkAll(d, c, p, IF c = r THEN NextOf(d, c) ELSE r), p)

(* remove: an XML node goes to the end of the document's children and is marked. *)
Detach(d, c) ==
    IF Xml THEN [Link(d, c, Doc, None) EXCEPT !.marks = @ \cup {c}]
    ELSE Sync(Unlink(d, c), Above(d, c))

RemoveVoid(d, c) == IF Parent(d, c) = None THEN d ELSE Detach(d, c)

Fresh(d) == CHOOSE s \in Pool : s \notin d.texts

CreateText(d) ==
    LET s == Fresh(d)  new == [d EXCEPT !.texts = @ \cup {s}, !.blank = @ \ {s}]
    IN IF Xml THEN [new EXCEPT !.kids[Doc] = Append(@, s), !.marks = @ \cup {s}] ELSE new

(* Defect: the document's element is not looked up again. *)
ExchangeUnsynced(d, p, n, o) ==
    CASE n = o -> d
      [] n # o /\ Xml -> Detach(Attach(d, n, p, o), o)
      [] OTHER -> LinkAll(Unlink(d, o), n, p, IF n = NextOf(d, o) THEN NextOf(d, n) ELSE NextOf(d, o))

(* XMLBackend::replaceChild, HTMLBackend::replaceChild *)
Exchange(d, p, n, o) ==
    LET after == NextOf(d, o)
    IN CASE n = o -> d
         [] n # o /\ Xml -> Detach(Attach(d, n, p, o), o)
         [] OTHER ->
              Sync(LinkAll(Unlink(d, o), n, p,
                           IF n = after THEN NextOf(d, n) ELSE after), p)

-----------------------------------------------------------------------------
(* The checks *)

(* The nodes that arguments stand for, fragments opened, with strings as they are. *)
TypeOf(x) == IF x = Word THEN Text ELSE type[x]

Opened(d, args) ==
    Joined([i \in DOMAIN args |->
               IF TypeOf(args[i]) = Fragment THEN d.kids[args[i]] ELSE <<args[i]>>])

(* Each of new is put into s at i, after those before it; one that is there already moves. *)
Put(plan, x) ==
    LET before == Without(SubSeq(plan.s, 1, plan.at), {x} \ {Word})
        behind == Without(SubSeq(plan.s, plan.at + 1, Len(plan.s)), {x} \ {Word})
    IN [s |-> before \o <<x>> \o behind, at |-> Len(before) + 1]
PutEach(s, i, new) == Each(Put, [s |-> s, at |-> i], new).s

(* Defect: the arguments are planned behind the reference. *)
PlannedBehind(d, p, args, r, removed) ==
    LET gone == removed \cup (ToSet(Opened(d, args)) \ {Word})
        s == Kids(d, p)
        upto == IF r \in ToSet(s) THEN Index(s, r) ELSE Len(s)
        start == Len(Without(SubSeq(s, 1, upto), gone))
    IN PutEach(Without(s, gone), start, Opened(d, args))

(* Defect: the nodes that are to be replaced still count. *)
PlannedBeside(d, p, args, r, removed) ==
    LET base == Without(Kids(d, p), ToSet(Opened(d, args)) \ {Word})
    IN PutEach(base, Len(base), Opened(d, args))

(* The plan's result: p's children when the arguments have been put before r. *)
Planned(d, p, args, r, removed) ==
    LET new == Opened(d, args)
        gone == removed \cup (ToSet(new) \ {Word})
        base == Without(Kids(d, p), gone)
        start == IF r \in ToSet(Kids(d, p))
                 THEN Len(Without(SubSeq(Kids(d, p), 1, Index(Kids(d, p), r) - 1), gone))
                 ELSE Len(base)
    IN PutEach(base, start, new)

(* What a document may hold: at most one element, and before it at most one doctype. *)
Holds(p, types) ==
    LET at(t) == {i \in DOMAIN types : types[i] = t}
    IN /\ ToSet(types) \subseteq ChildTypes
       /\ type[p] # Document => Doctype \notin ToSet(types)
       /\ type[p] = Document =>
            /\ ToSet(types) \subseteq {Element, 7, Comment, Doctype}
            /\ Cardinality(at(Element)) <= 1 /\ Cardinality(at(Doctype)) <= 1
            /\ \A i \in at(Doctype), j \in at(Element) : i < j

(* MutationPlan::operator bool *)
MutationPlan(d, p, args, r, removed) ==
    /\ p \in Inner
    /\ LET around == ToSet(Path(d, p))
       IN \A x \in ToSet(args) \ {Word} :
            x \notin around /\ type[x] \in ChildTypes \cup {Fragment}
    /\ LET s == Planned(d, p, args, r, removed)
       IN Holds(p, [i \in DOMAIN s |-> TypeOf(s[i])])

(* The strings of the arguments become text nodes: the model has so many. *)
Room(d, args) ==
    Cardinality({i \in DOMAIN args : args[i] = Word}) <= Cardinality(Pool \ d.texts)

-----------------------------------------------------------------------------
(* The methods: which calls are accepted, and the tree that they leave *)

(* append_validated, after_validated, before_validated and prepend_validated *)
InsertEach(d, p, args, r) ==
    Each(LAMBDA e, x: IF x = Word THEN Attach(CreateText(e), Fresh(e), p, r)
                      ELSE Attach(e, x, p, r), d, args)

(* detach_nodes: a node that is named twice has no parent any more the second time. *)
DetachEach(d, args) ==
    Each(LAMBDA e, x: IF TypeOf(x) = Fragment \/ x = Word THEN e ELSE RemoveVoid(e, x), d, args)

(* moves_node *)
Moving(d, args) ==
    ToSet(args) \cup UNION {ToSet(d.kids[x]) : x \in {y \in ToSet(args) : TypeOf(y) = Fragment}}

(* Defect: the child that the arguments are to come before is itself passed over. *)
StableBehind(d, p, start, args) ==
    LET s == Kids(d, p)
    IN IF start = None THEN None
       ELSE FirstFrom(s, Index(s, start) + 1, ToSet(s) \ Moving(d, args))

(* stable_reference: the first of p's children from start on that does not move itself. *)
Stable(d, p, start, args) ==
    LET s == Kids(d, p)
    IN IF start = None THEN None ELSE FirstFrom(s, Index(s, start), ToSet(s) \ Moving(d, args))

OfParent == {"append", "prepend", "replaceChildren"}

(* A call of a method with many arguments: the parent it is about, the child it inserts      *)
(* before, and the children it replaces.                                                     *)
Site(d, how, n) ==
    LET p == IF how \in OfParent THEN n ELSE ParentOf(d, n)
    IN [parent |-> p,
        before |-> IF p = None THEN None
                   ELSE CASE how = "prepend" -> FirstOf(Kids(d, p))
                          [] how = "before" -> n
                          [] how \in {"after", "replaceWith"} -> NextOf(d, n)
                          [] OTHER -> None,
        removed |-> CASE how = "replaceWith" -> {n}
                      [] how = "replaceChildren" -> ToSet(Kids(d, n))
                      [] OTHER -> {}]

Accepts(d, how, n, args) ==
    LET at == Site(d, how, n)
    IN /\ at.parent # None
       /\ MutationPlan(d, at.parent, args, at.before, at.removed)
       /\ Room(d, args)

(* append_t, prepend_t, replaceChildren_t, after_t, before_t and replaceWith_t *)
Result(d, how, n, args) ==
    LET at == Site(d, how, n)
        ref == Stable(d, at.parent, at.before, args)
        emptied == IF how = "replaceChildren" THEN DetachEach(d, Kids(d, n)) ELSE d
        loose == DetachEach(emptied, args)
    IN InsertEach(IF how = "replaceWith" THEN RemoveVoid(loose, n) ELSE loose,
                  at.parent, args, ref)

(* canHaveChild and the other checks of appendChild and insertBefore (r # None) *)
CanInsert(d, p, c, r) ==
    /\ MutationPlan(d, p, <<c>>, r, {})
    /\ r # None => IsChild(d, p, r)

CanReplace(d, p, n, o) == MutationPlan(d, p, <<n>>, o, {o}) /\ IsChild(d, p, o)

(* A text without an object is freed (in HTML it stays allocated, out of reach). *)
Discard(d, c) ==
    IF c \in held THEN Detach(d, c)
    ELSE [Unlink(d, c) EXCEPT !.texts = @ \ {c}, !.blank = @ \ {c}, !.marks = @ \ {c}]

(* Setting textContent of an element or a fragment; del_text and set_text for HTML. *)
WithText(d, p, some) ==
    LET e == Each(Discard, d, d.kids[p])
        t == Fresh(e)
    IN IF ~some THEN e
       ELSE [e EXCEPT !.kids[p] = <<t>>, !.texts = @ \cup {t}, !.blank = @ \ {t}]

(* Defect: only one text is taken in. *)
RestOne(s, x) ==
    LET i == Index(s, x)
    IN IF i < Len(s) /\ type[s[i + 1]] = Text THEN <<s[i + 1]>> ELSE <<>>

(* The texts that follow the text x directly. *)
Rest(s, x) ==
    Only(s, {s[j] : j \in {j \in (Index(s, x) + 1)..Len(s) :
                             \A k \in Index(s, x)..j : type[s[k]] = Text}})

Leads(s) ==
    {s[i] : i \in {j \in DOMAIN s : type[s[j]] = Text
                                     /\ (j = 1 \/ type[s[j - 1]] # Text)}}

(* normalize: a text takes in those that follow it, and goes itself when it is empty. *)
Merge(d, s, x) ==
    LET taken == ToSet(<<x>> \o Rest(s, x))
        empty == taken \subseteq d.blank
    IN Each(Discard, [d EXCEPT !.blank = IF empty THEN @ ELSE @ \ {x}],
            Rest(s, x) \o (IF empty THEN <<x>> ELSE <<>>))

MergeAll(d, p) ==
    LET s == d.kids[p] IN Each(LAMBDA e, x: Merge(e, s, x), d, Only(s, Leads(s)))

Normal(d, p) == Each(MergeAll, d, Only(Below(d, p), Inner))

-----------------------------------------------------------------------------
(* What a document is: one tree or several, none without the document itself.               *)
Kinds(b, t) ==
    /\ IsFiniteSet(DOMAIN t) /\ {None, Word} \cap DOMAIN t = {} /\ Doc \in DOMAIN t
    /\ \A n \in DOMAIN t : t[n] = Document <=> n = Doc
    /\ \A n \in Texts \cap DOMAIN t : t[n] = Text
    /\ b = "xml" => \A n \in DOMAIN t : t[n] # Fragment

(* A text of Texts is there once a string has become it, until it is freed. *)
NodesOf(t, d) == DOMAIN t \ (Texts \ d.texts)

Trees(t) ==
    [kids : [Branches(t) -> Seq(DOMAIN t)], marks : SUBSET DOMAIN t,
     texts : SUBSET (Texts \cap DOMAIN t), blank : SUBSET DOMAIN t,
     top : DOMAIN t \cup {None}, told : SUBSET DOMAIN t]

Once(d) ==
    \A p, q \in DOMAIN d.kids : \A i \in DOMAIN d.kids[p], j \in DOMAIN d.kids[q] :
        d.kids[p][i] = d.kids[q][j] => p = q /\ i = j

Acyclic(d) == \A S \in (SUBSET DOMAIN d.kids) \ {{}} : \E n \in S : Above(d, n) \notin S

(* What XML stores beneath the document: marked, and behind all that is in the document.     *)
Stored(t, d) ==
    LET s == d.kids[Doc]
    IN /\ d.marks \subseteq ToSet(s)
       /\ \A n \in NodesOf(t, d) \ {Doc} : Above(d, n) # None
       /\ \A i, j \in DOMAIN s : i < j /\ s[i] \in d.marks => s[j] \in d.marks

WellFormed(b, t, h, d) ==
    /\ Kinds(b, t) /\ d \in Trees(t)
    /\ DOMAIN t \ Texts \subseteq h /\ h \subseteq NodesOf(t, d)
    /\ \A p \in Branches(t) :
         ToSet(d.kids[p]) \subseteq {n \in NodesOf(t, d) : t[n] \in ChildTypes}
    /\ d.blank \subseteq NodesOf(t, d)
    /\ Once(d) /\ Acyclic(d)
    /\ IF b = "xml" THEN Stored(t, d) ELSE d.marks = {}

(* The trees that parsers make: an HTML document has one element at most, and remembers it. *)
Grown(c) ==
    [kids |-> c.kids, marks |-> c.marks, texts |-> {}, blank |-> {}, top |-> c.top, told |-> {}]

ASSUME CastsAssumption ==
    \A c \in Casts :
        /\ WellFormed(c.be, c.type, DOMAIN c.type \ Texts, Grown(c))
        /\ c.be # "xml" => \A n \in ToSet(c.kids[Doc]) : c.type[n] = Element => n = c.top
        /\ c.roots \cup c.styled \subseteq Branches(c.type)

Cast(c) ==
    /\ be = c.be /\ type = c.type /\ script = [roots |-> c.roots, styled |-> c.styled]
    /\ tree = Grown(c) /\ held = DOMAIN c.type \ Texts
    /\ classed = {} /\ live = [root |-> None, stale |-> FALSE, out |-> <<>>]

Init == \E c \in Casts : Cast(c)

(* What a call leaves: a live collection on a node that was told of it is out of date. *)
Leave(d) ==
    /\ tree' = [d EXCEPT !.told = {}]
    /\ live' = [live EXCEPT !.stale = @ \/ live.root \in d.told]
    /\ UNCHANGED <<be, type, script, held, classed>>

Calls == OfParent \cup {"after", "before", "replaceWith"}
Targets(how) == IF how \in OfParent THEN held \cap Inner ELSE held \ {Doc}
Items == held \cup {Word}
Arguments == UNION {[1..k -> Items] : k \in 1..MaxArguments}

Insert ==
    \E p \in Inner \cap held, c \in held, r \in held \cup {None} :
        CanInsert(tree, p, c, r) /\ Leave(Attach(tree, c, p, r))

Replace ==
    \E p \in Inner \cap held, n, o \in held :
        CanReplace(tree, p, n, o) /\ Leave(Exchange(tree, p, n, o))

RemoveChild ==
    \E p, c \in held : IsChild(tree, p, c) /\ Leave(Detach(tree, c))

TakeOut == \E c \in held : type[c] # Document /\ Leave(RemoveVoid(tree, c))

Place(how) ==
    \E n \in Targets(how), args \in Arguments :
        Accepts(tree, how, n, args) /\ Leave(Result(tree, how, n, args))

Empty == \E n \in held \cap Inner : Leave(Result(tree, "replaceChildren", n, <<>>))

SetTextContent ==
    \E n \in held \cap Inner, some \in BOOLEAN :
        /\ type[n] # Document
        /\ some => Pool \ (tree.texts \ (ToSet(tree.kids[n]) \ held)) # {}
        /\ Leave(WithText(tree, n, some))

SetNodeValue ==
    \E t \in held :
        /\ type[t] = Text
        /\ \E b \in {tree.blank \cup {t}, tree.blank \ {t}} : Leave([tree EXCEPT !.blank = b])

(* Not of an XML document itself: that would merge the nodes that are stored there. *)
Normalize ==
    \E n \in held \cap Inner : ~(Xml /\ n = Doc) /\ Leave(Normal(tree, n))

(* firstChild and the like: the script gets an object for a text that came from a string. *)
Take ==
    \E t \in tree.texts \ held :
        /\ held' = held \cup {t}
        /\ UNCHANGED <<be, type, script, tree, classed, live>>

(* getElementsByClassName, HTMLCollection::init *)
Select ==
    /\ ~Xml /\ live.root = None
    /\ \E n \in script.roots :
         live' = [root |-> n, stale |-> FALSE, out |-> QueryAll(tree, n)]
    /\ UNCHANGED <<be, type, script, tree, held, classed>>

(* HTMLCollection::update, which every read of a collection begins with *)
Update ==
    /\ live.stale
    /\ live' = [live EXCEPT !.stale = FALSE, !.out = QueryAll(tree, live.root)]
    /\ UNCHANGED <<be, type, script, tree, held, classed>>

(* Setting the class, attr_change *)
SetClass ==
    /\ ~Xml
    /\ \E n \in script.styled :
         /\ classed' = (IF n \in classed THEN classed \ {n} ELSE classed \cup {n})
         /\ live' = [live EXCEPT !.stale = @ \/ live.root \in ToSet(Path(tree, n))]
    /\ UNCHANGED <<be, type, script, tree, held>>

Next ==
    \/ Insert \/ Replace \/ RemoveChild \/ TakeOut \/ Empty
    \/ \E how \in Calls : Place(how)
    \/ SetTextContent \/ SetNodeValue \/ Normalize \/ Take
    \/ Select \/ Update \/ SetClass

Spec == Init /\ [][Next]_vars

-----------------------------------------------------------------------------
Nodes == NodesOf(type, tree)

(* The nodes form a forest: each is the child of one node at most, once, and never in itself.  *)
(* What XML stores beneath the document is marked, comes last, and no marked node is anywhere  *)
(* else; nothing the script can hold is lost from it (Node's and NodeMixin's methods).         *)
Forest == WellFormed(be, type, held, tree) /\ tree.told = {}

(* A document never holds two elements, or text, or a doctype after its element, and nothing   *)
(* else holds a doctype, whatever a script calls (MutationPlan): true of the calls with two    *)
(* arguments, and not of those with three.                                                     *)
ContentModel ==
    \A p \in Inner : LET s == Kids(tree, p) IN Holds(p, [i \in DOMAIN s |-> type[s[i]]])

(* What a method that takes many nodes promises: each named node moves once, where it was      *)
(* named last, a fragment gives what else it has where it is named first, and the rest keep    *)
(* their order around the spot.                                                                *)
Named(d, args) ==
    LET last(i) == args[i] = Word \/ \A j \in DOMAIN args : args[j] = args[i] => j <= i
        first(i) == \A j \in DOMAIN args : args[j] = args[i] => j >= i
        at(i) == IF TypeOf(args[i]) = Fragment
                 THEN IF first(i) THEN Without(d.kids[args[i]], ToSet(args)) ELSE <<>>
                 ELSE IF last(i) THEN <<args[i]>> ELSE <<>>
    IN Joined([i \in DOMAIN args |-> at(i)])

Promised(d, how, n, args) ==
    LET at == Site(d, how, n)
        s == Kids(d, at.parent)
        spot == CASE how = "prepend" -> 0
                  [] how = "before" -> Index(s, n) - 1
                  [] how \in {"after", "replaceWith"} -> Index(s, n)
                  [] OTHER -> Len(s)
        gone == at.removed \cup ToSet(Named(d, args))
    IN Without(SubSeq(s, 1, spot), gone) \o Named(d, args)
         \o Without(SubSeq(s, spot + 1, Len(s)), gone)

(* Such a call has left what it promised: the arguments stand in order in the place asked     *)
(* for, although the node they were to stand at may move itself, or be named twice, and every  *)
(* other parent loses the moved nodes and nothing else (stable_reference, detach_nodes).       *)
Placed(how, n, args, promised) ==
    LET e == Result(tree, how, n, args)
        at == Site(tree, how, n)
        s == Kids(e, at.parent)
        moved == ToSet(Named(tree, args))
    IN /\ [i \in DOMAIN s |-> IF s[i] \in e.texts \ tree.texts THEN Word ELSE s[i]] = promised
       /\ \A q \in Inner \ {at.parent} : Kids(e, q) = Without(Kids(tree, q), moved)
       /\ \A x \in at.removed \ moved : Parent(e, x) = None

(* The plan foresees what the call leaves: a call is refused exactly when a node would be put  *)
(* into itself or the children it would leave may not be a parent's (MutationPlan); otherwise  *)
(* the nodes are then where the caller put them, and the documents are kept (ContentModel).    *)
PlanKept ==
    /\ ContentModel
    /\ \A how \in Calls : \A n \in Targets(how) :
         LET at == Site(tree, how, n)
             around == ToSet(Path(tree, at.parent))
         IN at.parent # None => \A args \in Arguments :
              LET s == Promised(tree, how, n, args)
                  accepted == MutationPlan(tree, at.parent, args, at.before, at.removed)
              IN /\ accepted <=>
                       /\ ToSet(args) \cap around = {}
                       /\ Holds(at.parent, [i \in DOMAIN s |-> TypeOf(s[i])])
                 /\ accepted /\ Room(tree, args) => Placed(how, n, args, s)

(* compareDocumentPosition and isConnected say of any two nodes what the order of the tree     *)
(* says, and see nothing of where XML stores the nodes that have no parent.                    *)
OrderAgrees ==
    LET below == Beneath(tree)
    IN \A n \in Nodes :
         /\ IsConnected(tree, n) <=> n \in ToSet(below[Doc])
         /\ LET s == below[GetRootNode(tree, n)]
            IN \A o \in Nodes :
                 Compare(tree, n, o) =
                    CASE n = o -> 0
                      [] o \notin ToSet(s) -> 1
                      [] n # o /\ o \in ToSet(below[n]) -> 20
                      [] n # o /\ n \in ToSet(below[o]) -> 10
                      [] OTHER -> IF Index(s, o) < Index(s, n) THEN 2 ELSE 4

(* normalize leaves no empty text and no two texts side by side beneath the node, and neither  *)
(* loses a text that is not empty nor disturbs anything else.                                  *)
Normalized ==
    \A n \in (held \cap Inner) \ (IF Xml THEN {Doc} ELSE {}) :
        LET e == Normal(tree, n)
            inside == ToSet(Below(tree, n))
            isText(x) == type[x] = Text
        IN \A p \in Inner :
             LET s == Kids(e, p)  was == Kids(tree, p)
             IN IF p \notin inside THEN s = was
                ELSE /\ \A i \in DOMAIN s :
                          isText(s[i]) => s[i] \notin e.blank /\ (i > 1 => ~isText(s[i - 1]))
                     /\ SelectSeq(s, LAMBDA x: ~isText(x)) = SelectSeq(was, LAMBDA x: ~isText(x))
                     /\ \A x \in Leads(was) :
                          ToSet(<<x>> \o Rest(was, x)) \subseteq tree.blank \/ x \in ToSet(s)

(* When an HTML document has an element, it is its documentElement (sync_document).            *)
TopCurrent ==
    ~Xml => LET s == Only(tree.kids[Doc], {n \in Inner : type[n] = Element})
            IN s # <<>> => tree.top = Head(s)

(* What is copied from the tree agrees with it: documentElement, and a live collection that    *)
(* does not know itself out of date.  Every way a node can come, go or change reaches them     *)
(* (LiveCollection, sync_document).                                                            *)
LiveFresh ==
    /\ TopCurrent
    /\ live.root # None /\ ~live.stale => live.out = QueryAll(tree, live.root)
=============================================================================

------------------------------ MODULE Elements ------------------------------
(* The functions of HTML's own elements, which change the tree and the attributes of their    *)
(* own accord: tables with their sections, rows and cells; selects with their options; forms  *)
(* with their controls and labels.  Beside them the script moves nodes with Node's methods.   *)
EXTENDS Integers, FiniteSets, SequencesExt

CONSTANTS
    Root,        \* the document
    None,        \* no node, no index, no attribute
    Pages,       \* what a script may begin with: [tags, kin, values, ids, refs, movable, spare]
    MaxLength    \* a select is not made longer than this

VARIABLES
    tags,    \* the nodes there are, with their tags
    kin,     \* their children, in order
    picked,      \* the options that have the attribute "selected"
    many,    \* the selects that have the attribute "multiple"
    ids,     \* the id of a node that has one
    refs,    \* whom a control's attribute "form" or a label's "for" names
    page,    \* what the script began with
    asked,   \* history: what the last insertion was asked for: [on, at, node]
    loose    \* history: selects that were given more than one selected option on purpose

elementVars == <<tags, kin, picked, many, ids, refs, page, asked, loose>>

Rows == {"tr"}
Sections == {"thead", "tbody", "tfoot"}
Labelable == {"button", "input", "select", "textarea"}
Listed == {"button", "fieldset", "input", "select", "textarea"}
Nothing == [on |-> None, at |-> 0, node |-> None]

At(s, x) == CHOOSE i \in DOMAIN s : s[i] = x
Place(s, x) == IF x \in ToSet(s) THEN At(s, x) - 1 ELSE -1
Among(s, T) == SelectSeq(s, LAMBDA x: tags[x] \in T)
(* The nodes that functions create, in order: page.spare bounds them. *)
Unused == SelectSeq(page.spare, LAMBDA x: x \notin DOMAIN tags)

-----------------------------------------------------------------------------
(* The tree: lxb_dom_node_t and its functions *)

Up(k, n) ==
    LET in == {p \in DOMAIN k : n \in ToSet(k[p])}
    IN IF in = {} THEN None ELSE CHOOSE p \in in : TRUE

RECURSIVE Chain(_, _)
Chain(k, n) == IF n = None THEN <<>> ELSE <<n>> \o Chain(k, Up(k, n))

RECURSIVE Walk(_, _)
Walk(k, s) == IF s = <<>> THEN <<>> ELSE <<Head(s)>> \o Walk(k, k[Head(s)]) \o Walk(k, Tail(s))

(* querySelectorAll with a list of tags *)
Query(n, T) == Among(Walk(kin, kin[n]), T)

Out(k, n) == LET p == Up(k, n) IN IF p = None THEN k ELSE [k EXCEPT ![p] = Remove(@, n)]

(* lxb_dom_node_insert_before_spec; without a reference lxb_dom_node_append_child *)
Put(k, n, p, before) ==
    LET l == Out(k, n)
    IN [l EXCEPT ![p] = IF before = None THEN Append(@, n) ELSE InsertAt(@, At(@, before), n)]

Made(k, n) == (n :> <<>>) @@ k

Closest(n, t) ==
    LET c == Among(Chain(kin, n), {t}) IN IF c = <<>> THEN None ELSE Head(c)

DirectChild(n, t) == LET c == Among(kin[n], {t}) IN IF c = <<>> THEN None ELSE Head(c)

(* HTMLElement::root: the topmost element, not the document or a fragment above it *)
RootOf(n) == LET c == SelectSeq(Chain(kin, n), LAMBDA x: tags[x] \notin {"document", "fragment"})
             IN Last(c)

Connected(n) == Last(Chain(kin, n)) = Root

Attributes == <<picked, many, ids, refs>>

(* A node that is taken out by a function of a table and that the script does not keep. *)
Dropped(n) ==
    LET gone == ToSet(Walk(kin, <<n>>))
        k == Out(kin, n)
    IN /\ kin' = [x \in DOMAIN k \ gone |-> k[x]]
       /\ tags' = [x \in DOMAIN tags \ gone |-> tags[x]]

-----------------------------------------------------------------------------
(* Tables *)

Tables == {n \in DOMAIN tags : tags[n] = "table"}
AllRows == {n \in DOMAIN tags : tags[n] = "tr"}

TableRows(t) ==
    FlattenSeq([i \in DOMAIN kin[t] |->
        LET c == kin[t][i]
        IN IF tags[c] = "tr" THEN <<c>>
           ELSE IF tags[c] \in Sections THEN Among(kin[c], Rows) ELSE <<>>])

(* How many rows rowIndex passes, and whether it meets the row: the last one when it does not. *)
RowIndex(r) ==
    LET t == Closest(r, "table")
        passed == IF t = None THEN <<>>
                  ELSE Among(Walk([kin EXCEPT ![r] = <<>>], kin[t]), Rows)
        own == SelectSeq(passed, LAMBDA x:
                   Up(kin, x) = t \/ (tags[Up(kin, x)] \in Sections /\ Up(kin, Up(kin, x)) = t))
    IN IF r \in ToSet(own) THEN At(own, r) - 1 ELSE Len(own) - 1

SectionRowIndex(r) ==
    LET p == Up(kin, r)
    IN IF p # None /\ tags[p] \in Sections \cup {"table"} THEN Place(Among(kin[p], Rows), r) ELSE -1

TableCells(r) == Among(kin[r], {"td", "th"})

CellIndex(c) ==
    LET p == Up(kin, c) IN IF p # None /\ tags[p] = "tr" THEN Place(TableCells(p), c) ELSE -1

FirstChild(t) == IF kin[t] = <<>> THEN None ELSE Head(kin[t])

(* Defect: a head goes to the top of the table. *)
OnTop(t) == FirstChild(t)

(* Where createTHead puts a head: before the first child that is neither caption nor columns. *)
BelowColumns(t) ==
    LET c == SelectSeq(kin[t], LAMBDA x: tags[x] \notin {"caption", "colgroup"})
    IN IF c = <<>> THEN None ELSE Head(c)

(* Defect: a body goes to the end of the table. *)
AtEnd(t) == None

AboveFoot(t) == DirectChild(t, "tfoot")

Creates(t, tag, before) ==
    /\ Unused # <<>>
    /\ LET n == Unused[1]
       IN tags' = (n :> tag) @@ tags /\ kin' = Put(Made(kin, n), n, t, before)
    /\ asked' = Nothing /\ UNCHANGED <<Attributes, page, loose>>

CreateCaption(t) == DirectChild(t, "caption") = None /\ Creates(t, "caption", FirstChild(t))
CreateTHead(t) == DirectChild(t, "thead") = None /\ Creates(t, "thead", BelowColumns(t))
CreateTFoot(t) == DirectChild(t, "tfoot") = None /\ Creates(t, "tfoot", None)
CreateTBody(t) == Creates(t, "tbody", AboveFoot(t))

DeletePart(t, tag) ==
    /\ DirectChild(t, tag) # None /\ Dropped(DirectChild(t, tag))
    /\ asked' = Nothing /\ UNCHANGED <<Attributes, page, loose>>

(* A row before the one at an index, in the section of that row; at the end in the last body, *)
(* which is created above the foot when there is none.                                        *)
InsertRow(t, i) ==
    LET rows == TableRows(t)
        bodies == Among(kin[t], {"tbody"})
        row == Unused[1]
        body == IF bodies # <<>> THEN Last(bodies) ELSE Unused[2]
        k == IF bodies # <<>> THEN kin ELSE Put(Made(kin, body), body, t, AboveFoot(t))
    IN /\ Unused # <<>> /\ i \in -1..Len(rows)
       /\ IF i \in 0..Len(rows) - 1
          THEN /\ tags' = (row :> "tr") @@ tags
               /\ kin' = Put(Made(kin, row), row, Up(kin, rows[i + 1]), rows[i + 1])
          ELSE /\ bodies = <<>> => Len(Unused) > 1
               /\ tags' = (row :> "tr") @@ (body :> "tbody") @@ tags
               /\ kin' = Put(Made(k, row), row, body, None)
       /\ asked' = [on |-> t, at |-> IF i < Len(rows) THEN i ELSE -1, node |-> row]
       /\ UNCHANGED <<Attributes, page, loose>>

At_(i, s) == IF i = -1 THEN Len(s) - 1 ELSE i

DeleteRow(t, i) ==
    /\ At_(i, TableRows(t)) \in 0..Len(TableRows(t)) - 1
    /\ Dropped(TableRows(t)[At_(i, TableRows(t)) + 1])
    /\ asked' = Nothing /\ UNCHANGED <<Attributes, page, loose>>

(* HTMLTableSectionElement::insertRow and HTMLTableRowElement::insertCell *)
InsertInto(p, s, tag, i) ==
    /\ Unused # <<>> /\ i \in -1..Len(s)
    /\ LET n == Unused[1]
       IN /\ tags' = (n :> tag) @@ tags
          /\ kin' = Put(Made(kin, n), n, p, IF i \in 0..Len(s) - 1 THEN s[i + 1] ELSE None)
          /\ asked' = [on |-> p, at |-> IF i < Len(s) THEN i ELSE -1, node |-> n]
    /\ UNCHANGED <<Attributes, page, loose>>

DeleteFrom(s, i) ==
    /\ At_(i, s) \in 0..Len(s) - 1 /\ Dropped(s[At_(i, s) + 1])
    /\ asked' = Nothing /\ UNCHANGED <<Attributes, page, loose>>

(* The script puts a table into a cell. *)
Nest(c) == kin[c] = <<>> /\ Creates(c, "table", None)

TableStep ==
    \/ \E t \in Tables :
          \/ CreateCaption(t) \/ CreateTHead(t) \/ CreateTFoot(t) \/ CreateTBody(t)
          \/ \E tag \in {"caption", "thead", "tfoot"} : DeletePart(t, tag)
          \/ \E i \in -1..Len(page.spare) : InsertRow(t, i) \/ DeleteRow(t, i)
    \/ \E s \in {n \in DOMAIN tags : tags[n] \in Sections}, i \in -1..Len(page.spare) :
          InsertInto(s, Among(kin[s], Rows), "tr", i) \/ DeleteFrom(Among(kin[s], Rows), i)
    \/ \E r \in AllRows, i \in -1..Len(page.spare) :
          InsertInto(r, TableCells(r), "td", i) \/ DeleteFrom(TableCells(r), i)
    \/ \E c \in {n \in DOMAIN tags : tags[n] = "td"} : Nest(c)

-----------------------------------------------------------------------------
(* Selects and options *)

Selects == {n \in DOMAIN tags : tags[n] = "select"}
AllOptions == {n \in DOMAIN tags : tags[n] = "option"}

Options(s) == Query(s, {"option"})
Value(o) == IF o \in DOMAIN page.values THEN page.values[o] ELSE ""

SelectOf(o) ==
    LET c == Among(Tail(Chain(kin, o)), {"select"}) IN IF c = <<>> THEN None ELSE Head(c)

OptionIndex(o) == IF SelectOf(o) = None THEN -1 ELSE Place(Options(SelectOf(o)), o)

Chosen(s) == SelectSeq(Options(s), LAMBDA o: o \in picked)

SelectedIndex(s) ==
    IF Chosen(s) # <<>> THEN Place(Options(s), Chosen(s)[1])
    ELSE IF s \notin many /\ Options(s) # <<>> THEN 0 ELSE -1

SelectedOptions(s) ==
    IF Chosen(s) = <<>> /\ s \notin many /\ Options(s) # <<>> THEN <<Head(Options(s))>>
    ELSE Chosen(s)

SelectValue(s) == IF SelectedIndex(s) = -1 THEN "" ELSE Value(Options(s)[SelectedIndex(s) + 1])

Still == asked' = asked /\ UNCHANGED <<ids, refs, page>>

(* Defect: the other options of the select keep their attribute. *)
AllOthers(o) == picked

(* The options that stay selected when o is chosen: in a select of one, none of its others. *)
Others(o) ==
    LET s == SelectOf(o) IN IF s = None \/ s \in many THEN picked ELSE picked \ ToSet(Options(s))

SetSelected(o, yes) ==
    /\ picked' = IF yes THEN Others(o) \cup {o} ELSE picked \ {o}
    /\ loose' = IF yes /\ SelectOf(o) \notin many THEN loose \ {SelectOf(o)} ELSE loose
    /\ Still /\ UNCHANGED <<tags, kin, many>>

SetDefaultSelected(o, yes) ==
    /\ picked' = IF yes THEN picked \cup {o} ELSE picked \ {o}
    /\ loose' = IF yes /\ SelectOf(o) # None THEN loose \cup {SelectOf(o)} ELSE loose
    /\ Still /\ UNCHANGED <<tags, kin, many>>

SetSelectedIndex(s, i) ==
    /\ picked' = (picked \ ToSet(Options(s)))
             \cup (IF i \in 0..Len(Options(s)) - 1 THEN {Options(s)[i + 1]} ELSE {})
    /\ loose' = IF s \in many THEN loose ELSE loose \ {s}
    /\ Still /\ UNCHANGED <<tags, kin, many>>

(* Defect: each option with the value is selected. *)
AllWithValue(s, v) == {o \in ToSet(Options(s)) : Value(o) = v}

(* The first option with the value is selected, every other one is not. *)
WithValue(s, v) ==
    LET c == SelectSeq(Options(s), LAMBDA o: Value(o) = v)
    IN IF c = <<>> THEN {} ELSE {Head(c)}

SetSelectValue(s, v) ==
    /\ picked' = (picked \ ToSet(Options(s))) \cup WithValue(s, v)
    /\ loose' = IF s \in many THEN loose ELSE loose \ {s}
    /\ Still /\ UNCHANGED <<tags, kin, many>>

RECURSIVE AllOut(_, _)
AllOut(k, s) == IF s = <<>> THEN k ELSE AllOut(Out(k, Head(s)), Tail(s))

RECURSIVE AllPut(_, _, _)
AllPut(k, s, p) == IF s = <<>> THEN k ELSE AllPut(Put(Made(k, Head(s)), Head(s), p, None), Tail(s), p)

SetLength(s, n) ==
    LET o == Options(s)
        more == IF n > Len(o) THEN n - Len(o) ELSE 0
        new == SubSeq(Unused, 1, more)
    IN /\ n # Len(o) /\ more <= Len(Unused)
       /\ kin' = AllPut(AllOut(kin, SubSeq(o, n + 1, Len(o))), new, s)
       /\ tags' = [x \in ToSet(new) |-> "option"] @@ tags
       /\ Still /\ UNCHANGED <<picked, many, loose>>

SetMultiple(s, yes) ==
    /\ many' = IF yes THEN many \cup {s} ELSE many \ {s}
    /\ loose' = IF yes THEN loose \cup {s} ELSE loose
    /\ Still /\ UNCHANGED <<tags, kin, picked>>

(* An option or a group goes to the end of the select, or into a group: what is selected in   *)
(* it stays so.                                                                               *)
Taken(n, p) ==
    /\ kin' = Put(kin, n, p, None)
    /\ loose' = LET s == {q \in ToSet(Chain(kin, p)) : tags[q] = "select"}
                IN IF ToSet(Walk(kin, <<n>>)) \cap picked = {} THEN loose ELSE loose \cup s
    /\ Still /\ UNCHANGED <<tags, picked, many>>

Add(s, n) == Taken(n, s)
Group(g, o) == Taken(o, g)

RemoveOption(s, i) ==
    /\ i \in 0..Len(Options(s)) - 1
    /\ kin' = Out(kin, Options(s)[i + 1])
    /\ Still /\ UNCHANGED <<tags, picked, many, loose>>

SelectStep ==
    \/ \E o \in AllOptions, yes \in BOOLEAN : SetSelected(o, yes) \/ SetDefaultSelected(o, yes)
    \/ \E s \in Selects :
          \/ \E i \in -1..MaxLength : SetSelectedIndex(s, i) \/ RemoveOption(s, i)
          \/ \E v \in {page.values[o] : o \in DOMAIN page.values} : SetSelectValue(s, v)
          \/ \E n \in 0..MaxLength : SetLength(s, n)
          \/ \E yes \in BOOLEAN : SetMultiple(s, yes)
          \/ \E n \in DOMAIN tags : tags[n] \in {"option", "optgroup"} /\ Add(s, n)
    \/ \E g \in {n \in DOMAIN tags : tags[n] = "optgroup"}, o \in AllOptions : Group(g, o)

-----------------------------------------------------------------------------
(* Forms, controls and labels *)

Forms == {n \in DOMAIN tags : tags[n] = "form"}
Controls == {n \in DOMAIN tags : tags[n] \in Listed}
Labels == {n \in DOMAIN tags : tags[n] = "label"}

(* lxb_dom_element_by_id: the first of the nodes with the id *)
WithId(s, id) ==
    LET c == SelectSeq(s, LAMBDA x: x \in DOMAIN ids /\ ids[x] = id)
    IN IF c = <<>> THEN None ELSE Head(c)

IsForm(n) == IF n # None /\ tags[n] = "form" THEN n ELSE None

(* HTMLElement::form looks in the document, HTMLLabelElement beneath the topmost element. *)
FormOf(c) ==
    IF c \in DOMAIN refs THEN IsForm(WithId(Walk(kin, kin[Root]), refs[c])) ELSE Closest(c, "form")

Control(l) ==
    IF l \in DOMAIN refs
    THEN LET n == WithId(Walk(kin, <<RootOf(l)>>), refs[l])
         IN IF n # None /\ tags[n] \in Labelable THEN n ELSE None
    ELSE LET c == Query(l, Labelable) IN IF c = <<>> THEN None ELSE Head(c)

LabelForm(l) ==
    LET c == Control(l)
    IN IF c = None THEN None
       ELSE IF c \in DOMAIN refs THEN IsForm(WithId(Walk(kin, <<RootOf(c)>>), refs[c]))
       ELSE Closest(c, "form")

(* Defect: a control belongs to a form that it is in, whatever its attribute says. *)
BelongsInside(c, f) ==
    \/ c \in DOMAIN refs /\ f \in DOMAIN ids /\ ids[f] = refs[c]
    \/ Closest(c, "form") = f

(* A control belongs to the form its attribute names, else to the one it is in. *)
Belongs(c, f) ==
    IF c \in DOMAIN refs THEN f \in DOMAIN ids /\ ids[f] = refs[c] ELSE Closest(c, "form") = f

FormElements(f) == SelectSeq(Query(RootOf(f), Listed), LAMBDA c: Belongs(c, f))

Keeps == asked' = asked /\ UNCHANGED <<tags, picked, many, page, loose>>

SetId(n, id) == n \in Forms /\ ids' = (n :> id) @@ ids /\ Keeps /\ UNCHANGED <<kin, refs>>

Refer(n, id) ==
    /\ n \in Controls \cup Labels
    /\ refs' = IF id = None THEN [x \in DOMAIN refs \ {n} |-> refs[x]] ELSE (n :> id) @@ refs
    /\ Keeps /\ UNCHANGED <<kin, ids>>

Move(n, p) ==
    /\ p \notin ToSet(Walk(kin, <<n>>)) /\ kin' = Put(kin, n, p, None)
    /\ Keeps /\ UNCHANGED <<ids, refs>>

TakeOut(n) == Up(kin, n) # None /\ kin' = Out(kin, n) /\ Keeps /\ UNCHANGED <<ids, refs>>

FormStep ==
    \/ \E n \in DOMAIN ids, m \in DOMAIN ids : n # m /\ SetId(n, page.ids[m])
    \/ \E n \in DOMAIN refs \cup page.movable, m \in DOMAIN ids \cup {None} :
          Refer(n, IF m = None THEN None ELSE page.ids[m])
    \/ \E n \in page.movable : TakeOut(n) \/ \E p \in DOMAIN kin : tags[p] \notin {"input", "document"} /\ Move(n, p)

-----------------------------------------------------------------------------
Init ==
    /\ page \in Pages
    /\ tags = page.tags /\ kin = page.kin /\ ids = page.ids /\ refs = page.refs
    /\ picked = {} /\ many = {} /\ loose = {} /\ asked = Nothing

Next == TableStep \/ SelectStep \/ FormStep

Spec == Init /\ [][Next]_elementVars

-----------------------------------------------------------------------------
Rank(n) ==
    CASE tags[n] = "caption" -> 0 [] tags[n] = "colgroup" -> 1 [] tags[n] = "thead" -> 2
      [] tags[n] \in {"tr", "tbody"} -> 3 [] tags[n] = "tfoot" -> 4

(* The functions of a table keep its parts in order: one caption, the columns, one head, the  *)
(* bodies and one foot.                                                                       *)
TableShape ==
    \A t \in Tables : \A i, j \in DOMAIN kin[t] : i < j =>
        LET a == kin[t][i]  b == kin[t][j]
        IN /\ Rank(a) <= Rank(b)
           /\ tags[a] \in {"caption", "thead", "tfoot"} => tags[a] # tags[b]

(* An index means one row: rowIndex counts as insertRow and deleteRow do, however tables are  *)
(* nested, and the collection "rows" has the same rows unless a table is in a cell.           *)
RowsAgree ==
    \A t \in Tables :
        LET rows == TableRows(t)
        IN /\ \A i \in DOMAIN rows : RowIndex(rows[i]) = i - 1
           /\ Query(t, {"table"}) = <<>> => Query(t, Rows) = rows

(* A row or cell is found at the index it was inserted at, or at the end of the last body, of *)
(* the section or of the row.                                                                 *)
InsertedThere ==
    LET n == asked.node  p == asked.on
        index == IF tags[n] = "td" THEN CellIndex(n)
                 ELSE IF tags[p] = "table" /\ asked.at # -1 THEN RowIndex(n) ELSE SectionRowIndex(n)
        among == IF tags[n] = "td" THEN TableCells(p) ELSE Among(kin[Up(kin, n)], Rows)
    IN n # None =>
        /\ index = IF asked.at = -1 THEN Len(among) - 1 ELSE asked.at
        /\ tags[p] = "table" /\ asked.at = -1 => Up(kin, n) = Last(Among(kin[p], {"tbody"}))

(* What a select says of its choice is one thing: selectedIndex, value, selectedOptions and   *)
(* the indices of its options; and one option at most is selected in a select of one, after   *)
(* selected, selectedIndex and value have been used, until the script selects more by its     *)
(* defaults or brings in options that are selected.                                           *)
SelectsAgree ==
    \A s \in Selects :
        LET o == Options(s)  i == SelectedIndex(s)
        IN /\ \A j \in DOMAIN o : OptionIndex(o[j]) = j - 1
           /\ i # -1 => SelectedOptions(s)[1] = o[i + 1] /\ SelectValue(s) = Value(o[i + 1])
           /\ i = -1 <=> SelectedOptions(s) = <<>>
           /\ s \notin many \cup loose => Len(SelectedOptions(s)) <= 1

(* In a document whose ids are each used once, a form's elements are the controls that   *)
(* say the form is theirs, and a label's form is that of its control.                         *)
FormsAgree ==
    LET there == {n \in DOMAIN kin : Connected(n)}
    IN (\A n, m \in there \cap DOMAIN ids : ids[n] = ids[m] => n = m) =>
        /\ \A f \in Forms \cap there, c \in Controls :
              Connected(c) => (c \in ToSet(FormElements(f)) <=> FormOf(c) = f)
        /\ \A l \in Labels :
              Connected(l) /\ Control(l) # None => LabelForm(l) = FormOf(Control(l))
=============================================================================

----------------------------- MODULE Attributes -----------------------------
(* The attributes of a document's elements and the Attr objects a script holds for them:     *)
(* what NamedNodeMap, Attr, classList (DOMTokenList) and dataset (DOMStringMap) do.  An      *)
(* Attr has no value of its own while it belongs to an element: it asks the element for the  *)
(* attribute with its key.  A key is a name and a namespace: calls by name use none, but an  *)
(* attribute that was parsed from HTML has one, and calls by position take the attribute's.  *)
EXTENDS Integers, SequencesExt

CONSTANTS
    None,       \* no element, no value, no object
    Objects,    \* the Attr objects there may be at a time: this bounds them
    MaxTokens,  \* bounds the words of one value
    Scenes      \* [html, names, words, attr]: the backend, the names and words in use, and the
                \* attributes that were parsed

VARIABLES
    html,       \* whether the backend is lexbor
    names,      \* the attribute names in use
    words,      \* the words of values in use
    attr,       \* attr[e][n] = [value, ns]: the attributes e has
    map,        \* map[e][k]: the objects in e's NamedNodeMap (NamedNodeMap::attributes)
    obj         \* obj[o] = [key, node, value]: the objects the script holds

vars == <<html, names, words, attr, map, obj>>

Class == "class"
Data == "data"

(* LXB_NS__UNDEF and LXB_NS_HTML *)
Undef == 0
Html == 1

Key(n, ns) == [name |-> n, ns |-> ns]
Keys == {Key(n, ns) : n \in names, ns \in IF html THEN {Undef, Html} ELSE {Undef}}
Given == {<<>>} \cup {<<t>> : t \in words}
Now == [attr |-> attr, map |-> map, obj |-> obj]

-----------------------------------------------------------------------------
(* The element's own methods, on the state d *)

(* hasAttribute, with eq_ns for an HTML element *)
Has(d, e, k) ==
    /\ k.name \in DOMAIN d.attr[e]
    /\ d.attr[e][k.name].ns \in {k.ns} \cup (IF k.ns = Undef THEN {Html} ELSE {})

GetAttribute(d, e, k) == IF Has(d, e, k) THEN d.attr[e][k.name].value ELSE None
ValueOr(d, e, k) == IF Has(d, e, k) THEN d.attr[e][k.name].value ELSE <<>>

(* There is one attribute of a name: setting it gives it the key's namespace as well. *)
SetTo(d, e, k, v) ==
    [d EXCEPT !.attr[e] = (k.name :> [value |-> v, ns |-> k.ns]) @@ @]

Cleared(d, e, k) ==
    IF Has(d, e, k) THEN [d EXCEPT !.attr[e] = Restrict(@, DOMAIN @ \ {k.name})] ELSE d

-----------------------------------------------------------------------------
(* The map's *)

Free(d) == {o \in Objects : d.obj[o] = None}
Made(d, o, k, e, v) == [d EXCEPT !.obj[o] = [key |-> k, node |-> e, value |-> v]]

(* getNamedItem and item_: the object the map has, or a new one. *)
Handed(d, e, k) ==
    IF k \in DOMAIN d.map[e] THEN d
    ELSE LET o == CHOOSE o \in Free(d) : TRUE
         IN [Made(d, o, k, e, None) EXCEPT !.map[e] = (k :> o) @@ @]

CanHand(d, e, k) == k \in DOMAIN d.map[e] \/ (Has(d, e, k) /\ Free(d) # {})

(* Defect: the object goes from the map before it has taken the attribute's value over. *)
DetachedEmpty(d, e, k) ==
    IF k \notin DOMAIN d.map[e] THEN d
    ELSE [d EXCEPT !.obj[d.map[e][k]] = [@ EXCEPT !.node = None, !.value = <<>>],
                   !.map[e] = Restrict(@, DOMAIN @ \ {k})]

(* NamedNodeMap::remove: the object of the key, if there is one, takes the value with it. *)
Detached(d, e, k) ==
    IF k \notin DOMAIN d.map[e] THEN d
    ELSE [d EXCEPT !.obj[d.map[e][k]] = [@ EXCEPT !.node = None, !.value = ValueOr(d, e, k)],
                   !.map[e] = Restrict(@, DOMAIN @ \ {k})]

(* nodeValue: what an object shows. *)
Shown(d, o) ==
    LET a == d.obj[o] IN IF a.node = None THEN a.value ELSE GetAttribute(d, a.node, a.key)

-----------------------------------------------------------------------------
Init ==
    /\ \E s \in Scenes : html = s.html /\ names = s.names /\ words = s.words /\ attr = s.attr
    /\ map = [e \in DOMAIN attr |-> <<>>]
    /\ obj = [o \in Objects |-> None]

Leave(d) == attr' = d.attr /\ map' = d.map /\ obj' = d.obj /\ UNCHANGED <<html, names, words>>

Held == {o \in Objects : obj[o] # None}
Elements == DOMAIN attr

(* getNamedItem, getNamedItemNS, item, values and getAttributeNode *)
GetNamedItem(e, k) ==
    k \notin DOMAIN map[e] /\ CanHand(Now, e, k) /\ Leave(Handed(Now, e, k))

(* removeNamedItem, removeNamedItemNS; removeAttributeNode asks by the name of its argument *)
RemoveNamedItem(e, k) ==
    /\ CanHand(Now, e, k)
    /\ Leave(Cleared(Detached(Handed(Now, e, k), e, k), e, k))

(* removeAttribute, removeAttributeNS *)
RemoveAttribute(e, k) == Leave(Cleared(Detached(Now, e, k), e, k))

(* Defect: an object that is in use may be set on another element. *)
InUse(o) == FALSE

InUseAttribute(o) == obj[o].node # None

(* setNamedItem, setAttributeNode: an object that is not in use takes the place of the one   *)
(* with its key, which the script gets.                                                      *)
SetNamedItem(e, o) ==
    LET k == obj[o].key
        had == IF CanHand(Now, e, k) THEN Cleared(Detached(Handed(Now, e, k), e, k), e, k) ELSE Now
    IN /\ ~InUseAttribute(o)
       /\ Has(Now, e, k) => CanHand(Now, e, k)
       /\ Leave([SetTo(had, e, k, IF obj[o].value = None THEN <<>> ELSE obj[o].value) EXCEPT
                    !.map[e] = (k :> o) @@ @, !.obj[o] = [@ EXCEPT !.node = e, !.value = None]])

(* setAttribute, setAttributeNS, className, the reflected properties, dataset's and          *)
(* classList.value's setters                                                                 *)
SetAttribute(e, k, v) == Leave(SetTo(Now, e, k, v))

(* toggleAttribute, with and without force: the map is not told. *)
ToggleAttribute(e, n) ==
    LET k == Key(n, Undef)
    IN Leave(IF Has(Now, e, k) THEN Cleared(Now, e, k) ELSE SetTo(Now, e, k, <<>>))

(* Attr's value, nodeValue and textContent *)
SetNodeValue(o, v) ==
    Leave(IF obj[o].node = None THEN [Now EXCEPT !.obj[o].value = v]
          ELSE SetTo(Now, obj[o].node, obj[o].key, v))

CloneNode(o) ==
    /\ Shown(Now, o) # None /\ Free(Now) # {}
    /\ Leave(Made(Now, CHOOSE x \in Free(Now) : TRUE, obj[o].key, None, Shown(Now, o)))

CreateAttribute(k) ==
    Free(Now) # {} /\ Leave(Made(Now, CHOOSE o \in Free(Now) : TRUE, k, None, <<>>))

(* del_property: the attribute goes first, so the object finds no value to take over. *)
DeleteData(e) ==
    LET k == Key(Data, Undef) IN html /\ Data \in names /\ Leave(Detached(Cleared(Now, e, k), e, k))

(* Attr::free: nothing refers to the object any more. *)
Drop(o) ==
    LET a == obj[o]
    IN /\ obj' = [obj EXCEPT ![o] = None]
       /\ map' = IF a.node = None THEN map
                 ELSE [map EXCEPT ![a.node] = Restrict(@, DOMAIN @ \ {a.key})]
       /\ UNCHANGED <<html, names, words, attr>>

-----------------------------------------------------------------------------
(* classList: the attribute's words, in order.  An empty list takes the attribute away.      *)

ClassKey == Key(Class, Undef)
Listed(e) == html /\ Class \in names
Words(e) == ValueOr(Now, e, ClassKey)
HasClass(e) == Has(Now, e, ClassKey)

WithWord(s, t) == IF t \in ToSet(s) THEN s ELSE Append(s, t)
WithoutWord(s, t) == Remove(s, t)

Written(e, s) == Leave(SetTo(Now, e, ClassKey, s))

WrittenOrGone(e, s) ==
    IF s = <<>> THEN RemoveAttribute(e, ClassKey) ELSE Written(e, s)

ClassAdd(e, ts) == Listed(e) /\ Written(e, FoldLeft(WithWord, Words(e), ts))

(* The first of each word is taken out. *)
ClassRemove(e, ts) ==
    Listed(e) /\ HasClass(e) /\ WrittenOrGone(e, FoldLeft(WithoutWord, Words(e), ts))

ClassReplace(e, old, new) ==
    /\ Listed(e) /\ old \in ToSet(Words(e))
    /\ LET i == SelectInSeq(Words(e), LAMBDA x: x = old)
       IN Written(e, [Words(e) EXCEPT ![i] = new])

(* toggle without force leaves an empty attribute. *)
ClassToggle(e, t) ==
    Listed(e) /\ Written(e, IF t \in ToSet(Words(e)) THEN WithoutWord(Words(e), t)
                            ELSE Append(Words(e), t))

ClassForce(e, t, force) ==
    /\ Listed(e) /\ force # (t \in ToSet(Words(e)))
    /\ WrittenOrGone(e, IF force THEN Append(Words(e), t) ELSE WithoutWord(Words(e), t))

Bounded == \A e \in Elements, n \in names :
    n \in DOMAIN attr'[e] => Len(attr'[e][n].value) <= MaxTokens

Next ==
    /\ \/ \E e \in Elements, k \in Keys :
            \/ GetNamedItem(e, k) \/ RemoveNamedItem(e, k) \/ RemoveAttribute(e, k)
            \/ \E v \in Given : SetAttribute(e, k, v)
       \/ \E e \in Elements, o \in Held : SetNamedItem(e, o)
       \/ \E e \in Elements, n \in names : ToggleAttribute(e, n)
       \/ \E e \in Elements : DeleteData(e)
       \/ \E o \in Held : CloneNode(o) \/ Drop(o) \/ \E v \in Given : SetNodeValue(o, v)
       \/ \E k \in Keys : CreateAttribute(k)
       \/ \E e \in Elements, ts \in SetToAllKPermutations(words) \ {<<>>} :
            ClassAdd(e, ts) \/ ClassRemove(e, ts)
       \/ \E e \in Elements, t, new \in words : ClassReplace(e, t, new)
       \/ \E e \in Elements, t \in words :
            ClassToggle(e, t) \/ \E force \in BOOLEAN : ClassForce(e, t, force)
    /\ Bounded

Spec == Init /\ [][Next]_vars

-----------------------------------------------------------------------------
(* Every Attr object has one home at most: the map of the element it belongs to has it under *)
(* its key, and no other map has it; one that belongs to no element carries a value, and one *)
(* that does has none that could differ from the attribute's.                                *)
OneHome ==
    /\ \A e \in Elements : \A k \in DOMAIN map[e] :
         LET o == map[e][k] IN obj[o] # None /\ obj[o].key = k /\ obj[o].node = e
    /\ \A o \in Held :
         LET a == obj[o]
         IN IF a.node = None THEN a.value \in Seq(words)
            ELSE a.value = None /\ a.key \in DOMAIN map[a.node] /\ map[a.node][a.key] = o

(* A script that holds an Attr does not lose what it shows.  When it is taken from its       *)
(* element it keeps the value, except by `delete` on dataset; while it stays, an attribute   *)
(* got by its name alone vanishes under it only by toggleAttribute or by a call that names a *)
(* namespace.                                                                                *)
AttrKeeps ==
    [][\A o \in Held :
         LET was == Shown(Now, o)
             by(n) == \E e \in Elements : ToggleAttribute(e, n)
             byNs(n) == \E e \in Elements :
                            RemoveAttribute(e, Key(n, Html)) \/ RemoveNamedItem(e, Key(n, Html))
         IN (obj[o].node # None /\ obj'[o] # None) =>
              IF obj'[o].node = None
              THEN \/ obj'[o].value = was \/ (was = None /\ obj'[o].value = <<>>)
                   \/ \E e \in Elements : DeleteData(e)
              ELSE \/ obj[o].key.ns # Undef \/ was = None \/ Shown(Now', o) # None
                   \/ by(obj[o].key.name) \/ byNs(obj[o].key.name)]_vars
=============================================================================

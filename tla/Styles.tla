------------------------------- MODULE Styles -------------------------------
(* The style sheets of an HTML document: the rule objects of a <style> element's sheet       *)
(* (CSSStyleSheet, CSSRuleList, CSSRule) and a computed style, both of which are caches that *)
(* know themselves out of date by the versions of LiveStyle.  An element b may be inside an  *)
(* element a; the <style> elements are in the document in some order, or nowhere.  There is  *)
(* one CSS property, which is inherited.                                                     *)
EXTENDS Integers, SequencesExt

CONSTANTS
    None,      \* nothing
    Rules,     \* rule |-> [bad, class, on, spec, important, value]: what a rule says
    Scenes,    \* [sheets, texts, rules, objects, classed, styled]: what a script works with
    MaxRules   \* bounds the rules of one text

VARIABLES
    scene,     \* which of the scenes it is
    order,     \* the <style> elements that are in the document, in tree order
    text,      \* text[s]: the text of s, a sequence of rules
    sheet,     \* sheet[s]: its CSSStyleSheetState, None before anybody asked for it
    obj,       \* obj[o] = [sheet, rule]: the CSSRule objects the script holds
    marked,    \* the elements that have the class
    inline,    \* inline[x]: the value in x's style attribute
    inside,    \* whether b is inside a
    comp       \* b's computed style: [stale, value], or None

vars == <<scene, order, text, sheet, obj, marked, inline, inside, comp>>

(* A sheet: whether its version has changed since it was parsed (stale), the text that was   *)
(* parsed, the identity of each rule, and the identities that insertRule and deleteRule      *)
(* foresee (pending).  An identity is the object a script holds for the rule, or None for    *)
(* one that nobody holds.  raced: the text was changed in another way since those were       *)
(* foreseen, so that they stand for nothing.                                                 *)
Fresh == [stale |-> TRUE, data |-> <<>>, ids |-> <<>>, pending |-> None, raced |-> FALSE]

A == "a"
B == "b"

Sheets == scene.sheets
Objects == scene.objects
Held == {o \in Objects : obj[o] # None}

(* exposed_rule, rule_count *)
Exposed(t) == SelectSeq(t, LAMBDA r: ~Rules[r].bad)

-----------------------------------------------------------------------------
(* CSSStyleSheetState::update *)
Settled(st, t) ==
    LET n == Len(Exposed(t))
        kept == st.pending # None /\ Len(st.pending) = n
    IN IF ~st.stale THEN st
       ELSE [stale |-> FALSE, data |-> t, pending |-> None,
             ids |-> IF kept THEN st.pending ELSE [i \in 1..n |-> None],
             raced |-> kept /\ st.raced]

UpToDate(s) == Settled(IF sheet[s] = None THEN Fresh ELSE sheet[s], text[s])

(* LiveStyle::pub, for the sheets in S.  What a sheet that is out of date has parsed, and    *)
(* what a computed style that is has found, nobody reads any more: the model forgets it.     *)
Published(S, sh) ==
    [s \in Sheets |-> IF s \in S /\ sh[s] # None
                      THEN [Fresh EXCEPT !.pending = sh[s].pending, !.raced = sh[s].raced]
                      ELSE sh[s]]

CompStale == IF comp = None THEN None ELSE [stale |-> TRUE, value |-> None]

-----------------------------------------------------------------------------
(* CSSStyleProperties::Comp::update *)

Path == IF inside THEN <<B, A>> ELSE <<B>>

(* The declarations that apply, as they are met: those of the rules of each sheet beneath    *)
(* the root, for b and what it is in, and then those of the style attributes.                *)
Matches(r, x) == ~Rules[r].bad /\ (x \in Rules[r].on \/ (Rules[r].class /\ x \in marked))

Offered(r, d) ==
    IF Matches(r, Path[d])
    THEN <<[value |-> Rules[r].value, spec |-> Rules[r].spec, important |-> Rules[r].important,
            depth |-> d]>>
    ELSE <<>>

InlineSpec == 9

Candidates ==
    LET rules == IF inside THEN FlattenSeq([i \in DOMAIN order |-> UpToDate(order[i]).data]) ELSE <<>>
        each(r) == FlattenSeq([d \in DOMAIN Path |-> Offered(r, d)])
        own(d) == IF inline[Path[d]] = None THEN <<>>
                  ELSE <<[value |-> inline[Path[d]], spec |-> InlineSpec, important |-> FALSE,
                          depth |-> d]>>
    IN FlattenSeq([i \in DOMAIN rules |-> each(rules[i])])
         \o FlattenSeq([d \in DOMAIN Path |-> own(d)])

(* Defect: what is important wins from any distance. *)
WinsAnywhere(c, was) ==
    \/ c.important /\ ~was.important
    \/ c.important = was.important /\ c.depth < was.depth
    \/ c.important = was.important /\ c.depth = was.depth /\ c.spec >= was.spec

(* cascade: whether c, met later, takes the place of was. *)
Wins(c, was) ==
    \/ c.depth < was.depth
    \/ /\ c.depth = was.depth
       /\ \/ c.important /\ ~was.important
          \/ c.important = was.important /\ c.spec >= was.spec

Cascade ==
    LET step(best, c) == IF best = None \/ Wins(c, best) THEN c ELSE best
        best == FoldLeft(LAMBDA x, c: step(x, c), None, Candidates)
    IN IF best = None THEN None ELSE best.value

-----------------------------------------------------------------------------
Init ==
    /\ scene \in Scenes
    /\ order = <<>> /\ text = [s \in Sheets |-> <<>>]
    /\ sheet = [s \in Sheets |-> None]
    /\ obj = [o \in Objects |-> None]
    /\ marked = {} /\ inline = [x \in {A, B} |-> None] /\ inside = TRUE /\ comp = None

Tree == <<order, marked, inline, inside>>

(* The text of s becomes t, and the sheets in S are told. *)
Rewritten(s, t, sh, S) ==
    /\ text' = [text EXCEPT ![s] = t]
    /\ sheet' = Published(S, sh)
    /\ comp' = CompStale

Races(s, t) ==
    IF sheet[s] = None \/ sheet[s].pending = None THEN sheet
    ELSE [sheet EXCEPT ![s].raced = TRUE]

(* Defect: only the sheet of the element itself is told of texts that come and go, and not   *)
(* when they come and go directly.                                                           *)
SetTextUntold(s, t) ==
    Rewritten(s, t, Races(s, t), {}) /\ UNCHANGED <<scene, obj, Tree>>

(* Texts come and go in s (textContent, appendChild, ...): every sheet there is is told.     *)
SetText(s, t) ==
    Rewritten(s, t, Races(s, t), Sheets) /\ UNCHANGED <<scene, obj, Tree>>

(* nodeValue of the text in s: only this sheet is told, and nobody if nothing changes. *)
SetData(s, t) ==
    /\ t # text[s]
    /\ Rewritten(s, t, Races(s, t), {s})
    /\ UNCHANGED <<scene, obj, Tree>>

(* The element's sheet; CSSStyleSheet::getState *)
OpenSheet(s) ==
    /\ sheet[s] = None
    /\ sheet' = [sheet EXCEPT ![s] = Fresh]
    /\ UNCHANGED <<scene, text, obj, comp, Tree>>

Opened(s) == sheet[s] # None

(* length, cssText, type and parentStyleSheet begin with an update. *)
Refresh(s) ==
    /\ Opened(s)
    /\ sheet' = [sheet EXCEPT ![s] = UpToDate(s)]
    /\ UNCHANGED <<scene, text, obj, comp, Tree>>

(* CSSRuleList::item and make_rule: the object there is for the rule, or a new one. *)
Item(s, i) ==
    LET st == UpToDate(s)
        o == CHOOSE o \in Objects : obj[o] = None
    IN /\ Opened(s) /\ i \in DOMAIN st.ids /\ st.ids[i] = None /\ Objects # Held
       /\ sheet' = [sheet EXCEPT ![s] = [st EXCEPT !.ids[i] = o]]
       /\ obj' = [obj EXCEPT ![o] = [sheet |-> s, rule |-> Exposed(st.data)[i]]]
       /\ UNCHANGED <<scene, text, comp, Tree>>

(* The bad rules of the text do not outlive a change of the others. *)
InsertRule(s, i, r) ==
    LET st == UpToDate(s)  rules == Exposed(st.data)
    IN /\ Opened(s) /\ i \in 0..Len(rules)
       /\ Rewritten(s, InsertAt(rules, i + 1, r),
                    [sheet EXCEPT ![s] = [st EXCEPT !.pending = InsertAt(st.ids, i + 1, None)]],
                    Sheets)
       /\ UNCHANGED <<scene, obj, Tree>>

(* Defect: the identity of the rule behind the one that is deleted is dropped. *)
Shortened(ids, i) ==
    IF i < Len(ids) THEN RemoveAt(ids, i + 1) ELSE RemoveAt(ids, i)

Survivors(ids, i) == RemoveAt(ids, i)

DeleteRule(s, i) ==
    LET st == UpToDate(s)  rules == Exposed(st.data)
    IN /\ Opened(s) /\ i \in DOMAIN rules
       /\ Rewritten(s, RemoveAt(rules, i),
                    [sheet EXCEPT ![s] = [st EXCEPT !.pending = Survivors(st.ids, i)]], Sheets)
       /\ UNCHANGED <<scene, obj, Tree>>

(* replace and replaceSync *)
Replace(s, t) ==
    /\ Opened(s)
    /\ Rewritten(s, t, [sheet EXCEPT ![s] = [@ EXCEPT !.pending = None, !.raced = FALSE]], Sheets)
    /\ UNCHANGED <<scene, obj, Tree>>

(* CSSRule::free: its identity is nobody's. *)
Drop(o) ==
    LET anon(ids) == IF ids = None THEN None
                     ELSE [i \in DOMAIN ids |-> IF ids[i] = o THEN None ELSE ids[i]]
    IN /\ obj' = [obj EXCEPT ![o] = None]
       /\ sheet' = [s \in Sheets |->
                      IF sheet[s] = None THEN None
                      ELSE [sheet[s] EXCEPT !.ids = anon(@), !.pending = anon(@)]]
       /\ UNCHANGED <<scene, text, comp, Tree>>

-----------------------------------------------------------------------------
(* An element comes, goes or moves: node_inserted, node_removed, node_moved *)
PlaceSheet(s, first) ==
    /\ order' = LET rest == Remove(order, s)
                IN IF first THEN <<s>> \o rest ELSE rest \o <<s>>
    /\ comp' = CompStale
    /\ UNCHANGED <<scene, text, sheet, obj, marked, inline, inside>>

RemoveSheet(s) ==
    /\ s \in ToSet(order) /\ order' = Remove(order, s)
    /\ comp' = CompStale
    /\ UNCHANGED <<scene, text, sheet, obj, marked, inline, inside>>

Move ==
    /\ inside' = ~inside /\ comp' = CompStale
    /\ UNCHANGED <<scene, order, text, sheet, obj, marked, inline>>

(* An attribute changes: attr_change *)
Mark(x) ==
    /\ marked' = (IF x \in marked THEN marked \ {x} ELSE marked \cup {x})
    /\ comp' = CompStale
    /\ UNCHANGED <<scene, order, text, sheet, obj, inline, inside>>

(* setProperty and removeProperty of an element's style *)
SetInline(x, v) ==
    /\ inline' = [inline EXCEPT ![x] = v]
    /\ comp' = CompStale
    /\ UNCHANGED <<scene, order, text, sheet, obj, marked, inside>>

(* getComputedStyle, and the update that every read of it begins with: the sheets beneath    *)
(* the root of b are brought up to date with it.                                             *)
Compute ==
    /\ comp' = [stale |-> FALSE, value |-> Cascade]
    /\ sheet' = [s \in Sheets |-> IF inside /\ s \in ToSet(order) THEN UpToDate(s) ELSE sheet[s]]
    /\ UNCHANGED <<scene, text, obj, Tree>>

Ask == comp = None /\ Compute
Update == comp # None /\ comp.stale /\ Compute

(* Comp::free *)
Forget == comp # None /\ comp' = None /\ UNCHANGED <<scene, text, sheet, obj, Tree>>

(* Whether there are elements to compute the style of. *)
Computing == scene.classed # {}

Next ==
    \/ \E s \in Sheets :
         \/ \E t \in scene.texts : SetText(s, t) \/ SetData(s, t) \/ Replace(s, t)
         \/ OpenSheet(s) \/ Refresh(s)
         \/ \E i \in 0..MaxRules : Item(s, i) \/ DeleteRule(s, i)
         \/ /\ Len(text[s]) < MaxRules
            /\ \E i \in 0..MaxRules, r \in scene.rules : InsertRule(s, i, r)
         \/ Computing /\ (RemoveSheet(s) \/ \E first \in BOOLEAN : PlaceSheet(s, first))
    \/ \E o \in Held : Drop(o)
    \/ Computing /\ \/ Move \/ Ask \/ Update \/ Forget
                    \/ \E x \in scene.classed : Mark(x)
                    \/ \E x \in scene.styled, v \in {"inline", None} : SetInline(x, v)

Spec == Init /\ [][Next]_vars

-----------------------------------------------------------------------------
(* What CSS says b's value is: the declarations on b itself decide if there are any, else    *)
(* those on a, which b inherits from; among them an important one wins, then the style       *)
(* attribute, then the more specific selector, then the later rule.                          *)
Declared(x) ==
    LET rules == FlattenSeq([i \in DOMAIN order |-> text[order[i]]])
    IN {[at |-> i, spec |-> Rules[rules[i]].spec, important |-> Rules[rules[i]].important,
         value |-> Rules[rules[i]].value] : i \in {j \in DOMAIN rules : Matches(rules[j], x)}}

Own(x) ==
    (IF inside THEN Declared(x) ELSE {})
      \cup (IF inline[x] = None THEN {}
            ELSE {[at |-> 0, spec |-> InlineSpec, important |-> FALSE, value |-> inline[x]]})

Best(S) ==
    (CHOOSE c \in S : \A o \in S \ {c} :
        \/ c.important /\ ~o.important
        \/ c.important = o.important /\ (c.spec > o.spec \/ (c.spec = o.spec /\ c.at > o.at))).value

Specified ==
    CASE Own(B) # {} -> Best(Own(B))
      [] Own(B) = {} /\ inside /\ Own(A) # {} -> Best(Own(A))
      [] OTHER -> None

(* A cache that does not know itself out of date is right: a sheet has the rules of its      *)
(* element's text, and a computed style the value that CSS gives with the sheets, classes,   *)
(* style attributes and places of now, whichever of them changed since it was asked for.     *)
StylesFresh ==
    /\ \A s \in Sheets : (Opened(s) /\ ~sheet[s].stale) =>
         sheet[s].data = text[s] /\ Len(sheet[s].ids) = Len(Exposed(text[s]))
    /\ (comp # None /\ ~comp.stale) => comp.value = Specified

(* A rule object goes on standing for the rule it was made for, wherever insertRule and      *)
(* deleteRule have moved it: it never shows another rule, unless the text was set in another *)
(* way before the sheet was looked at again.                                                 *)
RuleKept ==
    \A o \in Held : LET s == obj[o].sheet  st == UpToDate(s)
                    IN \A i \in DOMAIN st.ids :
                         st.ids[i] = o => st.raced \/ Exposed(st.data)[i] = obj[o].rule

(* insertRule and deleteRule cost no other rule of the sheet its object. *)
SiblingsKept ==
    [][\A s \in Sheets, i \in 0..MaxRules :
         (DeleteRule(s, i) \/ \E r \in scene.rules : InsertRule(s, i, r)) =>
            \A o \in ToSet(UpToDate(s).ids) \ {None} :
              o \in ToSet(UpToDate(s)'.ids) \/ (DeleteRule(s, i) /\ UpToDate(s).ids[i] = o)]_vars
=============================================================================

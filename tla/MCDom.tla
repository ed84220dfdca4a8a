------------------------------- MODULE MCDom -------------------------------
(* What a script finds: a small document whose tree it changes (an XML one, one with a       *)
(* doctype, and HTML ones with a fragment), or elements with attributes, or style sheets, or *)
(* a table, selects or forms, or style attributes, or the path of a drawing: one of them.     *)
EXTENDS Dom

CONSTANTS e1, e2, t1, note, dtd, frag, t2, t3, o1, o2

VARIABLES
    stage,
    html, names, words, attr, map, obj,                                         \* Attributes
    scene, order, text, sheet, rule, marked, inline, inside, comp,              \* Styles
    tags, kin, picked, many, ids, refs, page, asked, loose,                         \* Elements
    style, drawing, meant, said,                                                \* Declarations
    data, chunks                                                                \* Outline

attributeVars == <<html, names, words, attr, map, obj>>
styleVars == <<scene, order, text, sheet, rule, marked, inline, inside, comp>>
elementVars == <<tags, kin, picked, many, ids, refs, page, asked, loose>>
declarationVars == <<style, drawing, meant, said>>
outlineVars == <<data, chunks>>
-----------------------------------------------------------------------------
Plain ==
    [be |-> "xml", type |-> Doc :> 9 @@ e1 :> 1 @@ t1 :> 3 @@ t3 :> 3 @@ t2 :> 3,
     kids |-> Doc :> <<e1, t1>> @@ e1 :> <<>>, marks |-> {t1}, top |-> None,
     roots |-> {}, styled |-> {}]
Typed ==
    [be |-> "xml", type |-> Doc :> 9 @@ dtd :> 10 @@ e1 :> 1 @@ e2 :> 1 @@ note :> 8,
     kids |-> Doc :> <<dtd, e1, e2, note>> @@ e1 :> <<>> @@ e2 :> <<>>,
     marks |-> {e2, note}, top |-> None, roots |-> {}, styled |-> {}]
Markup ==
    [be |-> "html", type |-> Doc :> 9 @@ e1 :> 1 @@ e2 :> 1 @@ frag :> 11 @@ t3 :> 3,
     kids |-> Doc :> <<e1>> @@ e1 :> <<>> @@ e2 :> <<>> @@ frag :> <<>>, marks |-> {}, top |-> e1,
     roots |-> {}, styled |-> {}]
Lively ==
    [be |-> "html", type |-> Doc :> 9 @@ e1 :> 1 @@ e2 :> 1 @@ frag :> 11,
     kids |-> Doc :> <<e1>> @@ e1 :> <<>> @@ e2 :> <<>> @@ frag :> <<>>, marks |-> {}, top |-> e1,
     roots |-> {Doc, e1}, styled |-> {e2}]
Bare ==
    [be |-> "html", type |-> Doc :> 9, kids |-> Doc :> <<>>, marks |-> {}, top |-> None,
     roots |-> {}, styled |-> {}]
Documents == {Plain, Typed, Markup, Lively, Bare}

(* A call with three arguments: the element, the doctype, and a fragment with the element.    *)
Declared ==
    [be |-> "html", type |-> Doc :> 9 @@ dtd :> 10 @@ e1 :> 1 @@ frag :> 11,
     kids |-> Doc :> <<dtd, e1>> @@ e1 :> <<>> @@ frag :> <<>>, marks |-> {}, top |-> e1,
     roots |-> {}, styled |-> {}]
DeclaredOnly == {Declared}

-----------------------------------------------------------------------------
Parsed(ns) == [value |-> <<"u">>, ns |-> ns]
OneElement ==
    [html |-> TRUE, names |-> {"class", "data"}, words |-> {"u"},
     attr |-> e1 :> ("class" :> Parsed(1))]
TwoElements ==
    [html |-> TRUE, names |-> {"class"}, words |-> {"u"},
     attr |-> e1 :> ("class" :> Parsed(1)) @@ e2 :> <<>>]
ListedWords ==
    [html |-> TRUE, names |-> {"class"}, words |-> {"u", "v"},
     attr |-> e1 :> ("class" :> Parsed(1))]
TwoOfXml ==
    [html |-> FALSE, names |-> {"class"}, words |-> {"u"},
     attr |-> e1 :> ("class" :> Parsed(0)) @@ e2 :> <<>>]
NoElement == [html |-> FALSE, names |-> {}, words |-> {}, attr |-> <<>>]

At == INSTANCE Attributes WITH
        Objects <- {o1, o2}, MaxTokens <- 2,
        Scenes <- {OneElement, ListedWords, TwoElements, TwoOfXml, NoElement}

-----------------------------------------------------------------------------
Saying(class, on, spec, important, bad, value) ==
    [class |-> class, on |-> on, spec |-> spec, important |-> important, bad |-> bad,
     value |-> value]
Says ==
    [p |-> Saying(TRUE, {}, 2, TRUE, FALSE, "p"),
     y |-> Saying(FALSE, {"b"}, 1, FALSE, FALSE, "y"),
     z |-> Saying(FALSE, {"a", "b"}, 0, FALSE, FALSE, "z"),
     x |-> Saying(FALSE, {}, 0, FALSE, TRUE, "x")]
RuleObjects ==
    [sheets |-> {"s"}, texts |-> {<<>>, <<"p">>, <<"z", "p">>, <<"x", "z">>},
     rules |-> {"p", "z"}, objects |-> {o1, o2}, classed |-> {}, styled |-> {}]
TwoSheets ==
    [sheets |-> {"s", "t"}, texts |-> {<<"p">>, <<"y", "z">>},
     rules |-> {}, objects |-> {}, classed |-> {"a"}, styled |-> {}]
StyledInline ==
    [sheets |-> {"s"}, texts |-> {<<"p">>, <<"y", "z">>},
     rules |-> {}, objects |-> {}, classed |-> {"a", "b"}, styled |-> {"a", "b"}]
NoSheet ==
    [sheets |-> {}, texts |-> {}, rules |-> {}, objects |-> {}, classed |-> {}, styled |-> {}]

St == INSTANCE Styles WITH
        obj <- rule, Rules <- Says, MaxRules <- 3,
        Scenes <- {RuleObjects, TwoSheets, StyledInline, NoSheet}

-----------------------------------------------------------------------------
Tagged(nodes, children) ==
    [tags |-> nodes, kin |-> children, values |-> <<>>, ids |-> <<>>, refs |-> <<>>,
     movable |-> {}, spare |-> <<>>]
Columns ==
    [Tagged("t" :> "table" @@ "c" :> "colgroup", "t" :> <<"c">> @@ "c" :> <<>>)
     EXCEPT !.spare = <<"n1", "n2", "n3", "n4">>]
RowAndFoot ==
    [Tagged("t" :> "table" @@ "r" :> "tr" @@ "d" :> "td" @@ "f" :> "tfoot",
            "t" :> <<"r", "f">> @@ "r" :> <<"d">> @@ "d" :> <<>> @@ "f" :> <<>>)
     EXCEPT !.spare = <<"n1", "n2", "n3">>]
TwoSelects ==
    [Tagged("s" :> "select" @@ "z" :> "select" @@ "g" :> "optgroup" @@
            "o" :> "option" @@ "p" :> "option",
            "s" :> <<"o", "g">> @@ "z" :> <<>> @@ "g" :> <<"p">> @@ "o" :> <<>> @@ "p" :> <<>>)
     EXCEPT !.values = "o" :> "u" @@ "p" :> "u", !.spare = <<"n">>]
TwoForms ==
    [Tagged("doc" :> "document" @@ "h" :> "html" @@ "f" :> "form" @@ "g" :> "form" @@
            "i" :> "input" @@ "l" :> "label",
            "doc" :> <<"h">> @@ "h" :> <<"f", "l">> @@ "f" :> <<"i">> @@ "g" :> <<>> @@
            "i" :> <<>> @@ "l" :> <<>>)
     EXCEPT !.ids = "f" :> "x" @@ "g" :> "y" @@ "i" :> "i", !.movable = {"g", "i", "l"}]
NoPage == Tagged(<<>>, <<>>)

El == INSTANCE Elements WITH
        Root <- "doc", MaxLength <- 2,
        Pages <- {Columns, RowAndFoot, TwoSelects, TwoForms, NoPage}

-----------------------------------------------------------------------------
InHtml == [svg |-> FALSE, attrs |-> <<>>]
InSvg == [svg |-> TRUE, attrs |-> "top" :> "5"]

De == INSTANCE Declarations WITH
        Names <- {"top", "color", "--c"}, Global <- "top" :> "auto" @@ "color" :> "canvastext",
        Html <- {"color"}, Svg <- {"top"}, Custom <- {"--c"}, Values <- {"red", "1px"},
        Texts <- {<<>>, <<"top", ":", "red">>,
                  <<"color", ":", "red", ";", "color", ":", "1px", "!important", ";",
                    "--c", ":", "red">>},
        MaxWords <- 13, Drawings <- {InHtml, InSvg}

-----------------------------------------------------------------------------
Pa == INSTANCE Outline WITH
        Letters <- {"M", "m", "L", "h", "v", "C", "s", "q", "T", "A", "z", "B"},
        Numbers <- <<1, 2, 5, -1, 3, 4, 2>>, Counts <- {1, 4}, MaxChunks <- 3
-----------------------------------------------------------------------------
Stages == {"tree", "attributes", "styles", "elements", "declarations", "outlines"}

ScriptInit ==
    /\ stage \in Stages
    /\ Init /\ (DOMAIN type # {Doc} <=> stage = "tree")
    /\ At!Init /\ (attr # <<>> <=> stage = "attributes")
    /\ St!Init /\ (scene # NoSheet <=> stage = "styles")
    /\ El!Init /\ (page # NoPage <=> stage = "elements")
    /\ De!DeclarationsInit /\ (stage # "declarations" => drawing = InHtml)
    /\ Pa!OutlineInit /\ (stage # "outlines" => data = <<>>)

ScriptNext ==
    /\ UNCHANGED stage
    /\ \/ /\ stage = "tree" /\ Next
          /\ UNCHANGED <<attributeVars, styleVars, elementVars, declarationVars, outlineVars>>
       \/ /\ stage = "attributes" /\ At!Next
          /\ UNCHANGED <<vars, styleVars, elementVars, declarationVars, outlineVars>>
       \/ /\ stage = "styles" /\ St!Next
          /\ UNCHANGED <<vars, attributeVars, elementVars, declarationVars, outlineVars>>
       \/ /\ stage = "elements" /\ El!Next
          /\ UNCHANGED <<vars, attributeVars, styleVars, declarationVars, outlineVars>>
       \/ /\ stage = "declarations" /\ De!DeclarationsNext
          /\ UNCHANGED <<vars, attributeVars, styleVars, elementVars, outlineVars>>
       \/ /\ stage = "outlines" /\ Pa!OutlineNext
          /\ UNCHANGED <<vars, attributeVars, styleVars, elementVars, declarationVars>>

scriptVars ==
    <<stage, vars, attributeVars, styleVars, elementVars, declarationVars, outlineVars>>

ScriptSpec == ScriptInit /\ [][ScriptNext]_scriptVars

-----------------------------------------------------------------------------
(* What a script holds stays what it was: an Attr object belongs to one element at most, the  *)
(* one whose map has it, and keeps the value it shows; a rule object never shows another rule *)
(* than the one it was made for; and insertRule and deleteRule cost no other rule its object. *)
HandlesKept == [](At!OneHome /\ St!RuleKept) /\ At!AttrKeeps /\ St!SiblingsKept

(* A sheet and a computed style that do not know themselves out of date are right; the text   *)
(* of a style attribute says what was set; and a computed style has what it lists.            *)
StylesFresh == St!StylesFresh /\ De!DeclarationsKept /\ De!ComputedListed

(* The functions of tables keep their parts in order and mean the same row by an index; the   *)
(* properties of a select agree about what is selected, one option where one may be; and a    *)
(* form, its controls and their labels agree about who belongs to whom; and a path is what    *)
(* its data says.                                                                             *)
ElementsAgree ==
    /\ El!TableShape /\ El!RowsAgree /\ El!InsertedThere
    /\ El!SelectsAgree /\ El!FormsAgree
    /\ Pa!SegmentsAgree /\ Pa!PointsAgree
=============================================================================

---------------------------- MODULE Declarations ----------------------------
(* The style attribute of an element b and of the element a that it is in, as setProperty and *)
(* removeProperty edit it (css_style_properties.cpp): they cut declarations out of the text   *)
(* at the places where the CSS parser found them.  And the computed style of b: the names it  *)
(* lists, and their values.  Style sheets, and when the computed style is out of date, are in *)
(* module Styles.                                                                             *)
EXTENDS Integers, Sequences, FiniteSets, SequencesExt

CONSTANTS
    Names,       \* names of properties, custom ones among them
    Global,      \* name |-> its initial value: those every computed style has
    Html,        \* the names that are inherited,
    Svg,         \* those that are in SVG,
    Custom,      \* and the custom ones, which are too
    Values,      \* values that a script sets
    Texts,       \* texts that a script sets, in words
    MaxWords,    \* bounds the words of a text
    Drawings     \* whether b is in SVG, and the attributes that stand for properties there

VARIABLES
    style,       \* style[x]: the text of x's style attribute, None if there is none
    drawing,     \* one of the Drawings
    meant,       \* meant[x]: the declarations that the script made (a ghost)
    said         \* the last that it made alone, or NoWord (a ghost)

declarationsVars == <<style, drawing, meant, said>>

A == "a"
B == "b"
NoStyle == <<"none">>
NoWord == [of |-> "", name |-> "", value |-> "", important |-> FALSE]
Bang == "!important"

Text(x) == IF style[x] = NoStyle THEN <<>> ELSE style[x]

-----------------------------------------------------------------------------
(* What the parser finds: a name at the start of the text or after a semicolon, a colon, a    *)
(* value, and whether it is important.  Blanks are left out.                                  *)
Declaration(text, i) ==
    LET important == i + 3 <= Len(text) /\ text[i + 3] = Bang
    IN [begin |-> i, name |-> text[i], value |-> text[i + 2], important |-> important,
        end |-> IF important THEN i + 3 ELSE i + 2]

Found(text) ==
    {d \in {Declaration(text, i) :
               i \in {j \in 1 .. Len(text) - 2 :
                        /\ text[j] \in Names /\ text[j + 1] = ":" /\ text[j + 2] \in Values
                        /\ j > 1 => text[j - 1] = ";"}} :
        d.end < Len(text) => text[d.end + 1] = ";"}

(* The one of a name that counts: an important one before others, and then the last.          *)
Counts(found, d) ==
    \A c \in found : c.name = d.name => \/ d.important /\ ~c.important
                                        \/ d.important = c.important /\ c.begin <= d.begin
Winners(text) == {d \in Found(text) : Counts(Found(text), d)}
Rule(text, name) == {d \in Winners(text) : d.name = name}

-----------------------------------------------------------------------------
\* Defect: names that begin with a dash are not seen.
Lettered(w) == w \notin {";", ":", Bang} \cup Custom
(* Whether a word begins with a letter or a dash. *)
Wordy(w) == w \notin {";", ":", Bang}

(* The text without d: what is between it and the next letter or dash goes with it. *)
After(text, d) ==
    LET next == {j \in d.end + 1 .. Len(text) : Wordy(text[j])}
    IN IF next = {} THEN <<>>
       ELSE SubSeq(text, CHOOSE j \in next : \A k \in next : j <= k, Len(text))

Without(text, d) == SubSeq(text, 1, d.begin - 1) \o After(text, d)

\* Defect: what is added follows the last value without a semicolon.
Undelimited(text) == text
Delimited(text) == IF text = <<>> \/ text[Len(text)] = ";" THEN text ELSE Append(text, ";")

Rest(text, name) ==
    IF Rule(text, name) = {} THEN text
    ELSE Without(text, CHOOSE d \in Rule(text, name) : TRUE)

-----------------------------------------------------------------------------
Plain(d) == [name |-> d.name, value |-> d.value, important |-> d.important]

(* The declarations of a text in their order, and a list of them without the one that counts. *)
Listed(text) ==
    LET found == Found(text)
        places == SelectSeq([i \in DOMAIN text |-> i], LAMBDA i : \E d \in found : d.begin = i)
    IN [k \in DOMAIN places |-> Plain(Declaration(text, places[k]))]

Best(list, name) ==
    LET of == {k \in DOMAIN list : list[k].name = name}
        strong == {k \in of : list[k].important}
        best == IF strong = {} THEN of ELSE strong
    IN {k \in best : \A j \in best : j <= k}

Dropped(list, name) ==
    [i \in 1 .. Len(list) - Cardinality(Best(list, name)) |->
        IF \E k \in Best(list, name) : k <= i THEN list[i + 1] ELSE list[i]]

SetProperty(x, name, val, important) ==
    LET made == [name |-> name, value |-> val, important |-> important]
    IN /\ style' = [style EXCEPT ![x] =
             Delimited(Rest(Text(x), name)) \o <<name, ":", val>>
                 \o (IF important THEN <<Bang, ";">> ELSE <<";">>)]
       /\ meant' = [meant EXCEPT ![x] = Append(Dropped(@, name), made)]
       /\ said' = [of |-> x, name |-> name, value |-> val, important |-> important]
       /\ Len(style'[x]) <= MaxWords
       /\ UNCHANGED drawing

RemoveProperty(x, name) ==
    /\ Rule(Text(x), name) # {}
    /\ LET rest == Rest(Text(x), name)
       IN style' = [style EXCEPT ![x] = IF rest = <<>> THEN NoStyle ELSE rest]
    /\ meant' = [meant EXCEPT ![x] = Dropped(@, name)]
    /\ said' = NoWord
    /\ UNCHANGED drawing

SetCssText(x, text) ==
    /\ style' = [style EXCEPT ![x] = text]
    /\ meant' = [meant EXCEPT ![x] = Listed(text)]
    /\ said' = NoWord
    /\ UNCHANGED drawing

DeclarationsInit ==
    /\ style = [x \in {A, B} |-> NoStyle]
    /\ meant = [x \in {A, B} |-> <<>>]
    /\ said = NoWord
    /\ drawing \in Drawings

DeclarationsNext ==
    \/ \E name \in Names, val \in Values, important \in BOOLEAN :
          SetProperty(B, name, val, important)
    \/ \E name \in Names : RemoveProperty(B, name)
    \/ \E x \in {A, B}, text \in Texts : SetCssText(x, text)

DeclarationsSpec == DeclarationsInit /\ [][DeclarationsNext]_declarationsVars

-----------------------------------------------------------------------------
(* The names that are inherited, and what every computed style has where nothing is declared. *)
InheritedInHtml(name) == name \in Html
InheritedInSvg(name) == name \in Svg
Initially == DOMAIN Global
InitialOf(name) == IF name \in Initially THEN Global[name] ELSE ""

(* The computed style of b: what it or a declares, b first, and of a only what is inherited.  *)
Inherits(name) ==
    \/ name \in Custom
    \/ InheritedInHtml(name)
    \/ drawing.svg /\ InheritedInSvg(name)

Cascaded ==
    LET own == Winners(Text(B))
        mine == {d.name : d \in own}
    IN {Plain(d) : d \in own}
         \cup {Plain(d) : d \in {c \in Winners(Text(A)) : Inherits(c.name) /\ c.name \notin mine}}

(* An attribute of b in SVG comes before the initial value. *)
ComputedValue(name) ==
    IF \E d \in Cascaded : d.name = name
    THEN (CHOOSE d \in Cascaded : d.name = name).value
    ELSE IF drawing.svg /\ name \in DOMAIN drawing.attrs THEN drawing.attrs[name]
    ELSE InitialOf(name)

\* Defect: what is inherited is not counted.
OwnExotic == {d.name : d \in Winners(Text(B))} \ Initially
Counted == ({d.name : d \in Winners(Text(B))} \cup {d.name : d \in Cascaded}) \ Initially

ComputedLength == Cardinality(Initially) + Cardinality(Counted)
ComputedNames ==
    SetToSeq(Initially)
        \o SetToSeq(({d.name : d \in Winners(Text(B))} \cup {d.name : d \in Cascaded})
                      \ Initially)
HasProperty(name) ==
    \/ name \in Initially
    \/ Rule(Text(B), name) # {}
    \/ \E d \in Cascaded : d.name = name

-----------------------------------------------------------------------------
(* Whatever a script sets and removes, the text has exactly the declarations that were made:  *)
(* none lost, none run into another, none found that nobody made.  The last one made is what  *)
(* its property says, unless another important one of it is still there.                      *)
DeclarationsKept ==
    /\ \A x \in {A, B} : Listed(Text(x)) = meant[x]
    /\ said # NoWord /\ (\A k \in DOMAIN meant[said.of] :
                            meant[said.of][k].name = said.name /\ k < Len(meant[said.of])
                                => ~meant[said.of][k].important)
       => {Plain(d) : d \in Rule(Text(said.of), said.name)} =
              {[name |-> said.name, value |-> said.value, important |-> said.important]}

(* A computed style lists as many names as it says, each once; a property that it has is one  *)
(* of them, and has a value.                                                                  *)
ComputedListed ==
    /\ ComputedLength = Len(ComputedNames)
    /\ \A name \in Names : HasProperty(name) = (name \in Range(ComputedNames))
    /\ \A name \in Range(ComputedNames) : ComputedValue(name) # ""
=============================================================================

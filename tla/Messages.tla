------------------------------- MODULE Messages -------------------------------
(* The messages of HTTP as scripts make and answer them (global.cpp: Headers, Request with    *)
(* its configuration, ServerRequest, ServerResponse).  What a form or a blob becomes in a     *)
(* body is in Bodies, the way of a request to its response in AsyncOps.                       *)
EXTENDS Naturals, Sequences, SequencesExt

CONSTANTS
    NameOf,     \* spellings of names, with the name each spells: case does not count
    TypeField,  \* how the program spells Content-Type
    Words,      \* pieces of values
    Data,       \* contents
    Dict,       \* names and values given with a request
    Prefix,     \* whether the engine has an address to complete paths with
    MaxEdits,   \* bounds what a script does
    Unset       \* what is not given

VARIABLES
    fields,    \* the fields of a Headers object, and of the response
    body,      \* the body of the response
    request,   \* the request that the script made
    given,     \* what each name was last given (ghost)
    answered,  \* what body the response was last given (ghost)
    asked,     \* what the request was made with (ghost)
    edits

messagesVars == <<fields, body, request, given, answered, asked, edits>>

Names == {NameOf[s] : s \in DOMAIN NameOf}
Holders == {"own", "response"}
Type == NameOf[TypeField]

-----------------------------------------------------------------------------
(* A list of fields: each name as it was spelled, with its value as a list of words.          *)
\* Defect: spellings are compared.
SpelledIs(x, s) == x.spelled = s
Is(x, s) == NameOf[x.spelled] = NameOf[s]

Erase(f, s) == SelectSeq(f, LAMBDA x : ~Is(x, s))

(* A field that is set stands at the end, for all those of its name. *)
SetField(f, s, v) == Append(Erase(f, s), [spelled |-> s, value |-> v])

Get(f, s) == LET i == SelectInSeq(f, LAMBDA x : Is(x, s)) IN IF i = 0 THEN Unset ELSE f[i].value
Has(f, s) == SelectInSeq(f, LAMBDA x : Is(x, s)) # 0

(* append keeps the spelling that is there. *)
\* Defect: a field that is there is set instead.
Replaced(f, s, v) == SetField(f, s, v)
AppendField(f, s, v) ==
    LET i == SelectInSeq(f, LAMBDA x : Is(x, s))
    IN IF i = 0 THEN SetField(f, s, v) ELSE SetField(f, f[i].spelled, f[i].value \o v)

SetAll(f, more) == FoldLeft(LAMBDA g, x : SetField(g, x.spelled, x.value), f, more)

(* toJSON: under every spelling the last field's value. *)
ToJson(f) == [s \in {f[i].spelled : i \in DOMAIN f} |->
                 f[SelectLastInSeq(f, LAMBDA x : x.spelled = s)].value]

-----------------------------------------------------------------------------
(* The values a script gives as a body pass the checks of these classes; a setter, and the    *)
(* configuration, take the first that passes.                                                 *)
Values ==
    [is : {{"string"}, {"object"}}, type : {Unset}, data : Data]
        \cup [is : {{"blob", "object"}, {"html", "object"}, {"buffer", "object"},
                    {"form", "object"}}, type : {<<"own">>}, data : Data]
        \cup [is : {{"html", "object"}}, type : {<<"own">>}, data : {Unset}]

Chosen(classes, v) == SelectInSeq(classes, LAMBDA c : c \in v.is)
FirstOf(classes, v) == classes[Chosen(classes, v)]

Json == <<"json">>

\* Defect: everything that is an object is written as JSON.
ObjectsFirst == <<"string", "object", "blob", "html">>
BodySetters == <<"string", "blob", "html", "object">>

\* What a value of that class makes of the type: markup has its class's, blobs have their own.
TypeFor(class, v) == CASE class = "string" -> Unset
                       [] class = "object" -> Json
                       [] OTHER -> v.type

(* Content without data as text leaves the response as it is. *)
SetBody(v) ==
    LET class == FirstOf(BodySetters, v)
        type == TypeFor(class, v)
    IN IF class = "html" /\ v.data = Unset
       THEN UNCHANGED <<fields, body>>
       ELSE /\ body' = v.data
            /\ fields' = IF type = Unset THEN fields
                         ELSE [fields EXCEPT !.response = SetField(@, TypeField, type)]

-----------------------------------------------------------------------------
(* What a request may be made for: a string is a URL or, if the engine has an address, a      *)
(* path; its scheme may be the program's own, that of a URL object may not.                   *)
Target == [as : {"string", "url"}, scheme : {"http", "https", "noto", "ftp"}]
              \cup [as : {"string"}, scheme : {"path"}]
Valid(t) ==
    \/ t.scheme \in {"http", "https"}
    \/ t.as = "string" /\ (t.scheme = "noto" \/ (t.scheme = "path" /\ Prefix))

(* A path and the program's own scheme lead to the address of the engine.                     *)
MaybeNoto(t) == IF t.scheme \in {"noto", "path"} THEN "own" ELSE t.scheme

ConfigBodies == <<"string", "buffer", "form", "object">>

(* What a request is made of before its configuration. *)
Bare(t) == [to |-> MaybeNoto(t), method |-> "GET", redirect |-> "follow", body |-> <<>>,
            fields |-> <<[spelled |-> "Host", value |-> <<MaybeNoto(t)>>]>>, timeout |-> 10000]

\* Defect: the fields are set before the body.
TypedLast(f, type, more) == LET g == SetAll(f, more)
                            IN IF type = Unset THEN g ELSE SetField(g, TypeField, type)
Configured(f, type, more) ==
    SetAll(IF type = Unset THEN f ELSE SetField(f, TypeField, type), more)

(* The configuration: the type of a body first, then the fields that are given, which win;    *)
(* the timeout is looked at only where no fields are given.                                   *)
BodyType(v) ==
    IF v = Unset THEN Unset
    ELSE CASE FirstOf(ConfigBodies, v) = "form" -> v.type
           [] FirstOf(ConfigBodies, v) = "object" -> Json
           [] OTHER -> Unset

SetConfig(r, config) ==
    [r EXCEPT
        !.method = IF config.method = Unset THEN @ ELSE config.method,
        !.redirect = IF config.redirect = Unset THEN @ ELSE config.redirect,
        !.body = IF config.body = Unset THEN @ ELSE config.body.data,
        !.fields = Configured(@, BodyType(config.body),
                              IF config.headers = Unset THEN <<>> ELSE config.headers),
        !.timeout = IF config.headers = Unset /\ config.timeout \in Nat \ {0}
                    THEN config.timeout ELSE @]

-----------------------------------------------------------------------------
MessagesInit ==
    /\ fields = [own |-> <<>>, response |-> <<>>]
    /\ body = <<>> /\ answered = <<>>
    /\ request = Unset /\ asked = Unset
    /\ given = [holder \in Holders |-> [n \in Names |-> Unset]]
    /\ edits = 0

(* set, append and delete of the Headers object, and of the response's, which shares them.    *)
EditHeaders(holder, s, w) ==
    /\ \/ /\ fields' = [fields EXCEPT ![holder] = SetField(@, s, <<w>>)]
          /\ given' = [given EXCEPT ![holder][NameOf[s]] = <<w>>]
       \/ /\ fields' = [fields EXCEPT ![holder] = AppendField(@, s, <<w>>)]
          /\ given' = [given EXCEPT ![holder][NameOf[s]] = IF @ = Unset THEN <<w>> ELSE @ \o <<w>>]
       \/ /\ fields' = [fields EXCEPT ![holder] = Erase(@, s)]
          /\ given' = [given EXCEPT ![holder][NameOf[s]] = Unset]
    /\ UNCHANGED <<body, request, answered, asked>>

(* The setter of a response's body. *)
Respond(v) ==
    /\ SetBody(v)
    /\ answered' = IF v.data = Unset THEN answered ELSE v.data
    /\ given' = IF v.data = Unset \/ v.is = {"string"} THEN given
                ELSE [given EXCEPT !.response[Type] =
                         IF "blob" \in v.is \/ "html" \in v.is THEN v.type ELSE Json]
    /\ UNCHANGED <<request, asked>>

(* A request, with the Headers object, with names and values, or with neither.                *)
MakeRequest(t, config) ==
    /\ Valid(t)
    /\ request' = SetConfig(Bare(t), config)
    /\ asked' = [to |-> t, config |-> config]
    /\ UNCHANGED <<fields, body, given, answered>>

Plain == [method |-> Unset, redirect |-> Unset, body |-> Unset, headers |-> Unset,
          timeout |-> Unset]
Configs ==
    {Plain} \cup [method : {"POST"}, redirect : {"manual"}, body : Values \cup {Unset},
                  headers : {Unset, fields.own, Dict}, timeout : {0, 5}]

MessagesNext ==
    /\ edits < MaxEdits /\ edits' = edits + 1
    /\ \/ \E holder \in Holders, s \in DOMAIN NameOf, w \in Words : EditHeaders(holder, s, w)
       \/ \E v \in Values : Respond(v)
       \/ \E t \in Target : MakeRequest(t, Plain)
       \/ \E config \in Configs : MakeRequest([as |-> "url", scheme |-> "http"], config)

-----------------------------------------------------------------------------
(* Under a name, in whatever spelling, a script finds what it last set with all it appended   *)
(* since, and nothing once it deleted it; toJSON has every name once.                         *)
HeadersAsGiven ==
    \A holder \in Holders :
        LET f == fields[holder]
            json == ToJson(f)
        IN /\ \A s \in DOMAIN NameOf :
                 /\ Get(f, s) = given[holder][NameOf[s]]
                 /\ Has(f, s) <=> Get(f, s) # Unset
           /\ \A s \in DOMAIN json : json[s] = given[holder][NameOf[s]]
           /\ \A s, r \in DOMAIN json : NameOf[s] = NameOf[r] => s = r

(* The response has the last body it was given. *)
BodyAsAnswered == body = answered

(* The request that is sent is the one that was asked for: method, redirect and body, every   *)
(* field with the last value given for its name, and the type of the body unless one is       *)
(* given; it leads to where it was made for.                                                  *)
LastGiven(more, n) ==
    LET i == SelectLastInSeq(more, LAMBDA x : NameOf[x.spelled] = n) IN more[i].value
Gives(more, n) == more # Unset /\ \E i \in DOMAIN more : NameOf[more[i].spelled] = n

RequestAsAsked ==
    request # Unset =>
        LET c == asked.config
            v == c.body
        IN /\ request.method = (IF c.method = Unset THEN "GET" ELSE c.method)
           /\ request.redirect = (IF c.redirect = Unset THEN "follow" ELSE c.redirect)
           /\ request.to = (IF asked.to.scheme \in {"http", "https"} THEN asked.to.scheme
                            ELSE "own")
           /\ request.body = (IF v = Unset THEN <<>> ELSE v.data)
           /\ \A s \in DOMAIN NameOf :
                 Gives(c.headers, NameOf[s]) =>
                    Get(request.fields, s) = LastGiven(c.headers, NameOf[s])
           /\ ~Gives(c.headers, Type) =>
                 Get(request.fields, TypeField) =
                    (IF v = Unset \/ "string" \in v.is \/ "buffer" \in v.is THEN Unset
                     ELSE IF "form" \in v.is THEN v.type ELSE Json)
=============================================================================

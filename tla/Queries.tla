------------------------------ MODULE Queries -------------------------------
(* URLSearchParams, the parts of a URL, and the query that a request sends (global.cpp,       *)
(* parser/search.hpp).  Text is a sequence of characters; "%" and what follows it are two.    *)
(* Malformed "%" is left out: decoding it throws through the script's call.                   *)
EXTENDS Integers, Sequences, SequencesExt

CONSTANTS
    Keys,        \* keys of parameters, in their order
    Values,      \* values of parameters
    Hosts,       \* hosts, with their ports
    None,        \* no query, no port
    MaxParams,   \* bounds the parameters
    MaxSteps     \* and what a script does

VARIABLES
    params,      \* the vector of pairs of a URLSearchParams
    url,         \* the parts of a URL
    made,        \* what the query and the host were last made of, and how (ghosts)
    turns

queriesVars == <<params, url, made, turns>>

\* The characters that are encoded, by the digits of their numbers.
Digits == [c \in {"&", "=", "%", "+", " "} |->
             CASE c = "&" -> "26" [] c = "=" -> "3D" [] c = "%" -> "25"
               [] c = "+" -> "2B" [] c = " " -> "20"]

Coded(digits) == CHOOSE c \in DOMAIN Digits : Digits[c] = digits

Pair(key, val) == [key |-> key, val |-> val]

RECURSIVE EncodeAll(_, _)
EncodeAll(text, chars) ==
    IF text = <<>> THEN <<>>
    ELSE (IF Head(text) \in chars THEN <<"%", Digits[Head(text)]>> ELSE <<Head(text)>>)
         \o EncodeAll(Tail(text), chars)

(* decodeURIComponent, with plus for a blank or without. *)
RECURSIVE Decode(_, _)
Decode(text, plus) ==
    IF text = <<>> THEN <<>>
    ELSE IF Head(text) = "%" THEN <<Coded(text[2])>> \o Decode(SubSeq(text, 3, Len(text)), plus)
    ELSE <<IF plus /\ Head(text) = "+" THEN " " ELSE Head(text)>> \o Decode(Tail(text), plus)

-----------------------------------------------------------------------------
(* toString writes keys as they are and encodes values. *)
\* Defect: what URLs allow in a query is not encoded.
EncodeLikeQuery(value) == EncodeAll(value, {"%", " "})
EncodeValue(value) == EncodeAll(value, DOMAIN Digits)

RECURSIVE TextOf(_)
TextOf(list) ==
    IF list = <<>> THEN <<>>
    ELSE Head(list).key \o <<"=">> \o EncodeValue(Head(list).val)
         \o (IF Len(list) = 1 THEN <<>> ELSE <<"&">> \o TextOf(Tail(list)))

(* Search: pairs with "&" between them.  A value ends at "&" and at "="; after a second "="   *)
(* nothing more is read.  An empty text is one empty key.                                     *)
EndOf(text, i, marks) ==
    CHOOSE j \in i .. Len(text) + 1 :
        /\ j = Len(text) + 1 \/ text[j] \in marks
        /\ \A k \in i .. j - 1 : text[k] \notin marks

RECURSIVE PairsFrom(_, _)
PairsFrom(text, i) ==
    LET keyEnd == EndOf(text, i, {"&", "="})
        valued == keyEnd <= Len(text) /\ text[keyEnd] = "="
        end == IF valued THEN EndOf(text, keyEnd + 1, {"&", "="}) ELSE keyEnd
        pair == Pair(Decode(SubSeq(text, i, keyEnd - 1), TRUE),
                     IF valued THEN Decode(SubSeq(text, keyEnd + 1, end - 1), TRUE) ELSE <<>>)
    IN IF end <= Len(text) /\ text[end] = "&"
       THEN <<pair>> \o PairsFrom(text, end + 1) ELSE <<pair>>

Parse(text) == PairsFrom(text, 1)

-----------------------------------------------------------------------------
(* URLSearchParams *)
Positions(key) == {k \in DOMAIN params : params[k].key = key}
Kept(gone) == SelectSeq([k \in DOMAIN params |-> k], LAMBDA k : k \notin gone)
Those(places) == [i \in DOMAIN places |-> params[places[i]]]

AppendParam(key, val) ==
    /\ Len(params) < MaxParams
    /\ params' = Append(params, Pair(key, val))

DeleteKey(key) == params' = Those(Kept(Positions(key)))

DeletePair(key, val) ==
    params' = Those(Kept({k \in Positions(key) : params[k].val = val}))

(* The first of the key takes the value and the others go. *)
SetParam(key, val) ==
    LET same == Positions(key)
        first == CHOOSE k \in same : \A j \in same : k <= j
        places == Kept(same \ {first})
    IN IF same = {} THEN AppendParam(key, val)
       ELSE params' = [i \in DOMAIN places |->
                         IF places[i] = first THEN Pair(key, val) ELSE params[places[i]]]

(* sort compares keys only; up to 16 of them it keeps the order of the same. *)
Sort ==
    params' = FlattenSeq([r \in DOMAIN Keys |-> SelectSeq(params, LAMBDA p : p.key = Keys[r])])

-----------------------------------------------------------------------------
(* URL: `search` and `query` are without escapes, `href` and what is sent have them. *)
Plainly == IF url.query = None THEN <<>> ELSE Decode(url.query, FALSE)
Sent == IF url.query = None THEN <<>> ELSE url.query
SearchParams == Parse(Plainly)

\* Defect: the text is taken as it would stand in a URL.
StoredAsIs(text) == text
Stored(text) == EncodeAll(text, {"%", " "})

SetSearch(text) ==
    url' = [url EXCEPT !.query =
              IF text = <<>> THEN None
              ELSE Stored(IF Head(text) = "?" THEN Tail(text) ELSE text)]

SearchOfParams ==
    /\ SetSearch(TextOf(params))
    /\ made' = [made EXCEPT !.params = params, !.way = "search"]

(* A URL is read from text; blanks make it no URL, and parts other than the query stay here.  *)
HrefOfParams ==
    /\ \A k \in DOMAIN params : " " \notin Range(params[k].key)
    /\ url' = [url EXCEPT !.query = TextOf(params)]
    /\ made' = [made EXCEPT !.params = params, !.way = "href"]

(* u.search = u.search keeps the parameters, but of a URL that was written not what is sent.  *)
SearchAgain ==
    /\ SetSearch(Plainly)
    /\ made' = [made EXCEPT !.way = IF @ = "search" THEN @ ELSE ""]

(* A script goes on with the parameters of the URL: they are a copy. *)
TakeParams == params' = SearchParams /\ Len(SearchParams) <= MaxParams

(* host has the port; what comes after the last colon of a new host is its port. *)
HostText(host, port) == IF port = None THEN host ELSE host \o <<":">> \o port

\* Defect: the port that was there stays.
PortStays == url.port
NoPort == None

\* Defect: the first colon is looked for.
FirstColon(text) == CHOOSE k \in DOMAIN text : text[k] = ":" /\ \A j \in 1 .. k - 1 : text[j] # ":"
LastColon(text) ==
    CHOOSE k \in DOMAIN text : text[k] = ":" /\ \A j \in k + 1 .. Len(text) : text[j] # ":"

SetHost(text) ==
    url' = IF ":" \in Range(text)
           THEN [url EXCEPT !.host = SubSeq(text, 1, LastColon(text) - 1),
                            !.port = SubSeq(text, LastColon(text) + 1, Len(text))]
           ELSE [url EXCEPT !.host = text, !.port = NoPort]

HostOf(h) ==
    /\ SetHost(HostText(h.host, h.port))
    /\ made' = [made EXCEPT !.host = h]

SetPort(port) ==
    /\ url' = [url EXCEPT !.port = port]
    /\ made' = [made EXCEPT !.host.port = port]

-----------------------------------------------------------------------------
QueriesInit ==
    /\ params = <<>>
    /\ \E h \in Hosts :
          /\ url = [host |-> h.host, port |-> h.port, query |-> None]
          /\ made = [params |-> <<>>, way |-> "", host |-> h]
    /\ turns = 0

QueriesNext ==
    /\ turns < MaxSteps /\ turns' = turns + 1
    /\ \/ /\ \/ \E k \in DOMAIN Keys, val \in Values : AppendParam(Keys[k], val)
             \/ \E k \in DOMAIN Keys : DeleteKey(Keys[k])
             \/ \E k \in DOMAIN Keys, val \in Values : DeletePair(Keys[k], val)
             \/ \E k \in DOMAIN Keys, val \in Values : SetParam(Keys[k], val)
             \/ Sort
             \/ TakeParams
          /\ UNCHANGED <<url, made>>
       \/ /\ \/ SearchOfParams
             \/ HrefOfParams
             \/ SearchAgain
             \/ \E h \in Hosts : HostOf(h)
             \/ \E h \in Hosts : h.port # None /\ SetPort(h.port)
          /\ UNCHANGED params

QueriesSpec == QueriesInit /\ [][QueriesNext]_queriesVars

-----------------------------------------------------------------------------
(* The parameters that `search` was made of are the URL's searchParams, and those that a URL  *)
(* was written with are what a request sends: with any values, and keys that have none of the *)
(* characters that mean something, which toString does not encode.  The other way round it    *)
(* is not so: a request for a URL whose `search` was made of parameters sends them encoded    *)
(* twice, and searchParams of a URL that was written with them decodes twice.                 *)
PlainKeys(list) == \A k \in DOMAIN list : Range(list[k].key) \cap {"&", "=", "%", "+"} = {}

ParamsKept ==
    made.params # <<>> /\ PlainKeys(made.params) =>
        /\ made.way = "search" => SearchParams = made.params
        /\ made.way = "href" => Parse(Sent) = made.params

(* A host that one URL shows, given to another, is the same host and port. *)
HostKept == url.host = made.host.host /\ url.port = made.host.port
=============================================================================

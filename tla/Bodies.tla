------------------------------- MODULE Bodies -------------------------------
(* Blob, File and FormData of a script, the bodies that requests make of forms, and           *)
(* formData(), which makes a form of a body again (global.cpp, parser/multipart.cpp).         *)
(* Bytes are pieces of text that matter or do not: a line end, two dashes, the id in a        *)
(* boundary, a quote, a backslash, a control character, the fixed words of part headers.      *)
EXTENDS Integers, Sequences, FiniteSets, SequencesExt

CONSTANTS
    Texts,       \* what strings, and the blobs made of them, may have in them
    Names,       \* names of entries
    Labels,      \* types and names of blobs and files
    Types,       \* types that slices get
    Given,       \* names that files get with a form
    Ids,         \* the sequence of ids that boundaries get
    Cuts,        \* arguments of slice
    MaxEntries,  \* bounds the entries of the form,
    Budgets      \* the Blob objects, and what a script does

VARIABLES
    memory,      \* the vectors of bytes, which blobs and entries share
    blob,        \* the Blob and File objects
    form,        \* the entries of the script's FormData
    sent,        \* the requests made of forms, with what the form had in it (a ghost)
    left         \* the blobs that may be made, and what the script may still do

bodiesVars == <<memory, blob, form, sent, left>>

Quote == "quote"              \* "
Backslash == "backslash"
Control == "control"          \* a character below 32 that is neither tab nor line end
LineEnd == "crlf"             \* CR LF
Dashes == "--"
Blank == "blank"
Disposition == "disposition"  \* Content-Disposition: form-data; name="
Filename == "filename"        \* ; filename="
ContentType == "content-type" \* Content-Type:
Escaped == [w \in {LineEnd, Quote} |-> IF w = Quote THEN "%22" ELSE "%0D%0A"]

BlobName == <<"blob">>
OctetStream == <<"application/octet-stream">>
Untyped == <<>>

-----------------------------------------------------------------------------
(* A blob has its own vector, or looks at bytes of another's.  Ghosts are what it was made to *)
(* have in it, whether that is still promised, and its kin: those it may share memory with.   *)
Ghosts(reads, sure, kin) == [reads |-> reads, sure |-> sure, kin |-> kin]

View(of, at, size, type, own, name, ghosts) ==
    [of |-> of, at |-> at, size |-> size, type |-> type, own |-> own, name |-> name,
     ghosts |-> ghosts]

NewKin == left.deeds * 10     \* no two steps make the same

NoName == <<"">>              \* of a Blob that is no File
Bytes(b) == IF b.size = 0 THEN <<>> ELSE SubSeq(memory[b.of], b.at + 1, b.at + b.size)

(* Text or a blob as a part of a new Blob; the bytes are copied. *)
RECURSIVE Joined(_)
Joined(parts) == IF parts = <<>> THEN <<>> ELSE Head(parts) \o Joined(Tail(parts))

(* Defect: a blob made of one other shares its vector. *)
SharedIfOne(parts, shares) == IF Len(parts) = 1 /\ shares # 0 THEN shares ELSE 0
VectorFor(parts, shares) == 0

NewBlob(parts, promised, sure, shares, type, name) ==
    LET old == VectorFor(parts, shares)
        bytes == Joined(parts)
        of == IF old = 0 THEN Len(memory) + 1 ELSE old
    IN /\ Len(blob) < left.blobs
       /\ memory' = IF old = 0 THEN Append(memory, bytes) ELSE memory
       /\ blob' = Append(blob, View(of, 0, Len(bytes), type, TRUE, name,
                                    Ghosts(promised, sure, NewKin)))
       /\ UNCHANGED <<form, sent>>

(* What a script may put into a blob or a form: its strings and the texts of requests. *)
Strings == Texts \cup {sent[k].body : k \in DOMAIN sent}

MakeOfText(text, type, name) == NewBlob(<<text>>, text, TRUE, 0, type, name)

MakeOfBlob(b, text, type, name) ==
    LET whole == blob[b].own /\ blob[b].size > 0
        parts == IF text = <<>> THEN <<Bytes(blob[b])>> ELSE <<text, Bytes(blob[b])>>
    IN NewBlob(parts, text \o blob[b].ghosts.reads, blob[b].ghosts.sure,
               IF whole THEN blob[b].of ELSE 0, type, name)

(* slice: indexes are 32 bits wide; one below 0 counts from the end.  An end that is still    *)
(* below 0 is compared with the size as an unsigned number, and becomes the size.             *)
FromEnd(i, size) == IF i < 0 THEN i + size ELSE i

(* Defect: an end below 0 is the size. *)
EndPositive(e, size) == IF e < 0 \/ e > size THEN size ELSE e
EndAt(e, size) ==
    IF FromEnd(e, size) < 0 \/ FromEnd(e, size) > size THEN size ELSE FromEnd(e, size)

(* What the standard says of the same arguments. *)
Clamped(i, size) ==
    IF i < 0 THEN (IF i + size < 0 THEN 0 ELSE i + size) ELSE IF i > size THEN size ELSE i

StandardSlice(bytes, s, e) ==
    SubSeq(bytes, Clamped(s, Len(bytes)) + 1, Clamped(e, Len(bytes)))

Slice(b, s, e, type) ==
    LET it == blob[b]
        first == FromEnd(s, it.size)
        last == EndAt(e, it.size)
        sure == it.ghosts.sure /\ s >= -it.size /\ e >= -it.size
        ghosts == Ghosts(StandardSlice(it.ghosts.reads, s, e), sure, it.ghosts.kin)
    IN /\ Len(blob) < left.blobs
       /\ blob' = Append(blob,
              IF first < 0 \/ first >= last
              THEN View(0, 0, 0, Untyped, FALSE, NoName, ghosts)
              ELSE View(it.of, it.at + first, last - first, type, FALSE, NoName, ghosts))
       /\ UNCHANGED <<memory, form, sent>>

(* With one argument the end is the size. *)
SliceFrom(b, s) == Slice(b, s, blob[b].size, Untyped)

(* arrayBuffer() and bytes() give the memory itself: what the script writes there is written  *)
(* in every blob, file and entry that shares it, and none of those is promised anything.      *)
Kin(it, b) == it.ghosts.kin = blob[b].ghosts.kin

Scribble(b, i, byte) ==
    /\ i < blob[b].size
    /\ memory' = [memory EXCEPT ![blob[b].of][blob[b].at + i + 1] = byte]
    /\ blob' = [k \in DOMAIN blob |->
                  IF Kin(blob[k], b) THEN [blob[k] EXCEPT !.ghosts.sure = FALSE] ELSE blob[k]]
    /\ form' = [k \in DOMAIN form |->
                  IF Kin(form[k], b) THEN [form[k] EXCEPT !.ghosts.sure = FALSE] ELSE form[k]]
    /\ UNCHANGED sent

-----------------------------------------------------------------------------
(* FormData *)
TextEntry(name, text) ==
    [name |-> name, file |-> FALSE, text |-> text, of |-> 0, type |-> Untyped,
     filename |-> <<>>, ghosts |-> Ghosts(text, TRUE, 0)]

FileEntry(name, b, of, filename) ==
    [name |-> name, file |-> TRUE, text |-> <<>>, of |-> of, type |-> blob[b].type,
     filename |-> filename,
     ghosts |-> IF blob[b].own THEN blob[b].ghosts
                ELSE [blob[b].ghosts EXCEPT !.kin = NewKin]]

Content(entry) == IF entry.file THEN memory[entry.of] ELSE entry.text

(* copy() shares the vector of a blob that has one, and makes one of a slice's bytes. *)
CopyOf(b) == IF blob[b].own THEN blob[b].of ELSE Len(memory) + 1
Copied(b) == IF blob[b].own THEN memory ELSE Append(memory, Bytes(blob[b]))

(* The name of the file is the one given, the file's own, or "blob". *)
NameFor(b, given) ==
    IF given # NoName THEN given ELSE IF blob[b].name # NoName THEN blob[b].name ELSE BlobName

(* set: the first entry of the name takes the value, the others of the name go. *)
Placed(entry) ==
    LET same == {k \in DOMAIN form : form[k].name = entry.name}
        first == CHOOSE k \in same : \A j \in same : k <= j
        kept == SelectSeq([k \in DOMAIN form |-> k], LAMBDA k : k \notin same \/ k = first)
    IN IF same = {} THEN Append(form, entry)
       ELSE [i \in DOMAIN kept |-> IF kept[i] = first THEN entry ELSE form[kept[i]]]

With(entry, set) == IF set THEN Placed(entry) ELSE Append(form, entry)

PutText(name, text, set) ==
    /\ Len(form) < MaxEntries
    /\ form' = With(TextEntry(name, text), set)
    /\ UNCHANGED <<memory, blob, sent>>

PutFile(name, b, given, set) ==
    /\ Len(form) < MaxEntries
    /\ memory' = Copied(b)
    /\ form' = With(FileEntry(name, b, CopyOf(b), NameFor(b, given)), set)
    /\ UNCHANGED <<blob, sent>>

RemoveEntries(name) ==
    /\ form' = SelectSeq(form, LAMBDA entry : entry.name # name)
    /\ UNCHANGED <<memory, blob, sent>>

(* get(): a file comes out as a new File that shares the entry's vector. *)
GetFile(k) ==
    /\ Len(blob) < left.blobs
    /\ form[k].file
    /\ blob' = Append(blob, View(form[k].of, 0, Len(memory[form[k].of]), form[k].type, TRUE,
                                 form[k].filename, form[k].ghosts))
    /\ UNCHANGED <<memory, form, sent>>

-----------------------------------------------------------------------------
(* A request made of a form *)
(* Defect: the id is not new. *)
OneBoundary(id) == <<Dashes, Dashes, Ids[1]>>
Boundary(id) == <<Dashes, Dashes, id>>        \* ----notojs-<uuid>
Delimiter(boundary) == <<Dashes>> \o boundary

RECURSIVE Escape(_)
Escape(name) ==
    IF name = <<>> THEN <<>>
    ELSE <<IF Head(name) \in DOMAIN Escaped THEN Escaped[Head(name)] ELSE Head(name)>>
         \o Escape(Tail(name))

(* Defect: names are written as they are. *)
Unescaped(name) == name
Written(name) == Escape(name)

Header(entry) ==
    <<Disposition>> \o Written(entry.name) \o <<Quote>>
    \o (IF entry.file
        THEN <<Filename>> \o Written(entry.filename) \o <<Quote, LineEnd, ContentType>>
             \o (IF entry.type = Untyped THEN OctetStream ELSE entry.type)
        ELSE <<>>)

RECURSIVE Encode(_, _)
Encode(entries, boundary) ==
    IF entries = <<>> THEN Delimiter(boundary) \o <<Dashes, LineEnd>>
    ELSE Delimiter(boundary) \o <<LineEnd>> \o Header(Head(entries)) \o <<LineEnd, LineEnd>>
         \o Content(Head(entries)) \o <<LineEnd>> \o Encode(Tail(entries), boundary)

(* What formData() is to give: the entries of the form, by their escaped names, files with a  *)
(* type.  An entry whose bytes were written over since is what they are now.                  *)
Meant(entry) ==
    [name |-> Escape(entry.name), file |-> entry.file,
     content |-> IF entry.ghosts.sure THEN entry.ghosts.reads ELSE Content(entry),
     type |-> IF entry.file /\ entry.type = Untyped THEN OctetStream ELSE entry.type,
     filename |-> Escape(entry.filename)]

Plain(name) == \A k \in DOMAIN name : name[k] \notin {Backslash, Control}

(* The content type has the new boundary, unless the script gives one, such as another's. *)
Send(given) ==
    LET id == Ids[Len(sent) + 1]
    IN /\ Len(sent) < Len(Ids)
       /\ sent' = Append(sent,
              [body |-> Encode(form, Boundary(id)), type |-> IF given = "" THEN id ELSE given,
               id |-> id, meant |-> [k \in DOMAIN form |-> Meant(form[k])],
               plain |-> \A k \in DOMAIN form : Plain(form[k].name) /\ Plain(form[k].filename)])
       /\ UNCHANGED <<memory, blob, form>>

-----------------------------------------------------------------------------
(* parser/multipart.cpp *)
LeastOf(S) == CHOOSE i \in S : \A j \in S : i <= j

StartsWith(body, i, prefix) ==
    i + Len(prefix) - 1 <= Len(body) /\ SubSeq(body, i, i + Len(prefix) - 1) = prefix

AfterBlanks(body, i) ==
    LeastOf({j \in i .. Len(body) + 1 : j = Len(body) + 1 \/ body[j] # Blank})

(* A delimiter ends its line, or, closing, the body. *)
DelimiterAt(body, delimiter, i) ==
    LET after == i + Len(delimiter)
        closing == StartsWith(body, after, <<Dashes>>)
        end == AfterBlanks(body, IF closing THEN after + 1 ELSE after)
    IN IF ~StartsWith(body, i, delimiter) THEN {}
       ELSE IF end = Len(body) + 1
       THEN (IF closing THEN {[start |-> i, next |-> end, closing |-> TRUE]} ELSE {})
       ELSE IF body[end] # LineEnd THEN {}
       ELSE {[start |-> i, next |-> end + 1, closing |-> closing]}

AfterLineEnd(body, i) == i > 1 /\ body[i - 1] = LineEnd

FindDelimiter(body, delimiter, from, opening) ==
    LET at == {i \in from + 1 .. Len(body) :
                 AfterLineEnd(body, i) /\ DelimiterAt(body, delimiter, i) # {}}
    IN IF opening /\ DelimiterAt(body, delimiter, 1) # {} THEN DelimiterAt(body, delimiter, 1)
       ELSE IF at = {} THEN {} ELSE DelimiterAt(body, delimiter, LeastOf(at))

(* A quoted parameter: a backslash stands for what follows it, control characters are errors. *)
Bad == [ok |-> FALSE, text |-> <<>>, rest |-> <<>>]

RECURSIVE Quoted(_)
Quoted(s) ==
    LET escaped == s # <<>> /\ Head(s) = Backslash
        byte == IF escaped THEN s[2] ELSE Head(s)
        more == Quoted(SubSeq(s, IF escaped THEN 3 ELSE 2, Len(s)))
    IN IF s = <<>> \/ s = <<Backslash>> THEN Bad
       ELSE IF Head(s) = Quote THEN [ok |-> TRUE, text |-> <<>>, rest |-> Tail(s)]
       ELSE IF byte = Control THEN Bad
       ELSE [more EXCEPT !.text = <<byte>> \o @]

(* The lines of a part's headers, by where they begin. *)
LineStarts(head) == {1} \cup {i + 1 : i \in {j \in DOMAIN head : head[j] = LineEnd}}

LineFrom(head, i) ==
    SubSeq(head, i, LeastOf({j \in i .. Len(head) + 1 :
                               j = Len(head) + 1 \/ head[j] = LineEnd}) - 1)

Rejected == [ok |-> FALSE, name |-> <<>>, file |-> FALSE, filename |-> <<>>, type |-> <<>>]

HeadersOf(head) ==
    LET starts == LineStarts(head)
        of(word) == {i \in starts : i <= Len(head) /\ head[i] = word}
        line(word) == Tail(LineFrom(head, LeastOf(of(word))))
        name == Quoted(line(Disposition))
        filename == Quoted(Tail(name.rest))
    IN IF \/ starts # of(Disposition) \cup of(ContentType)
          \/ Cardinality(of(Disposition)) # 1 \/ Cardinality(of(ContentType)) > 1
       THEN Rejected
       ELSE IF ~name.ok \/ (name.rest # <<>> /\ Head(name.rest) # Filename) THEN Rejected
       ELSE IF name.rest # <<>> /\ (~filename.ok \/ filename.rest # <<>>) THEN Rejected
       ELSE [ok |-> TRUE, name |-> name.text, file |-> name.rest # <<>>,
             filename |-> IF name.rest = <<>> THEN <<>> ELSE filename.text,
             type |-> IF of(ContentType) = {} THEN Untyped ELSE line(ContentType)]

Failure == [ok |-> FALSE, parts |-> <<>>]

(* Parts from a place just after a delimiter. *)
RECURSIVE PartsFrom(_, _, _)
PartsFrom(body, delimiter, i) ==
    LET ends == {j \in i .. Len(body) - 1 : body[j] = LineEnd /\ body[j + 1] = LineEnd}
        end == LeastOf(ends)
        head == HeadersOf(SubSeq(body, i, end - 1))
        found == FindDelimiter(body, delimiter, end + 2, FALSE)
        next == CHOOSE d \in found : TRUE
        part == [name |-> head.name, file |-> head.file, filename |-> head.filename,
                 type |-> IF head.file THEN head.type ELSE Untyped,
                 content |-> SubSeq(body, end + 2, next.start - 2)]
        more == PartsFrom(body, delimiter, next.next)
    IN IF ends = {} \/ ~head.ok \/ found = {} THEN Failure
       ELSE IF next.closing THEN [ok |-> TRUE, parts |-> <<part>>]
       ELSE IF ~more.ok THEN Failure
       ELSE [more EXCEPT !.parts = <<part>> \o @]

ParseMultipart(id, body) ==
    LET delimiter == Delimiter(Boundary(id))
        first == FindDelimiter(body, delimiter, 0, TRUE)
        d == CHOOSE x \in first : TRUE
    IN IF first = {} THEN Failure
       ELSE IF d.closing THEN [ok |-> TRUE, parts |-> <<>>]
       ELSE PartsFrom(body, delimiter, d.next)

(* formData() of a request. Content types are the ids of multipart boundaries, or another.    *)
FormData(request) ==
    IF request.type \in Range(Ids) THEN ParseMultipart(request.type, request.body) ELSE Failure

(* The script goes on with the form it read; each file has a vector of its own. *)
ReadForm(k) ==
    LET read == FormData(sent[k])
        files == {j \in DOMAIN read.parts : read.parts[j].file}
        rank(j) == Cardinality({i \in files : i <= j})
        list == SelectSeq(read.parts, LAMBDA part : part.file)
    IN /\ read.ok /\ Len(read.parts) <= MaxEntries
       /\ memory' = memory \o [j \in DOMAIN list |-> list[j].content]
       /\ form' = [j \in DOMAIN read.parts |->
             LET part == read.parts[j]
             IN [name |-> part.name, file |-> part.file,
                 text |-> IF part.file THEN <<>> ELSE part.content,
                 of |-> IF part.file THEN Len(memory) + rank(j) ELSE 0,
                 type |-> part.type, filename |-> part.filename,
                 ghosts |-> Ghosts(part.content, TRUE, NewKin + j)]]
       /\ UNCHANGED <<blob, sent>>

-----------------------------------------------------------------------------
BodiesInit ==
    /\ memory = <<>> /\ blob = <<>> /\ form = <<>> /\ sent = <<>>
    /\ left \in Budgets

BodiesNext ==
    /\ left.deeds > 0 /\ left' = [left EXCEPT !.deeds = @ - 1]
    /\ \/ \E text \in Strings, label \in Labels : MakeOfText(text, label.type, label.name)
       \/ \E b \in DOMAIN blob, text \in Texts, label \in Labels :
            MakeOfBlob(b, text, label.type, label.name)
       \/ \E b \in DOMAIN blob, s \in Cuts, e \in Cuts, type \in Types :
            Slice(b, s, e, type)
       \/ \E b \in DOMAIN blob, s \in Cuts : SliceFrom(b, s)
       \/ \E b \in DOMAIN blob : Scribble(b, 0, "other")
       \/ \E name \in Names, text \in Strings, set \in BOOLEAN : PutText(name, text, set)
       \/ \E name \in Names, b \in DOMAIN blob, given \in Given \cup {NoName},
             set \in BOOLEAN : PutFile(name, b, given, set)
       \/ \E name \in Names : RemoveEntries(name)
       \/ \E k \in DOMAIN form : GetFile(k)
       \/ \E given \in {"", "text/plain"} \cup {sent[k].type : k \in DOMAIN sent} : Send(given)
       \/ \E k \in DOMAIN sent : ReadForm(k)

BodiesSpec == BodiesInit /\ [][BodiesNext]_bodiesVars

-----------------------------------------------------------------------------
(* A request made of a form, whose content type is its own, gives the same form again: the    *)
(* same entries in their order, with the bytes they had, whatever those are (line ends,       *)
(* dashes, another request with its boundary, or nothing), and by their escaped names.  Names *)
(* with backslashes and control characters are the exceptions: a backslash is taken for an    *)
(* escape, a control character makes formData() reject the form.                              *)
FormArrives ==
    \A k \in DOMAIN sent :
        sent[k].type = sent[k].id /\ sent[k].plain =>
            LET read == FormData(sent[k]) IN read.ok /\ read.parts = sent[k].meant

(* A blob has the bytes it was made of: of its parts, or those that the standard says a slice *)
(* has, for arguments that are not below the negated size; until the script writes into       *)
(* memory that a buffer, a slice, a file or an entry shares with it.  What was copied (a blob *)
(* made of others) is not touched by that.                                                    *)
BlobsKept ==
    /\ \A b \in DOMAIN blob : blob[b].ghosts.sure => Bytes(blob[b]) = blob[b].ghosts.reads
    /\ \A k \in DOMAIN form : form[k].ghosts.sure => Content(form[k]) = form[k].ghosts.reads
=============================================================================

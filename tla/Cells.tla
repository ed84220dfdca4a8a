-------------------------------- MODULE Cells --------------------------------
(* A notebook between the page, which shows its cells, and its file, where they are parts of  *)
(* a multipart text.  A text is a sequence of lines; a line is what the parser tells apart.   *)
EXTENDS Naturals, SequencesExt

CONSTANTS
    Kinds,       \* the kinds of notebooks: "book", "lib", "app"
    Codes,       \* the texts that may be typed into a cell
    MaxCells,    \* bounds the cells of a page
    MaxSteps,    \* bounds what is done to the page
    Nil

ASSUME CellsAssumption ==
    /\ Kinds \subseteq {"book", "lib", "app"} /\ MaxCells \in Nat \ {0} /\ MaxSteps \in Nat
    /\ \A code \in Codes : code \in Seq(STRING) /\ code # <<>>

VARIABLES
    kind,        \* what the notebook is
    files,       \* its files: the .js of a library and the .notojs
    page,        \* the cells shown, if it is open
    run,         \* the cells that a PUT of its results evaluates
    steps,       \* what was done to the page
    book         \* the cells as last stored: a ghost

cellsVars == <<kind, files, page, run, steps, book>>

Edge == "boundary"
End == "boundary--"
Longer == "boundary and more"
Js == "type application/javascript"
Json == "type application/json"
Disabled == "role disabled"
Handler == "role handler"

Boundaries == {Edge, End, Longer}
Types == {Js, Json}
Roles == {Disabled, Handler}

Output == <<"output">>

-----------------------------------------------------------------------------
(* What save and File write. *)
Section(type, role, text) ==
    <<Edge, type>> \o (IF role = Nil THEN <<>> ELSE <<role>>) \o <<"">> \o text

CellLines(cell) ==
    Section(Js, cell.role, cell.code)
        \o (IF cell.body = Nil THEN <<>> ELSE Section(Json, Nil, cell.body))

Written(cells) ==
    FlattenSeq([i \in DOMAIN cells |-> CellLines(cells[i])]) \o <<End>>

(* A library has its first cell in a file of its own, which modules load. *)
Saved(cells) ==
    IF kind = "lib" /\ cells # <<>>
    THEN [js |-> Head(cells).code,
          notojs |-> IF Len(cells) = 1 THEN Nil ELSE Written(Tail(cells))]
    ELSE [files EXCEPT !.notojs = Written(cells)]

-----------------------------------------------------------------------------
(* The part that a boundary ends. *)
EndedBy(open) == IF open = Nil THEN <<>> ELSE <<open>>

(* make_multipart: the parts that a boundary has ended.  After the lines of its header a part *)
(* has an empty one, or the parse stops; a line that only begins as a boundary is taken for a *)
(* line of no part, but ends the one before it.                                               *)
RECURSIVE Parts(_, _)
Parts(lines, open) ==
    LET line == Head(lines)
        typed == Len(lines) > 1 /\ lines[2] \in Types
        role == IF lines[3] \in Roles THEN lines[3] ELSE Nil
        header == IF role = Nil THEN 2 ELSE 3
        FromHere(k) == SubSeq(lines, k, Len(lines))
    IN CASE lines = <<>> -> <<>>
         [] line = Edge /\ typed ->
                EndedBy(open)
                    \o IF lines[header + 1] # "" THEN <<>>
                       ELSE Parts(FromHere(header + 2),
                                  [type |-> lines[2], role |-> role, lines |-> <<>>])
         [] line \in Boundaries /\ ~(line = Edge /\ typed) ->
                EndedBy(open) \o Parts(Tail(lines), Nil)
         [] OTHER ->
                Parts(Tail(lines), IF open = Nil THEN Nil
                                   ELSE [open EXCEPT !.lines = Append(@, line)])

PartsOf(notojs) == IF notojs = Nil THEN <<>> ELSE Parts(notojs, Nil)

(* The text of a part, whose last line break is dropped, or not. *)
CodeOf(part) == IF part.lines = <<>> THEN <<"">> ELSE part.lines
DataOf(part) == Append(part.lines, "")

(* Defect: a role stays for the cells that follow. *)
KeptRole(role) == role

(* A role is given to the next cell only. *)
RoleAfter(role) == Nil

(* Parser<Full>: a part of code makes a cell, one of data is the output of the cell before. *)
RECURSIVE FullFrom(_, _, _)
FullFrom(parts, pending, cells) ==
    IF parts = <<>> THEN cells
    ELSE LET part == Head(parts)
             role == IF part.role = Nil THEN pending ELSE part.role
         IN IF part.type = Js
            THEN FullFrom(Tail(parts), RoleAfter(role),
                          Append(cells, [code |-> CodeOf(part), role |-> role, body |-> Nil]))
            ELSE FullFrom(Tail(parts), role,
                          [cells EXCEPT ![Len(cells)].body = DataOf(part)])

(* load: what the page is given. *)
Loaded ==
    FullFrom(PartsOf(files.notojs), Nil,
             IF kind = "lib" THEN <<[code |-> files.js, role |-> Nil, body |-> Nil]>> ELSE <<>>)

(* eval: the outputs as a page of their own. *)
Outputs ==
    LET data == SelectSeq(PartsOf(files.notojs), LAMBDA part : part.type = Json)
    IN [i \in DOMAIN data |-> DataOf(data[i])]

(* Parser<Code>: the code that is run, up to that of the handler.  consume begins at 2, and a *)
(* handler counts it down to the cell that is the last; from 0 it wraps around.               *)
CountedDown(consume) == IF consume = 0 THEN 4 ELSE IF consume = 4 THEN 4 ELSE consume - 1

RECURSIVE CodeFrom(_, _)
CodeFrom(parts, consume) ==
    IF parts = <<>> THEN <<>>
    ELSE LET part == Head(parts)
             left == IF part.role = Handler THEN CountedDown(consume) ELSE consume
             taken == part.type = Js /\ left # 0
         IN (IF taken THEN <<[code |-> CodeOf(part), off |-> part.role = Disabled]>> ELSE <<>>)
                \o CodeFrom(Tail(parts), IF taken /\ left = 1 THEN 0 ELSE left)

Code == CodeFrom(PartsOf(files.notojs), 2)

-----------------------------------------------------------------------------
(* The page: NJBook, NJCell and NJSide. *)
Cell(role, code, body, active) ==
    [role |-> role, code |-> code, body |-> body, active |-> active,
     busy |-> FALSE]

Empty == Cell("generic", <<"">>, Nil, TRUE)

(* make: a notebook is opened. *)
OpenBook ==
    /\ page = Nil /\ steps < MaxSteps
    /\ page' = IF book = Nil
               THEN <<IF kind = "app" THEN [Empty EXCEPT !.role = "handler"] ELSE Empty>>
               ELSE [i \in DOMAIN Loaded |->
                        LET c == Loaded[i]
                        IN Cell(IF kind = "app" /\ c.role = Handler THEN "handler" ELSE "generic",
                                c.code, c.body, c.role # Disabled)]
    /\ steps' = steps + 1
    /\ UNCHANGED <<kind, files, run, book>>

Close ==
    /\ page # Nil
    /\ page' = Nil
    /\ UNCHANGED <<kind, files, run, steps, book>>

Editing(newPage) ==
    /\ steps < MaxSteps
    /\ steps' = steps + 1
    /\ page' = newPage
    /\ UNCHANGED <<kind, files, run, book>>

(* add_row_above and add_row_below, delete, and the moves; the last cell is replaced. *)
AddCell ==
    /\ page # Nil /\ Len(page) < MaxCells
    /\ \E i \in (IF page[1].role = "input" THEN 2 ELSE 1)..Len(page) + 1 :
         Editing(InsertAt(page, i, Empty))

DeleteCell ==
    /\ page # Nil
    /\ \E i \in DOMAIN page :
         /\ page[i].role # "handler"
         /\ LET rest == RemoveAt(page, i)
            IN Editing(IF \A j \in DOMAIN rest : rest[j].role = "input"
                       THEN Append(rest, Empty) ELSE rest)

MoveCell ==
    /\ page # Nil
    /\ \E i \in 1..Len(page) - 1 :
         /\ {page[i].role, page[i + 1].role} = {"generic"}
         /\ kind = "lib" /\ i = 1 => page[i + 1].active
         /\ Editing([page EXCEPT ![i] = page[i + 1], ![i + 1] = page[i]])

(* book.input: a cell above the others that is not stored. *)
AddInput ==
    /\ page # Nil /\ kind = "book" /\ Len(page) < MaxCells
    /\ \A i \in DOMAIN page : page[i].role # "input"
    /\ Editing(<<[Empty EXCEPT !.role = "input"]>> \o page)

EditCell ==
    /\ page # Nil
    /\ \E i \in DOMAIN page, code \in Codes : Editing([page EXCEPT ![i].code = code])

(* The setter of active: while the cell is evaluated its button has another name, and the     *)
(* setter throws when it has set the attribute, before it drops the output.                   *)
SwitchCell ==
    /\ page # Nil
    /\ \E i \in DOMAIN page :
         /\ page[i].role = "generic" /\ ~(kind = "lib" /\ i = 1)
         /\ LET clean == page[i].active /\ ~page[i].busy
            IN Editing([page EXCEPT ![i].active = ~@, ![i].body = IF clean THEN Nil ELSE @])

CleanCell ==
    /\ page # Nil
    /\ \E i \in DOMAIN page :
         page[i].role = "generic" /\ Editing([page EXCEPT ![i].body = Nil])

(* play: a cell that is off can be run too.  The answer, which is shown at once, is empty when *)
(* the kernel is gone.                                                                        *)
PlayCell ==
    /\ page # Nil
    /\ \E i \in DOMAIN page :
         page[i].role # "input" /\ ~page[i].busy /\ Editing([page EXCEPT ![i].busy = TRUE])

AnswerCell ==
    /\ page # Nil
    /\ \E i \in DOMAIN page, body \in {Output, Nil} :
         /\ page[i].busy
         /\ page' = [page EXCEPT ![i].busy = FALSE, ![i].body = body]
    /\ UNCHANGED <<kind, files, run, steps, book>>

(* json: what is stored of a cell. *)
JsonOf(cell) ==
    IF cell.role = "handler" THEN [code |-> cell.code, role |-> Handler, body |-> Nil]
    ELSE [code |-> cell.code, body |-> cell.body,
          role |-> IF cell.body = Nil /\ ~cell.active THEN Disabled ELSE Nil]

JsonOfPage ==
    LET stored == SelectSeq(page, LAMBDA cell : cell.role # "input")
    IN [i \in DOMAIN stored |-> JsonOf(stored[i])]

Save ==
    /\ page # Nil
    /\ files' = Saved(JsonOfPage) /\ book' = JsonOfPage
    /\ UNCHANGED <<kind, page, run, steps>>

-----------------------------------------------------------------------------
(* PUT of the results: the code is loaded, evaluated elsewhere, and the file is written anew. *)
BeginRun ==
    /\ run = Nil /\ files.notojs # Nil
    /\ run' = Code
    /\ UNCHANGED <<kind, files, page, steps, book>>

Result(c) ==
    [code |-> c.code, role |-> IF c.off THEN Disabled ELSE Nil,
     body |-> IF c.off THEN Nil ELSE Output]

EndRun ==
    /\ run # Nil
    /\ LET cells == [i \in DOMAIN run |-> Result(run[i])]
       IN /\ files' = [files EXCEPT !.notojs = Written(cells)]
          /\ book' = IF kind = "lib" THEN <<Head(book)>> \o cells ELSE cells
    /\ run' = Nil
    /\ UNCHANGED <<kind, page, steps>>

-----------------------------------------------------------------------------
CellsInit ==
    /\ kind \in Kinds
    /\ files = [js |-> Nil, notojs |-> Nil]
    /\ page = Nil /\ run = Nil /\ steps = 0 /\ book = Nil

CellsNext ==
    \/ OpenBook \/ Close \/ Save \/ AddCell \/ DeleteCell \/ MoveCell \/ AddInput \/ EditCell
    \/ SwitchCell \/ CleanCell \/ PlayCell \/ AnswerCell \/ BeginRun \/ EndRun

-----------------------------------------------------------------------------
Plain(code) == \A i \in DOMAIN code : code[i] \notin Boundaries

(* A cell read back is the one stored: its code, its role, and its output, which has gained   *)
(* a line break (Parser<Full>, Folder::save).  A library's file has the code of its first.    *)
ReadBack(cell, stored, inJs) ==
    /\ cell.code = stored.code
    /\ cell.role = IF inJs THEN Nil ELSE stored.role
    /\ cell.body = IF inJs \/ stored.body = Nil THEN Nil ELSE Append(stored.body, "")

(* What was stored is read back in every way it is read: as cells, as outputs, and as code to *)
(* run up to the handler.  A cell with a line that begins as a boundary spoils what follows,  *)
(* and nothing before it (make_multipart and its three parsers against save, File and json).  *)
BookKept ==
    book # Nil =>
        LET InJs(i) == kind = "lib" /\ i = 1
            upTo == CHOOSE n \in 0..Len(book) :
                        /\ \A i \in 1..n : InJs(i) \/ Plain(book[i].code)
                        /\ n < Len(book) => ~InJs(n + 1) /\ ~Plain(book[n + 1].code)
            first == IF kind = "lib" THEN 2 ELSE 1
            inFile == SubSeq(book, first, upTo)
            data == SelectSeq(inFile, LAMBDA c : c.body # Nil)
            handlers == {i \in DOMAIN inFile : inFile[i].role = Handler}
            last == IF handlers = {} THEN Len(inFile) ELSE CHOOSE i \in handlers :
                                                             \A j \in handlers : i <= j
        IN /\ Len(Loaded) >= upTo /\ Len(Outputs) >= Len(data) /\ Len(Code) >= last
           /\ \A i \in 1..upTo : ReadBack(Loaded[i], book[i], InJs(i))
           /\ \A i \in DOMAIN data : Outputs[i] = Append(data[i].body, "")
           /\ \A i \in 1..last :
                Code[i] = [code |-> inFile[i].code, off |-> inFile[i].role = Disabled]
           /\ upTo = Len(book) =>
                /\ Len(Loaded) = upTo /\ Len(Outputs) = Len(data) /\ Len(Code) = last
=============================================================================

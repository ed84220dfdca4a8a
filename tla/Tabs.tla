--------------------------------- MODULE Tabs ---------------------------------
(***************************************************************************)
(* The open books of a page and the files of the server: NJHead and NJSide *)
(* of lib/notojs/bundle/window.js.  A book is a notebook on the page, with *)
(* a link in the side bar; a link's title in italics (`mark`) says that    *)
(* the book has changed.  All that is done to files is asked for by        *)
(* fetch(): the server does it later, in any order, and the page goes on   *)
(* when the answer comes, with what it then finds.                         *)
(***************************************************************************)
EXTENDS Naturals, SequencesExt

CONSTANTS
  BookKinds,    \* the kinds of notebooks: "book", "lib", "app"
  Titles,       \* the titles that users give
  FirstFiles,       \* the files the server has at first, and their texts
  MaxBooks,     \* bounds the books ever made
  MaxDeeds,     \* bounds what users do
  MaxLost       \* bounds the requests and answers that are lost, and the saves that fail

VARIABLES
  books,    \* the books made, and where they are
  opened,   \* the section 'Opened': the books with a link in it, in order
  listing,  \* the other sections: the files as last listed, and what their links show
  folder,   \* the files of the server
  calls,    \* the requests under way, and the answers
  deeds,    \* how much was done and lost, and whether a book without cells was made
  doubt     \* ghost: the books whose mark may say less than it should

tabsVars == <<books, opened, listing, folder, calls, deeds, doubt>>

Untitled == "Untitled"
Unnamed == ""
Hourglass == "hourglass"
NoCells == 0
Blank == 1
NoLink == <<>>

ASSUME TabsAssumption ==
  /\ {Untitled, Unnamed} \cap Titles = {}
  /\ Hourglass \notin BookKinds
  /\ FirstFiles \in [DOMAIN FirstFiles -> Nat]
  /\ \A name \in DOMAIN FirstFiles :
       /\ name = <<name[1], name[2]>> /\ name[1] # Hourglass /\ name[2] # Unnamed
       /\ FirstFiles[name] > MaxDeeds + 1
  /\ MaxBooks \in Nat \ {0} /\ MaxDeeds \in Nat /\ MaxLost \in Nat

-----------------------------------------------------------------------------
(* A page is its books and its links to them.                               *)
Page == [books |-> books, opened |-> opened]
Put(f, x, value) == [y \in {x} \cup DOMAIN f |-> IF y = x THEN value ELSE f[y]]

Present(page) == {b \in DOMAIN page.books : page.books[b].at # "gone"}
OnPage(page) == {b \in DOMAIN page.books : page.books[b].at = "shown"}
Bare(page, b) == page.books[b].text = NoCells

Moved(page, b, at) == [page EXCEPT !.books[b].at = at]

(* The members of s that are in S, in their order.                          *)
Filtered(s, S) ==
  LET places == {i \in DOMAIN s : s[i] \in S}
      place(k) == CHOOSE i \in places : Cardinality({j \in places : j <= i}) = k
  IN [k \in 1..Cardinality(places) |-> s[place(k)]]

Unlinked(page, b) == [page EXCEPT !.opened = Filtered(page.opened, Range(page.opened) \ {b})]

FullName(b) == <<books[b].kind, books[b].name>>
Named(b) == books[b].name # Unnamed

(* #close and #open: the book on the page goes to the tabs, another comes.  *)
PutAway(page) ==
  IF OnPage(page) = {} THEN page ELSE Moved(page, CHOOSE b \in OnPage(page) : TRUE, "tab")

Book(kind, icon, text) ==
  [kind |-> kind, name |-> Unnamed, title |-> Untitled, icon |-> icon, final |-> icon,
   text |-> text, mark |-> FALSE, pack |-> FALSE, at |-> "shown"]

WithBook(page, b, book) ==
  [books |-> Put(page.books, b, book), opened |-> Append(Unlinked(page, b).opened, b)]

Unused(page) == Cardinality(DOMAIN page.books) + 1
Room == Cardinality(DOMAIN books) < MaxBooks

(* make() of a new book.                                                    *)
WithNew(page, kind) == WithBook(PutAway(page), Unused(page), Book(kind, kind, Blank))

(* make() of a file's book: it is put into one that is new, if there is one.*)
Reusable(page) ==
  {b \in Present(page) :
     LET book == page.books[b] IN book.name = Unnamed /\ book.icon # "lib" /\ ~book.mark}

Kind(icon) == IF icon = Hourglass THEN "book" ELSE icon

Filled(icon, text, name) ==
  [Book(Kind(icon), Hourglass, text) EXCEPT
     !.final = icon, !.name = name, !.mark = (name = Unnamed),
     !.title = IF name = Unnamed THEN Untitled ELSE name]

Places(page) == IF Reusable(page) = {} THEN {Unused(page)} ELSE Reusable(page)

(* Defect: it is asked whether the book is shown when it is gone.           *)
WithoutLate(page, b) ==
  LET rest == Unlinked(Moved(page, b, "gone"), b)
  IN IF rest.opened = <<>> THEN WithNew(rest, "book") ELSE rest

(* NJSide.close(link): a page has always a book.                            *)
Without(page, b) ==
  LET rest == Unlinked(Moved(page, b, "gone"), b)
  IN CASE rest.opened = <<>> -> WithNew(rest, "book")
       [] rest.opened # <<>> /\ page.books[b].at = "shown" ->
            Moved(rest, Head(rest.opened), "shown")
       [] OTHER -> rest

(* Showing a book without cells fails, and what was to follow is not done.  *)
ClosedAll(page, doomed) ==
  LET fails(p) == \E c \in OnPage(p) : p # page /\ Bare(p, c)
      after[i \in 0..Len(doomed)] ==
        IF i = 0 THEN page
        ELSE IF fails(after[i - 1]) THEN after[i - 1] ELSE Without(after[i - 1], doomed[i])
  IN after[Len(doomed)]

Becomes(page) == books' = page.books /\ opened' = page.opened
-----------------------------------------------------------------------------
(* Requests.                                                                *)
Ask(what, book, name) ==
  [what |-> what, book |-> book, name |-> name, to |-> name, text |-> NoCells, icon |-> Hourglass,
   link |-> NoLink, names |-> {}, done |-> FALSE, ok |-> TRUE, stale |-> FALSE]

Saving(b) == \E c \in calls : c.what \in {"put", "drop"} /\ c.book = b
Moving(name) == {c \in calls : c.what = "move" /\ c.name = name /\ c.done /\ c.ok /\ c.to # name}

(* save(b, f): the file of another name goes first.  The name of a library  *)
(* or an application, which is its file's, is never its title.              *)
HasOtherName(book) == book.name # Unnamed /\ (book.kind # "book" \/ book.name # book.title)

SaveBook(b, page, f, others) ==
  LET book == page.books[b]
  IN IF HasOtherName(book) /\ ~f
     THEN /\ Becomes(page)
          /\ calls' = others \cup {Ask("drop", b, <<book.kind, book.name>>)}
          /\ doubt' = IF Saving(b) THEN doubt \cup {b} ELSE doubt
     ELSE /\ Becomes([page EXCEPT !.books[b].name = book.title])
          /\ calls' = others \cup
               {[Ask("put", b, <<book.kind, book.title>>) EXCEPT !.text = book.text]}
          /\ doubt' = IF Saving(b) \/ book.name # book.title THEN doubt \cup {b} ELSE doubt

-----------------------------------------------------------------------------
(* What users do with books.                                                *)
Deed == deeds.done < MaxDeeds /\ deeds' = [deeds EXCEPT !.done = @ + 1]

New(kind) ==
  /\ Deed /\ Room
  /\ Becomes(WithNew(Page, kind))
  /\ UNCHANGED <<listing, folder, calls, doubt>>

(* Each text that is typed is another.                                      *)
Type(b) ==
  /\ Deed
  /\ books[b].at = "shown" /\ ~books[b].pack /\ books[b].text # NoCells
  /\ books' = [books EXCEPT ![b].text = deeds'.done + 1, ![b].mark = TRUE]
  /\ UNCHANGED <<opened, listing, folder, calls, doubt>>

Active(b) == Contains(opened, b) /\ books[b].at = "shown" /\ ~books[b].pack

ClickIcon(b) ==
  /\ Deed
  /\ Active(b) /\ Named(b)
  /\ SaveBook(b, Page, FALSE, calls)
  /\ UNCHANGED <<listing, folder>>

Retitle(b, title) ==
  /\ Deed
  /\ Active(b) /\ books[b].title # title
  /\ SaveBook(b, [Page EXCEPT !.books[b].title = title], FALSE, calls)
  /\ UNCHANGED <<listing, folder>>

SwitchTo(b) ==
  /\ Deed
  /\ Contains(opened, b) /\ books[b].at = "tab"
  /\ Becomes(Moved(PutAway(Page), b, "shown"))
  /\ UNCHANGED <<listing, folder, calls, doubt>>

CloseTab(b) ==
  /\ Deed /\ Room
  /\ Contains(opened, b)
  /\ Becomes(Without(Page, b))
  /\ UNCHANGED <<listing, folder, calls, doubt>>

(* The packages are shown as a book, unless they are.  Each of the books    *)
(* must have cells, or this stops where it finds out.                       *)
EditPackages ==
  /\ Deed /\ Room
  /\ \A b \in OnPage(Page) : ~books[b].pack /\ ~Bare(Page, b)
  /\ LET page == PutAway(Page)
         packs == {b \in Present(page) : books[b].pack}
         b == Unused(page)
     IN IF \E c \in Present(page) : Bare(page, c)
        THEN Becomes(page) /\ UNCHANGED calls
        ELSE IF packs # {}
        THEN (\E c \in packs : Becomes(Moved(page, c, "shown"))) /\ UNCHANGED calls
        ELSE /\ Becomes(WithBook(page, b,
                   [Book("book", Hourglass, Blank) EXCEPT !.title = "Packages", !.pack = TRUE]))
             /\ calls' = calls \cup {Ask("packages", b, NoLink)}
  /\ UNCHANGED <<listing, folder, doubt>>

(* What users do with files, by the links of the other sections.            *)
Shows(link) == <<Kind(listing[link].icon), listing[link].title>>

OpenFile(link) ==
  /\ Deed
  /\ calls' = calls \cup {[Ask("get", 0, Shows(link)) EXCEPT
       !.icon = listing[link].icon, !.link = link]}
  /\ listing' = [listing EXCEPT ![link].icon = Hourglass]
  /\ UNCHANGED <<books, opened, folder, doubt>>

CopyFile(link) ==
  /\ Deed
  /\ calls' = calls \cup {[Ask("copy", 0, Shows(link)) EXCEPT !.icon = listing[link].icon]}
  /\ UNCHANGED <<books, opened, listing, folder, doubt>>

RemoveFile(link) ==
  /\ Deed
  /\ calls' = calls \cup {[Ask("remove", 0, Shows(link)) EXCEPT !.link = link]}
  /\ UNCHANGED <<books, opened, listing, folder, doubt>>

RenameFile(link, title) ==
  /\ Deed
  /\ calls' = calls \cup {[Ask("move", 0, Shows(link)) EXCEPT
       !.to = <<Kind(listing[link].icon), title>>, !.icon = listing[link].icon, !.link = link]}
  /\ listing' = [listing EXCEPT ![link].title = title]
  /\ UNCHANGED <<books, opened, folder, doubt>>

OpenSide ==
  /\ Deed
  /\ calls' = calls \cup {Ask("list", 0, NoLink)}
  /\ UNCHANGED <<books, opened, listing, folder, doubt>>

-----------------------------------------------------------------------------
(* What the server does.                                                    *)
Exists(name) == name \in DOMAIN folder

Changed(c) ==
  CASE c.what = "put" -> {c.name}
    [] c.what \in {"drop", "remove"} /\ Exists(c.name) -> {c.name}
    [] c.what = "move" /\ Exists(c.name) /\ c.to # c.name -> {c.name, c.to}
    [] OTHER -> {}

(* A request is done: Folder answers as it finds the file.                  *)
Done(c) ==
  [c EXCEPT
     !.done = TRUE,
     !.ok = c.what \notin {"drop", "remove", "move"} \/ Exists(c.name),
     !.text = IF c.what \notin {"get", "copy"} THEN @
              ELSE IF Exists(c.name) THEN folder[c.name] ELSE NoCells,
     !.names = IF c.what = "list" THEN DOMAIN folder ELSE {}]

FolderAfter(c) ==
  LET others == Restrict(folder, DOMAIN folder \ {c.name})
  IN CASE c.what = "put" -> Put(folder, c.name, c.text)
       [] c.what \in {"drop", "remove"} -> others
       [] c.what = "move" /\ Exists(c.name) -> Put(others, c.to, folder[c.name])
       [] OTHER -> folder

(* Ghost: the books of a file, or soon by a rename; the one that a save     *)
(* leaves with its text in its file, or marked as long as it is not         *)
(* answered, and nothing else under way.                                    *)
Of(name) == {b \in DOMAIN books : Named(b) /\ FullName(b) = name}

Touched(name) ==
  Of(name) \cup {b \in DOMAIN books : \E c \in Moving(FullName(b)) : c.to = name}

Follow(c) == IF c.what = "move" THEN Of(c.name) ELSE {}

SavedWell(c) ==
  {b \in Of(c.name) :
     /\ c.what = "put" /\ b = c.book /\ (books[b].mark \/ books[b].text = c.text)
     /\ Moving(c.name) = {}
     /\ \A d \in calls \ {c} : d.what \in {"put", "drop"} => d.book # b}

Replied(c, answer, changed) ==
  {answer} \cup
  {[d EXCEPT !.stale = @ \/ (d.what = "get" /\ d.done /\ d.name \in changed)] :
     d \in calls \ {c}}

Serve(c) ==
  /\ ~c.done
  /\ folder' = FolderAfter(c)
  /\ calls' = Replied(c, Done(c), Changed(c))
  /\ doubt' = (doubt \cup ((UNION {Touched(x) : x \in Changed(c)}) \ Follow(c))) \ SavedWell(c)
  /\ UNCHANGED <<books, opened, listing, deeds>>

Mishap == deeds.lost < MaxLost /\ deeds' = [deeds EXCEPT !.lost = @ + 1]

(* A save fails: it is answered 404 or 500, or 200 though the file could    *)
(* not be written.  Where it failed halfway there is no file any more.      *)
SaveFails(c) ==
  /\ Mishap
  /\ c.what = "put" /\ ~c.done
  /\ \E gone \in SUBSET ({c.name} \cap DOMAIN folder) :
       /\ folder' = Restrict(folder, DOMAIN folder \ gone)
       /\ calls' = Replied(c, [c EXCEPT !.done = TRUE, !.ok = FALSE], gone)
       /\ doubt' = doubt \cup UNION {Touched(x) : x \in gone}
  /\ UNCHANGED <<books, opened, listing>>

(* A request or its answer is lost: fetch() is rejected, and that is all.   *)
Lost(c) ==
  /\ Mishap
  /\ calls' = calls \ {c}
  /\ doubt' = IF c \in Moving(c.name) THEN doubt \cup Touched(c.name) ELSE doubt
  /\ UNCHANGED <<books, opened, listing, folder>>

-----------------------------------------------------------------------------
(* What the page does with an answer.                                       *)
Came(c, what) == c.what = what /\ c.done

(* A link that is no longer shown keeps its title.                          *)
Detached(those, links) ==
  {IF c.link \in links \cap DOMAIN listing
   THEN [c EXCEPT !.link = <<"gone", listing[c.link].title>>] ELSE c :
     c \in those}

(* The other books of the same file lose their links, and no more; the mark *)
(* goes, whatever the answer is and whatever became of the book meanwhile;  *)
(* the files are listed anew.                                               *)
OnPut(c) ==
  /\ Came(c, "put")
  /\ opened' = Filtered(opened, {b \in Range(opened) :
                  b = c.book \/ ~Named(b) \/ FullName(b) # FullName(c.book)})
  /\ books' = [books EXCEPT ![c.book].mark = FALSE]
  /\ calls' = (calls \ {c}) \cup {Ask("list", 0, NoLink)}
  /\ doubt' = IF c.ok /\ books[c.book].text = c.text THEN doubt ELSE doubt \cup {c.book}
  /\ UNCHANGED <<listing, folder, deeds>>

OnDrop(c) ==
  /\ Came(c, "drop")
  /\ IF c.ok THEN SaveBook(c.book, Page, TRUE, calls \ {c})
             ELSE calls' = calls \ {c} /\ UNCHANGED <<books, opened, doubt>>
  /\ UNCHANGED <<listing, folder, deeds>>

(* The books the file is open in go, and another comes.                     *)
Reopened(page, c) ==
  LET old == {b \in Range(page.opened) : b \in Of(c.name) /\ page.books[b].icon = c.icon}
  IN [books |-> [b \in DOMAIN page.books |->
                   IF b \in old THEN [page.books[b] EXCEPT !.at = "gone"] ELSE page.books[b]],
      opened |-> Filtered(page.opened, Range(page.opened) \ old)]

Opens(c, page, name) ==
  \E b \in Places(PutAway(page)) :
    /\ b = Unused(page) => Room
    /\ Becomes(WithBook(PutAway(page), b, Filled(c.icon, c.text, name)))
    /\ doubt' = IF c.stale \/ c.text = NoCells \/ Moving(c.name) # {}
                THEN doubt \cup {b} ELSE doubt \ {b}
    /\ deeds' = [deeds EXCEPT !.bare = @ \/ c.text = NoCells]

OnGet(c) ==
  /\ Came(c, "get")
  /\ Opens(c, Reopened(Page, c), c.name[2])
  /\ listing' = IF c.link \in DOMAIN listing THEN [listing EXCEPT ![c.link].icon = c.icon]
                ELSE listing
  /\ calls' = calls \ {c}
  /\ UNCHANGED folder

OnCopy(c) ==
  /\ Came(c, "copy")
  /\ Opens(c, Page, Unnamed)
  /\ calls' = calls \ {c}
  /\ UNCHANGED <<listing, folder>>

(* Its cells have all been rendered.                                        *)
Rendered(b) ==
  /\ books[b].icon = Hourglass /\ books[b].final # Hourglass /\ books[b].text # NoCells
  /\ books' = [books EXCEPT ![b].icon = books[b].final]
  /\ UNCHANGED <<opened, listing, folder, calls, deeds, doubt>>

OnRemoved(c) ==
  /\ Came(c, "remove")
  /\ Room
  /\ IF c.ok
     THEN /\ Becomes(ClosedAll(Page, Filtered(opened, Of(c.name))))
          /\ listing' = Restrict(listing, DOMAIN listing \ {c.link})
          /\ calls' = Detached(calls \ {c}, {c.link})
     ELSE calls' = calls \ {c} /\ UNCHANGED <<books, opened, listing>>
  /\ UNCHANGED <<folder, deeds, doubt>>

(* Defect: a renamed book gets the title alone.                             *)
TitleOf(book, title) == [book EXCEPT !.title = title]

Renamed(book, title) == [book EXCEPT !.name = title, !.title = title]

(* The books take the title their file's link has now.                      *)
OnMoved(c) ==
  /\ Came(c, "move")
  /\ LET title == IF c.link \in DOMAIN listing THEN listing[c.link].title ELSE c.link[2]
         follow == {b \in Range(opened) : b \in Of(c.name) /\ books[b].icon = c.icon}
     IN IF ~c.ok THEN UNCHANGED <<books, doubt>>
        ELSE /\ books' = [b \in DOMAIN books |->
                  IF b \in follow THEN Renamed(books[b], title) ELSE books[b]]
             /\ doubt' = doubt \cup (Of(c.name) \ follow)
                  \cup {b \in follow : title # c.to[2] \/ Saving(b) \/ Moving(c.to) # {}}
  /\ calls' = calls \ {c}
  /\ UNCHANGED <<opened, listing, folder, deeds>>

OnListed(c) ==
  /\ Came(c, "list")
  /\ listing' = [name \in c.names |-> [icon |-> name[1], title |-> name[2]]]
  /\ calls' = Detached(calls \ {c}, DOMAIN listing)
  /\ UNCHANGED <<books, opened, folder, deeds, doubt>>

(* By then a file may have been opened in the book of the packages.         *)
OnPackages(c) ==
  /\ Came(c, "packages")
  /\ books' = [books EXCEPT ![c.book].icon = "lib"]
  /\ calls' = calls \ {c}
  /\ UNCHANGED <<opened, listing, folder, deeds, doubt>>

-----------------------------------------------------------------------------
TabsInit ==
  /\ books = [b \in {1} |-> Book("book", "book", Blank)] /\ opened = <<1>>
  /\ listing = [name \in DOMAIN FirstFiles |-> [icon |-> name[1], title |-> name[2]]]
  /\ folder = FirstFiles
  /\ calls = {}
  /\ deeds = [done |-> 0, lost |-> 0, bare |-> FALSE]
  /\ doubt = {}

TabsNext ==
  \/ \E kind \in BookKinds : New(kind)
  \/ \E b \in DOMAIN books :
       \/ Type(b) \/ ClickIcon(b) \/ SwitchTo(b) \/ CloseTab(b) \/ Rendered(b)
       \/ \E title \in Titles : Retitle(b, title)
  \/ EditPackages \/ OpenSide
  \/ \E link \in DOMAIN listing :
       \/ OpenFile(link) \/ CopyFile(link) \/ RemoveFile(link)
       \/ \E title \in Titles : RenameFile(link, title)
  \/ \E c \in calls :
       \/ Serve(c) \/ SaveFails(c) \/ Lost(c)
       \/ OnPut(c) \/ OnDrop(c) \/ OnGet(c) \/ OnCopy(c) \/ OnRemoved(c) \/ OnMoved(c)
       \/ OnListed(c) \/ OnPackages(c)

TabsSpec == TabsInit /\ [][TabsNext]_tabsVars

-----------------------------------------------------------------------------
(* One book is on the page, and never two.  (A book without cells can leave *)
(* none there: what is to follow its being looked at is not done.)          *)
OneShown ==
  /\ Cardinality(OnPage(Page)) <= 1
  /\ ~deeds.bare => OnPage(Page) # {}

(* The mark: a book whose title is not in italics, and whose file is not    *)
(* being renamed, is in its file as it is on the page.  It is not so        *)
(* (`doubt`) when something else was done to the file, when a book is saved *)
(* while it is being saved, or under a new name until that is done, and     *)
(* when the answer to a save takes the mark though the save failed or the   *)
(* text is no longer the one that was sent (window.js:129-133).             *)
MarkHonest ==
  \A b \in Range(opened) :
    Named(b) /\ ~books[b].mark /\ b \notin doubt /\ Moving(FullName(b)) = {} =>
      Exists(FullName(b)) /\ folder[FullName(b)] = books[b].text

(* One book is shown, and a book that is not marked is in its file as it is *)
(* on the page (NJHead, NJSide).                                            *)
PageHonest == OneShown /\ MarkHonest

(* ui.md:104: "The notebook name is *italicized* if it has unsaved          *)
(* changes."  So an open book that is not in its file as it is on the page  *)
(* is marked, once no request is under way that could change that.  What    *)
(* is typed while the book is saved loses its mark when the answer comes    *)
(* (NJHead.save, window.js:129-133).                                        *)
UnsavedMarked ==
  {c \in calls : c.what \in {"put", "drop", "remove", "move"}} = {} =>
    \A b \in Range(opened) :
      Named(b) /\ ~books[b].mark =>
        Exists(FullName(b)) /\ folder[FullName(b)] = books[b].text
=============================================================================

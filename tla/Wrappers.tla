------------------------------ MODULE Wrappers -------------------------------
(* The objects that wrap native values in a script (sdk/bridge.hpp: Interface, Strong,        *)
(* Iterator, and the functions of objects whose properties are the native's).  A wrapper has  *)
(* a native value itself or refers to a place in one that another wrapper has; what it refers *)
(* to is kept by its property ".allocator".  The classes, their upcasts and the overloads are *)
(* in Calls.                                                                                  *)
EXTENDS Naturals, FiniteSets

CONSTANTS
    MaxObjects,  \* bounds the objects a script makes, named 1 .. MaxObjects
    MaxDeeds,    \* and what it does
    Contents,    \* contents of a native value
    Names,       \* names of properties
    Readable,    \* those that the prototype has a getter or a value for
    Writable,    \* those it has a setter for
    None         \* nothing

VARIABLES
    object,      \* the objects that are there
    named,       \* those the script names
    native,      \* the contents of the native values that objects have themselves
    entries,     \* the entries of a native whose properties are its entries
    showing,       \* whose value each object was made to show, and what it was last given (ghost)
    wanted,      \* what the script left under each name (ghost)
    acts

wrappersVars == <<object, named, native, entries, showing, wanted, acts>>

-----------------------------------------------------------------------------
(* `place` is the object in whose native value this one's is, itself or another; `keeps` are  *)
(* the objects it holds: its ".allocator", or an iterator's owner.                            *)
Object(place, keeps) == [place |-> place, keeps |-> keeps, walks |-> FALSE, loose |-> FALSE]
Walker(place, keeps) == [place |-> place, keeps |-> keeps, walks |-> TRUE, loose |-> FALSE]

\* Defect: nothing holds the object referred to.
Unallocated(w) == {}
Allocator(w) == {w}

\* Defect: an iterator only has its two positions.
Ownerless(w) == {}
Owner(w) == {w}

(* What a constructor is given it takes a reference to, with a hold on the object; release    *)
(* makes the reference a value and lets go of the object.                                     *)
\* Defect: the reference stays.
StillReferring(new, w) == Object(object[w].place, {})
Released(new, w) == Object(new, {})

New == Cardinality(DOMAIN showing) + 1

(* The native value is there as long as the object that has it. *)
Dangling(w) == object[w].place \notin DOMAIN object
Usable == {w \in named : ~Dangling(w) /\ ~object[w].walks}

Reached(objects, from) ==
    LET More(S) == S \cup UNION {objects[w].keeps : w \in S}
    IN More(More(More(from)))

(* References are counted: an object nothing holds is finalised, its own native with it.      *)
Finalised(objects, names) ==
    /\ object' = [w \in Reached(objects, names) |-> objects[w]]
    /\ native' = [w \in Reached(objects, names) |-> native[w]]
    /\ named' = names

Added(f, w, x) == [v \in DOMAIN f \cup {w} |-> IF v = w THEN x ELSE f[v]]

Created(wrapper, content) ==
    /\ New <= MaxObjects
    /\ object' = Added(object, New, wrapper)
    /\ native' = Added(native, New, content)
    /\ named' = named \cup {New}
    /\ UNCHANGED <<entries, wanted>>

-----------------------------------------------------------------------------
WrappersInit ==
    /\ object = <<>> /\ named = {} /\ native = <<>>
    /\ entries = [n \in Names |-> None] /\ wanted = entries
    /\ showing = <<>> /\ acts = 0

(* A constructor, and from() with a value: the object has its value itself. *)
Make(c) ==
    /\ Created(Object(New, {}), c)
    /\ showing' = Added(showing, New, [of |-> New, content |-> c])

(* from() with a reference: a place in the value that w shows, and w as allocator. *)
Refer(w) ==
    /\ Created(Object(object[w].place, Allocator(w)), None)
    /\ showing' = Added(showing, New, [of |-> showing[w].of, content |-> None])

(* An iterator over the value that w shows. *)
Iterate(w) ==
    /\ Created(Walker(object[w].place, Owner(w)), None)
    /\ showing' = Added(showing, New, [of |-> showing[w].of, content |-> None])

(* A constructor that is given an object copies its value. *)
Copy(w) ==
    /\ Created(Released(New, w), native[object[w].place])
    /\ showing' = Added(showing, New, [of |-> New, content |-> showing[showing[w].of].content])

(* A method or a setter of the class, or of one it derives from, changes the value in place.  *)
Change(w, c) ==
    /\ native' = [native EXCEPT ![object[w].place] = c]
    /\ showing' = [showing EXCEPT ![showing[w].of].content = c]
    /\ UNCHANGED <<object, named, entries, wanted>>

(* A setter that takes an object of the class: the value of one becomes that of the other.    *)
Assign(w, v) ==
    /\ native' = [native EXCEPT ![object[w].place] = native[object[v].place]]
    /\ showing' = [showing EXCEPT ![showing[w].of].content = showing[showing[v].of].content]
    /\ UNCHANGED <<object, named, entries, wanted>>

Forget(w) == Finalised(object, named \ {w}) /\ UNCHANGED <<entries, showing, wanted>>

(* ".allocator" is configurable: a script may delete it. *)
Loosen(w) ==
    /\ object[w].keeps # {} /\ ~object[w].walks
    /\ Finalised([object EXCEPT ![w].keeps = {}, ![w].loose = TRUE], named)
    /\ UNCHANGED <<entries, showing, wanted>>

-----------------------------------------------------------------------------
(* Properties of a native with entries: those of its own prototype come first.                *)
Proto == Readable \cup Writable

\* Defect: the prototype is asked only for what can be read.
ShadowedReadable == Readable
Shadowed == Proto

GetProperty(n) == IF n \in Shadowed THEN n ELSE entries[n]
HasProperty(n) == n \in Shadowed \/ entries[n] # None

SetProperty(n, c) ==
    /\ entries' = IF n \in Shadowed THEN entries ELSE [entries EXCEPT ![n] = c]
    /\ wanted' = IF n \in Proto THEN wanted ELSE [wanted EXCEPT ![n] = c]
    /\ UNCHANGED <<object, named, native, showing>>

DeleteProperty(n) ==
    /\ entries' = IF n \in Shadowed THEN entries ELSE [entries EXCEPT ![n] = None]
    /\ wanted' = IF n \in Proto THEN wanted ELSE [wanted EXCEPT ![n] = None]
    /\ UNCHANGED <<object, named, native, showing>>

-----------------------------------------------------------------------------
WrappersNext ==
    /\ acts < MaxDeeds /\ acts' = acts + 1
    /\ \/ \E c \in Contents : Make(c)
       \/ \E w \in Usable : Refer(w) \/ Iterate(w) \/ Copy(w)
       \/ \E w \in Usable, c \in Contents : Change(w, c)
       \/ \E w, v \in Usable : Assign(w, v)
       \/ \E w \in named : Forget(w) \/ Loosen(w)
       \/ \E n \in Names, c \in Contents : SetProperty(n, c)
       \/ \E n \in Names : DeleteProperty(n)

-----------------------------------------------------------------------------
(* An object that can be used shows a value that is there: the value it was made to show,     *)
(* with what it was last given through whatever object, and copies are apart.  (Unless the    *)
(* script deleted the ".allocator" of it or of one it holds.)                                 *)
ValuesKept ==
    \A w \in DOMAIN object :
        (\A v \in Reached(object, {w}) : ~object[v].loose) =>
            /\ ~Dangling(w)
            /\ native[object[w].place] = showing[showing[w].of].content

(* What a script sets under a name it finds there, and the prototype's names stay its own.    *)
NamesKept ==
    \A n \in Names :
        /\ n \in Proto => entries[n] = None /\ GetProperty(n) = n
        /\ n \notin Proto => GetProperty(n) = wanted[n]
        /\ HasProperty(n) = (n \in Proto \/ wanted[n] # None)
=============================================================================

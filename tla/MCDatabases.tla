----------------------------- MODULE MCDatabases -----------------------------
(* Two kernels with a script each, and the server's disk thread with storage requests. *)
EXTENDS Databases

CONSTANTS s1, s2, r, one, two

Homes == [t \in {s1, s2, r} |-> IF t = r THEN "server" ELSE IF t = s1 THEN "one" ELSE "two"]

Number(n) == [type |-> "number", n |-> n]
String(s) == [type |-> "string", s |-> s]

Play(a, b, c, user, keys) ==
    [calls |-> [t \in {s1, s2, r} |-> IF t = s1 THEN a ELSE IF t = s2 THEN b ELSE c],
     user |-> user, keys |-> keys]

(* Two databases that are changed together, read, and dropped; *)
Transactions ==
    Play(<<{"rw", "drop"}>>, <<{"rw", "ro"}, {"rw", "ro", "drop"}>>, <<{"put"}>>,
         {one, two}, {Number(-1), String(<<1>>)})

(* a function that goes over the keys and changes them; *)
Iteration ==
    Play(<<{"rw", "ro"}, {"each"}>>, <<>>, <<>>,
         {one}, {Number(-1), Number(1), String(<<1>>)})

(* the Storage API beside the requests for it; *)
Requests ==
    Play(<<{"ro", "rw", "set", "remove", "clear"}, {"set", "read"}>>, <<{"clear", "read"}>>,
         <<{"put", "erase", "wipe"}>>, {one}, {Number(1)})

(* the file. *)
File ==
    Play(<<{"data", "rw"}, {"data"}>>, <<{"data"}>>, <<{"put"}>>, {one}, {Number(1)})

(* Nothing. *)
Still == Play(<<>>, <<>>, <<>>, {one}, {})

AllPlays == {Transactions, Iteration, Requests, File, Still}
=============================================================================

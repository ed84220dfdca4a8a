------------------------------ MODULE Outline -------------------------------
(* The data of an SVG path and the segments that are made of it                               *)
(* (svg_element/svg_path_element.hxx).  Numbers are integers, and a curve is its points: how  *)
(* curves are cut into 32 lines, and arcs into theirs, is left out.                           *)
EXTENDS Integers, Sequences, SequencesExt

CONSTANTS
    Letters,     \* the commands in the data
    Numbers,     \* the numbers after a command, as many as it takes
    Counts,      \* how many numbers may follow without a command
    MaxChunks    \* bounds the commands and what follows without one

VARIABLES
    data,        \* the d attribute, in commands and numbers
    chunks

outlineVars == <<data, chunks>>

Letter(c) == [letter |-> c, n |-> 0]
Number(n) == [letter |-> "", n |-> n]
IsLetter(token) == token.letter # ""

Arity == [c \in {"M", "L", "H", "V", "C", "S", "Q", "T", "A", "Z"} |->
            CASE c \in {"M", "L", "T"} -> 2 [] c \in {"H", "V"} -> 1 [] c = "C" -> 6
              [] c \in {"S", "Q"} -> 4 [] c = "A" -> 7 [] c = "Z" -> 0]

Upper == [m |-> "M", l |-> "L", h |-> "H", v |-> "V", c |-> "C", s |-> "S", q |-> "Q",
          t |-> "T", a |-> "A", z |-> "Z"]
Supported == DOMAIN Arity \cup DOMAIN Upper
Relative(c) == c \in DOMAIN Upper
Kind(c) == IF Relative(c) THEN Upper[c] ELSE c

-----------------------------------------------------------------------------
(* What the parser holds: the command that numbers without one belong to, the current point   *)
(* and the start of the subpath, and the control points that S and T reflect, if any.         *)
Origin == <<0, 0>>
Nowhere == [cmd |-> "", current |-> Origin, start |-> Origin, have |-> FALSE,
            cubic |-> Origin, cubicValid |-> FALSE, quadratic |-> Origin,
            quadraticValid |-> FALSE, segments |-> <<>>, error |-> ""]

Plus(p, q) == <<p[1] + q[1], p[2] + q[2]>>
Reflect(current, control) ==
    <<2 * current[1] - control[1], 2 * current[2] - control[2]>>

Segment(kind, points) == [kind |-> kind, points |-> points]

(* The k-th pair of numbers as a point. *)
PointAt(at, rel, args, k) ==
    LET p == <<args[2 * k - 1], args[2 * k]>> IN IF rel THEN Plus(at.current, p) ELSE p

\* Defect: the control points stay after a line.
ResetNone(at) == at
Reset(at) == [at EXCEPT !.cubicValid = FALSE, !.quadraticValid = FALSE]

LineTo(at, next) ==
    Reset([at EXCEPT !.segments = Append(@, Segment("L", <<at.current, next>>)),
                     !.current = next])

CubicTo(at, c1, c2, next) ==
    [at EXCEPT !.segments = Append(@, Segment("C", <<at.current, c1, c2, next>>)),
               !.current = next, !.cubic = c2, !.cubicValid = TRUE,
               !.quadraticValid = FALSE]

\* Defect: the last cubic control point stays valid.
BothValid(at) == at
CubicEnds(at) == [at EXCEPT !.cubicValid = FALSE]

QuadraticTo(at, c1, next) ==
    CubicEnds([at EXCEPT !.segments = Append(@, Segment("Q", <<at.current, c1, next>>)),
                         !.current = next, !.quadratic = c1, !.quadraticValid = TRUE])

(* An arc to where it begins is none; one without a radius is a line. *)
Arc(from, args, next) ==
    IF next = from THEN <<>>
    ELSE IF args[1] = 0 \/ args[2] = 0 THEN <<Segment("L", <<from, next>>)>>
    ELSE <<Segment("A", <<from, SubSeq(args, 1, 5), next>>)>>

ArcTo(at, args, next) ==
    Reset([at EXCEPT !.segments = @ \o Arc(at.current, args, next), !.current = next])

(* The first pair of a move is relative only to a point that there is; the pairs after it are *)
(* lines.                                                                                     *)
MoveTo(at, rel, args) ==
    LET next == PointAt(at, rel /\ at.have, args, 1)
    IN Reset([at EXCEPT !.current = next, !.start = next, !.have = TRUE,
                        !.cmd = IF rel THEN "l" ELSE "L"])

\* Defect: closing leaves the point where it is.
StaysThere(at) == [LineTo(at, at.start) EXCEPT !.current = at.current, !.cmd = ""]
Close(at) == [LineTo(at, at.start) EXCEPT !.cmd = ""]

(* A command and the numbers of one of its uses. *)
Apply(at, args) ==
    LET rel == Relative(at.cmd)
        kind == Kind(at.cmd)
        p(k) == PointAt(at, rel, args, k)
    IN CASE kind = "M" -> MoveTo(at, rel, args)
         [] kind = "L" -> LineTo(at, p(1))
         [] kind = "H" ->
              LineTo(at, <<IF rel THEN at.current[1] + args[1] ELSE args[1], at.current[2]>>)
         [] kind = "V" ->
              LineTo(at, <<at.current[1], IF rel THEN at.current[2] + args[1] ELSE args[1]>>)
         [] kind = "C" -> CubicTo(at, p(1), p(2), p(3))
         [] kind = "S" ->
              CubicTo(at, IF at.cubicValid THEN Reflect(at.current, at.cubic) ELSE at.current,
                      p(1), p(2))
         [] kind = "Q" -> QuadraticTo(at, p(1), p(2))
         [] kind = "T" ->
              QuadraticTo(at, IF at.quadraticValid THEN Reflect(at.current, at.quadratic)
                              ELSE at.current, p(1))
         [] kind = "A" ->
              ArcTo(at, args, IF rel THEN Plus(at.current, <<args[6], args[7]>>)
                              ELSE <<args[6], args[7]>>)
         [] kind = "Z" -> Close(at)

Fails(at, error) == [at EXCEPT !.error = error]

(* parse(): the numbers a command takes must be there, and more of them repeat it.  Each use  *)
(* but of a move needs a current point.                                                       *)
RECURSIVE ParseFrom(_, _)
ParseFrom(at, rest) ==
    LET here == IF IsLetter(Head(rest)) THEN [at EXCEPT !.cmd = Head(rest).letter] ELSE at
        args == IF IsLetter(Head(rest)) THEN Tail(rest) ELSE rest
        arity == Arity[Kind(here.cmd)]
    IN IF rest = <<>> THEN at
       ELSE IF IsLetter(Head(rest)) /\ Head(rest).letter \notin Supported
       THEN Fails(at, "unsupported")
       ELSE IF here.cmd = "" THEN Fails(at, "invalid")
       ELSE IF Kind(here.cmd) # "M" /\ ~here.have THEN Fails(at, "invalid")
       ELSE IF \/ Len(args) < arity
               \/ \E k \in 1 .. arity : IsLetter(args[k]) THEN Fails(at, "invalid")
       ELSE ParseFrom(Apply(here, [k \in 1 .. arity |-> args[k].n]),
                      SubSeq(args, arity + 1, Len(args)))

Parsed == ParseFrom(Nowhere, data)

-----------------------------------------------------------------------------
(* getPointAtLength, of lines that go up, down or across: lengths of others are not integers. *)
Abs(n) == IF n < 0 THEN -n ELSE n
Extent(segment) ==
    Abs(segment.points[2][1] - segment.points[1][1])
        + Abs(segment.points[2][2] - segment.points[1][2])
Straight(segment) ==
    /\ segment.kind = "L"
    /\ \E k \in 1 .. 2 : segment.points[1][k] = segment.points[2][k]

RECURSIVE Total(_)
Total(segments) == IF segments = <<>> THEN 0 ELSE Extent(Head(segments)) + Total(Tail(segments))

Along(segment, d) ==
    LET a == segment.points[1]
        b == segment.points[2]
        toward(k) == IF b[k] > a[k] THEN d ELSE IF b[k] < a[k] THEN -d ELSE 0
    IN <<a[1] + toward(1), a[2] + toward(2)>>

\* Defect: what is left of the distance is not counted down.
AlongAll(segments, d) == d
LeftAfter(segments, d) == d - Extent(Head(segments))

RECURSIVE PointAlong(_, _)
PointAlong(segments, d) ==
    IF segments = <<>> THEN Origin
    ELSE IF d <= Extent(Head(segments)) \/ Len(segments) = 1 THEN Along(Head(segments), d)
    ELSE PointAlong(Tail(segments), LeftAfter(segments, d))

(* The distance is cut to what the path has. *)
GetPointAtLength(segments, distance) ==
    PointAlong(segments, IF distance < 0 THEN 0
                         ELSE IF distance > Total(segments) THEN Total(segments) ELSE distance)

-----------------------------------------------------------------------------
(* Data is written command by command, whole or with its last number missing, and numbers may *)
(* follow without a command.  It begins with a move or with nothing.                          *)
Chunk(c, count) ==
    (IF c = "" THEN <<>> ELSE <<Letter(c)>>) \o [k \in 1 .. count |-> Number(Numbers[k])]

OutlineInit == data \in {<<>>, Chunk("M", 2)} /\ chunks = 0

NewData == data' = <<>> /\ chunks' = 0

MoreData ==
    /\ chunks < MaxChunks /\ chunks' = chunks + 1
    /\ \/ \E c \in Letters, less \in 0 .. 1 :
            LET arity == IF c \in Supported THEN Arity[Kind(c)] ELSE 0
            IN /\ arity >= less
               /\ data' = data \o Chunk(c, arity - less)
       \/ \E count \in Counts : data' = data \o Chunk("", count)

OutlineNext == NewData \/ MoreData

OutlineSpec == OutlineInit /\ [][OutlineNext]_outlineVars

-----------------------------------------------------------------------------
(* A reference: the uses that the data is of, each with its command and its numbers, where    *)
(* numbers without a command repeat the last one, lines after a move; nothing repeats a close.*)
Use(letter, args) == [letter |-> letter, args |-> args]

Repeated(letter) ==
    CASE letter = "M" -> "L" [] letter = "m" -> "l" [] letter \in {"Z", "z"} -> ""
      [] OTHER -> letter

Broken == <<Use("", <<>>)>>

RECURSIVE UsesFrom(_, _)
UsesFrom(rest, letter) ==
    LET said == IsLetter(Head(rest))
        c == IF said THEN Head(rest).letter ELSE letter
        args == IF said THEN Tail(rest) ELSE rest
        arity == Arity[Kind(c)]
        more == UsesFrom(SubSeq(args, arity + 1, Len(args)), Repeated(c))
    IN IF rest = <<>> THEN <<>>
       ELSE IF c \notin Supported THEN Broken
       ELSE IF Len(args) < arity \/ (\E k \in 1 .. arity : IsLetter(args[k])) THEN Broken
       ELSE IF more = Broken THEN Broken
       ELSE <<Use(c, [k \in 1 .. arity |-> args[k].n])>> \o more

(* Where each use ends, from where the one before it did. *)
RECURSIVE EndOf(_, _)
EndOf(uses, k) ==
    LET u == uses[k]
        n == Len(u.args)
        from == EndOf(uses, k - 1)
        base == IF Relative(u.letter) THEN from ELSE Origin
        moves == {j \in 1 .. k : Kind(uses[j].letter) = "M"}
    IN IF k = 0 THEN Origin
       ELSE CASE Kind(u.letter) = "H" -> <<base[1] + u.args[1], from[2]>>
              [] Kind(u.letter) = "V" -> <<from[1], base[2] + u.args[1]>>
              [] Kind(u.letter) = "Z" -> EndOf(uses, CHOOSE j \in moves : \A i \in moves : i <= j)
              [] OTHER -> Plus(base, <<u.args[n - 1], u.args[n]>>)

(* The control point before the end of a curve, and what the next one of its family begins    *)
(* with: its mirror image, or the current point after anything else.                          *)
RECURSIVE ControlOf(_, _)
FirstControl(uses, k, family) ==
    LET from == EndOf(uses, k - 1)
    IN IF k > 1 /\ Kind(uses[k - 1].letter) \in family
       THEN Reflect(from, ControlOf(uses, k - 1)) ELSE from

ControlOf(uses, k) ==
    LET u == uses[k]
        base == IF Relative(u.letter) THEN EndOf(uses, k - 1) ELSE Origin
    IN CASE Kind(u.letter) = "C" -> Plus(base, <<u.args[3], u.args[4]>>)
         [] Kind(u.letter) \in {"S", "Q"} -> Plus(base, <<u.args[1], u.args[2]>>)
         [] Kind(u.letter) = "T" -> FirstControl(uses, k, {"Q", "T"})

SegmentsOf(uses, k) ==
    LET u == uses[k]
        kind == Kind(u.letter)
        a == EndOf(uses, k - 1)
        b == EndOf(uses, k)
        base == IF Relative(u.letter) THEN a ELSE Origin
    IN CASE kind = "M" -> <<>>
         [] kind \in {"L", "H", "V", "Z"} -> <<Segment("L", <<a, b>>)>>
         [] kind = "C" ->
              <<Segment("C", <<a, Plus(base, <<u.args[1], u.args[2]>>), ControlOf(uses, k), b>>)>>
         [] kind = "S" ->
              <<Segment("C", <<a, FirstControl(uses, k, {"C", "S"}), ControlOf(uses, k), b>>)>>
         [] kind \in {"Q", "T"} -> <<Segment("Q", <<a, ControlOf(uses, k), b>>)>>
         [] kind = "A" ->
              IF a = b THEN <<>>
              ELSE IF 0 \in {u.args[1], u.args[2]} THEN <<Segment("L", <<a, b>>)>>
              ELSE <<Segment("A", <<a, SubSeq(u.args, 1, 5), b>>)>>

-----------------------------------------------------------------------------
(* The parser makes the segments that the data means, and rejects what means nothing: data    *)
(* with too few numbers, without a move at its beginning, or with numbers after a close.      *)
SegmentsAgree ==
    LET uses == UsesFrom(data, "")
        good == data = <<>> \/ (uses # Broken /\ Kind(uses[1].letter) = "M")
    IN /\ (Parsed.error = "") = good
       /\ good => Parsed.segments = FlattenSeq([k \in DOMAIN uses |-> SegmentsOf(uses, k)])

(* Walking along straight lines in steps of one visits what getPointAtLength gives; what is   *)
(* beyond the ends is where the walk begins or ends.                                          *)
RECURSIVE Walk(_)
Walk(segments) ==
    IF segments = <<>> THEN <<>>
    ELSE [d \in 1 .. Extent(Head(segments)) |-> Along(Head(segments), d)] \o Walk(Tail(segments))

PointsAgree ==
    LET segments == Parsed.segments
        walk == Walk(segments)
    IN Parsed.error = "" /\ segments # <<>> /\ (\A k \in DOMAIN segments : Straight(segments[k]))
       => /\ Len(walk) = Total(segments)
          /\ \A d \in DOMAIN walk : GetPointAtLength(segments, d) = walk[d]
          /\ GetPointAtLength(segments, -1) = segments[1].points[1]
          /\ GetPointAtLength(segments, Len(walk) + 1) =
               IF walk = <<>> THEN segments[1].points[1] ELSE Last(walk)
=============================================================================

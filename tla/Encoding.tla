------------------------------ MODULE Encoding ------------------------------
(* TextDecoder, which is given bytes in pieces and keeps what may be the beginning of a       *)
(* character for the next piece, and TextEncoder, which writes as many characters as fit.     *)
(* Bytes, UTF-16 units and characters are numbers.                                            *)
EXTENDS Integers, Sequences

CONSTANTS
    Octets,      \* the bytes a decoder may be given
    Units,       \* the UTF-16 units an encoder may be given
    MaxPiece,    \* bounds the bytes of a piece
    MaxBytes,    \* bounds the bytes of a stream
    MaxUnits,    \* bounds the units of a string
    MaxRoom      \* bounds the room that encodeInto has

ASSUME EncodingAssumption ==
    /\ Octets \subseteq 0..255 /\ Units \subseteq 0..65535
    /\ {MaxPiece, MaxBytes, MaxUnits, MaxRoom} \subseteq Nat

VARIABLES
    decoder,     \* the fields of TextDecoder_, and whether there is one
    fed,         \* the bytes of its stream,
    begun,       \* bom_seen when the stream began,
    shown,       \* and the characters it was decoded to: all ghosts
    over,        \* the stream that the last call ended, and what came of it
    into         \* the last call of encodeInto

encodingVars == <<decoder, fed, begun, shown, over, into>>

Replacement == 65533
ByteOrderMark == 65279
Continues(b) == b \in 128..191
AllContinue(bytes) == \A i \in 2..Len(bytes) : Continues(bytes[i])

-----------------------------------------------------------------------------
(* The bytes of a character by its first; none begins with the others. *)
LengthBy(b) ==
    CASE b < 128 -> 1
      [] b \in 194..223 -> 2
      [] b \in 224..239 -> 3
      [] b \in 240..244 -> 4
      [] OTHER -> 0

Least(length) == <<0, 128, 2048, 65536>>[length]

(* The number that the bytes of a character make. *)
NumberOf(bytes) ==
    LET n == Len(bytes)
        first == bytes[1] % <<128, 32, 16, 8>>[n]
        more == [i \in 1..n |-> IF i = 1 THEN first ELSE bytes[i] % 64]
    IN CASE n = 1 -> more[1]
         [] n = 2 -> more[1] * 64 + more[2]
         [] n = 3 -> (more[1] * 64 + more[2]) * 64 + more[3]
         [] n = 4 -> ((more[1] * 64 + more[2]) * 64 + more[3]) * 64 + more[4]

Character(bytes) ==
    /\ AllContinue(bytes)
    /\ NumberOf(bytes) >= Least(Len(bytes)) /\ NumberOf(bytes) <= 1114111
    /\ NumberOf(bytes) \notin 55296..57343

(* Bytes that are too few are kept if they may go on to be a character. *)
Waits(bytes) == AllContinue(bytes)

(* The loop of decode_utf8: the characters, what is kept, and whether all of it was valid. *)
RECURSIVE Scan(_, _)
Scan(bytes, stream) ==
    LET length == LengthBy(bytes[1])
        short == Len(bytes) < length
        Then(char, n, valid) ==
            LET rest == Scan(SubSeq(bytes, n + 1, Len(bytes)), stream)
            IN [rest EXCEPT !.chars = <<char>> \o @, !.valid = @ /\ valid]
    IN CASE bytes = <<>> -> [chars |-> <<>>, kept |-> <<>>, valid |-> TRUE]
         [] length = 0 -> Then(Replacement, 1, FALSE)
         [] short /\ stream /\ Waits(bytes) ->
                [chars |-> <<>>, kept |-> bytes, valid |-> TRUE]
         [] short /\ ~stream /\ AllContinue(bytes) -> Then(Replacement, Len(bytes), FALSE)
         [] short -> Then(Replacement, 1, FALSE)
         [] Character(SubSeq(bytes, 1, length)) ->
                Then(NumberOf(SubSeq(bytes, 1, length)), length, TRUE)
         [] OTHER -> Then(Replacement, 1, FALSE)

(* A byte order mark is left out where a stream begins. *)
Emitted(chars, seen) ==
    IF chars # <<>> /\ ~seen /\ ~decoder.ignore_bom /\ chars[1] = ByteOrderMark
    THEN Tail(chars) ELSE chars

Nothing == [bytes |-> <<>>, begun |-> FALSE, text |-> <<>>, thrown |-> FALSE, stream |-> FALSE]

(* The call ends its stream; whether it threw, and where the decoder is then. *)
Ends(bytes, text, thrown, stream, seen) ==
    /\ over' = [bytes |-> bytes, begun |-> begun, text |-> text,
                thrown |-> thrown, stream |-> stream]
    /\ fed' = <<>> /\ shown' = <<>> /\ begun' = seen

(* Defect: what was kept stays when a call throws. *)
ThrownKeeping(seen) == [decoder EXCEPT !.bom_seen = seen]

(* What was kept is dropped when a call throws. *)
Thrown(seen) == [decoder EXCEPT !.pending = <<>>, !.bom_seen = seen]

(* decode_impl: with bytes or undefined, stream or not.  seen is what bom_seen is left at when *)
(* the call throws: decode_0, without arguments, leaves it alone.                             *)
DecodeWith(input, stream, seen) ==
    LET scan == Scan(decoder.pending \o input, stream)
        text == Emitted(scan.chars, decoder.bom_seen)
        threw == decoder.fatal /\ ~scan.valid
    IN /\ decoder' =
            IF threw THEN Thrown(seen)
            ELSE [decoder EXCEPT !.pending = scan.kept,
                                 !.bom_seen = stream /\ (@ \/ scan.chars # <<>>)]
       /\ IF threw \/ ~stream
          THEN Ends(fed \o input, shown \o text, threw, stream, threw /\ seen)
          ELSE /\ fed' = fed \o input /\ shown' = shown \o text /\ over' = Nothing
               /\ UNCHANGED begun

Pieces == UNION {[1..n -> Octets] : n \in 0..MaxPiece}

DecodePiece ==
    /\ decoder.made
    /\ \E input \in Pieces, stream \in BOOLEAN :
         Len(fed) + Len(input) <= MaxBytes /\ DecodeWith(input, stream, FALSE)
    /\ UNCHANGED into

Flush ==
    /\ decoder.made /\ fed # <<>>
    /\ DecodeWith(<<>>, FALSE, decoder.bom_seen)
    /\ UNCHANGED into

-----------------------------------------------------------------------------
High(u) == u \in 55296..56319
Low(u) == u \in 56320..57343
Pair(high, low) == 65536 + (high - 55296) * 1024 + (low - 56320)

Required(char) == IF char < 128 THEN 1 ELSE IF char < 2048 THEN 2 ELSE IF char < 65536 THEN 3 ELSE 4

(* TextDecoder::append, and the same in TextEncoder::encode_. *)
Utf8(char) ==
    LET six(shift) == 128 + ((char \div shift) % 64)
    IN CASE Required(char) = 1 -> <<char>>
         [] Required(char) = 2 -> <<192 + char \div 64, six(1)>>
         [] Required(char) = 3 -> <<224 + char \div 4096, six(64), six(1)>>
         [] Required(char) = 4 -> <<240 + char \div 262144, six(4096), six(64), six(1)>>

(* The first character of a string and its units.  QuickJS hands over each unit by itself. *)
First(units) ==
    IF High(units[1]) /\ Len(units) > 1 /\ Low(units[2])
    THEN [char |-> Pair(units[1], units[2]), units |-> 2]
    ELSE [char |-> IF High(units[1]) \/ Low(units[1]) THEN Replacement ELSE units[1], units |-> 1]

(* Defect: a character is begun when there is room for its first byte. *)
FitsInPart(char, room) == room > 0

Fits(char, room) == Required(char) <= room

(* encode_: the bytes of the characters that fit, and the units read. *)
RECURSIVE Encoded(_, _)
Encoded(units, room) ==
    IF units = <<>> \/ ~Fits(First(units).char, room)
    THEN [bytes |-> <<>>, read |-> 0]
    ELSE LET first == First(units)
             rest == Encoded(SubSeq(units, first.units + 1, Len(units)),
                             room - Required(first.char))
         IN [bytes |-> Utf8(first.char) \o rest.bytes, read |-> first.units + rest.read]

Strings == UNION {[1..n -> Units] : n \in 0..MaxUnits}

EncodeInto ==
    /\ ~decoder.made
    /\ \E units \in Strings, room \in 0..MaxRoom :
         into' = [units |-> units, room |-> room, of |-> Encoded(units, room)]
    /\ UNCHANGED <<decoder, fed, begun, shown, over>>

-----------------------------------------------------------------------------
EncodingInit ==
    /\ decoder \in [made : {TRUE}, fatal : BOOLEAN, ignore_bom : BOOLEAN, bom_seen : {FALSE},
                    pending : {<<>>}]
         \cup [made : {FALSE}, fatal : {FALSE}, ignore_bom : {FALSE}, bom_seen : {FALSE},
               pending : {<<>>}]
    /\ fed = <<>> /\ begun = FALSE /\ shown = <<>> /\ over = Nothing
    /\ into = [units |-> <<>>, room |-> 0, of |-> Encoded(<<>>, 0)]

EncodingNext == DecodePiece \/ Flush \/ EncodeInto

-----------------------------------------------------------------------------
EncodingTypeOK ==
    /\ decoder.pending \in Seq(Octets) /\ Len(decoder.pending) < 4
    /\ fed \in Seq(Octets) /\ Len(fed) <= MaxBytes /\ begun \in BOOLEAN

(* However a stream is cut into pieces, its characters are those of all its bytes at once, and *)
(* what is kept is what would be kept then; an invalid stream throws whichever piece it is    *)
(* invalid in, and its rest does not get into the next one (TextDecoder::decode_utf8).        *)
PiecesAgree ==
    /\ LET all == Scan(fed, TRUE)
       IN /\ shown = Emitted(all.chars, begun) /\ decoder.pending = all.kept
          /\ decoder.fatal => all.valid
    /\ LET all == Scan(over.bytes, over.stream)
       IN /\ over.thrown <=> decoder.fatal /\ ~all.valid
          /\ ~over.thrown => over.text = Emitted(all.chars, over.begun)

(* The units that characters are written with. *)
RECURSIVE Spread(_)
Spread(chars) ==
    IF chars = <<>> THEN <<>>
    ELSE (IF Head(chars) < 65536 THEN <<Head(chars)>>
          ELSE <<55296 + (Head(chars) - 65536) \div 1024, 56320 + ((Head(chars) - 65536) % 1024)>>)
         \o Spread(Tail(chars))

(* A half of a pair without the other. *)
Lone(units, i) ==
    \/ High(units[i]) /\ ~(i < Len(units) /\ Low(units[i + 1]))
    \/ Low(units[i]) /\ ~(i > 1 /\ High(units[i - 1]))

(* What encodeInto wrote decodes to the units it says it has read, lone halves replaced, which *)
(* are as many whole characters as fit (TextEncoder::encode_).                                *)
WholeCharacters ==
    LET units == into.units
        read == into.of.read
        back == Scan(into.of.bytes, FALSE)
    IN /\ back.valid
       /\ Spread(back.chars)
            = [i \in 1..read |-> IF Lone(units, i) THEN Replacement ELSE units[i]]
       /\ Len(into.of.bytes) <= into.room
       /\ read < Len(units) =>
            LET pair == High(units[read + 1]) /\ ~Lone(units, read + 1)
            IN Len(into.of.bytes) + (IF pair THEN 4 ELSE Required(units[read + 1])) > into.room

TextsKept == EncodingTypeOK /\ PiecesAgree /\ WholeCharacters
=============================================================================

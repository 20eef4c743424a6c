----------------------------- MODULE TokenText -----------------------------
(***************************************************************************)
(* From the bytes of generated tokens to text on the console: Utf8Decoder  *)
(* and render_console_text of repl_contract.rs as one turn of              *)
(* model_repl.rs uses them.  A token may end inside a UTF-8 sequence; the  *)
(* decoder carries the beginning over to the next one.                     *)
(*                                                                         *)
(* A byte is its number, a unit of text the number of a UTF-16 unit.  The  *)
(* checks of capacity are left out: a token has at most 128 bytes, and the *)
(* buffers are made for that.                                              *)
(***************************************************************************)
EXTENDS Integers, Sequences, SequencesExt

CONSTANTS
    Bytes,      \* the bytes that occur
    PieceBytes, \* bound on the bytes of a token (128)
    ReplyBytes  \* bound on the bytes of a reply

ASSUME BytesAssumption ==
    Bytes \subseteq 0 .. 255 /\ PieceBytes \in Nat \ {0} /\ ReplyBytes \in Nat

VARIABLES
    carry,            \* Utf8Decoder's carry[..carry_len]
    previous_was_cr,
    fed,              \* the bytes of the reply so far
    decoded,          \* the units of the reply, as push returned them
    shown,            \* the units given to the console
    reply             \* "open", or how it ended

textVars == <<carry, previous_was_cr, fed, decoded, shown, reply>>

CarriageReturn == 13
LineFeed == 10

-----------------------------------------------------------------------------
(* Utf8Decoder.                                                             *)

IsTrail(byte) == byte \in 128 .. 191

\* Bytes of the sequence that begins with this one; 0: none does.
Needed(first) ==
    CASE first \in 1 .. 127 -> 1
      [] first \in 194 .. 223 -> 2
      [] first \in 224 .. 239 -> 3
      [] first \in 240 .. 244 -> 4
      [] OTHER -> 0

\* Mutated form of SecondFits: surrogates are left to the check of the point.
SecondFitsLoosely(first, second) ==
    /\ IsTrail(second)
    /\ first = 224 => second >= 160
    /\ first = 240 => second >= 144
    /\ first = 244 => second < 144

\* The second byte after the first: no overlong forms, no surrogates, nothing
\* behind U+10FFFF.
SecondFits(first, second) ==
    /\ IsTrail(second)
    /\ first = 224 => second >= 160
    /\ first = 237 => second < 160
    /\ first = 240 => second >= 144
    /\ first = 244 => second < 144

\* The code point of a whole sequence.
Point(s) ==
    LET bits(i) == s[i] % 64
    IN  CASE Len(s) = 1 -> s[1]
          [] Len(s) = 2 -> (s[1] % 32) * 64 + bits(2)
          [] Len(s) = 3 -> (s[1] % 16) * 4096 + bits(2) * 64 + bits(3)
          [] Len(s) = 4 -> (s[1] % 8) * 262144 + bits(2) * 4096 + bits(3) * 64 + bits(4)

HighSurrogate(unit) == 55296 <= unit /\ unit <= 56319
LowSurrogate(unit) == 56320 <= unit /\ unit <= 57343
Surrogate(point) == HighSurrogate(point) \/ LowSurrogate(point)

\* One unit, or a surrogate pair.
Units(point) ==
    IF point <= 65535 THEN <<point>>
    ELSE <<55296 + ((point - 65536) \div 1024), 56320 + ((point - 65536) % 1024)>>

\* push: the units of all whole sequences, and the beginning of the last one if
\* it may still be completed.
push(old, piece) ==
    LET bytes == old \o piece
        from[at \in 1 .. Len(bytes) + 4] ==
            IF at > Len(bytes) THEN [units |-> << >>, carry |-> << >>, valid |-> TRUE]
            ELSE
              LET needed == Needed(bytes[at])
                  left == SubSeq(bytes, at, Len(bytes))
                  whole == SubSeq(bytes, at, at + needed - 1)
                  trails == \A i \in 2 .. Len(left) : i <= needed => IsTrail(left[i])
                  second == needed >= 2 /\ Len(left) >= 2 => SecondFits(left[1], left[2])
              IN  IF needed = 0 \/ ~second \/ ~trails
                  THEN [units |-> << >>, carry |-> << >>, valid |-> FALSE]
                  ELSE IF Len(left) < needed
                  THEN [units |-> << >>, carry |-> left, valid |-> TRUE]
                  ELSE IF Surrogate(Point(whole)) \/ Point(whole) > 1114111
                  THEN [units |-> << >>, carry |-> << >>, valid |-> FALSE]
                  ELSE LET rest == from[at + needed]
                       IN  [rest EXCEPT !.units = Units(Point(whole)) \o @]
    IN  from[1]

finish == carry = << >>

-----------------------------------------------------------------------------
(* render_console_text: a CR in front of every LF that has none.            *)

render_console_text(units, was_cr) ==
    LET before(i) == IF i = 1 THEN was_cr ELSE units[i - 1] = CarriageReturn
    IN  FlattenSeq([i \in 1 .. Len(units) |->
            IF units[i] = LineFeed /\ ~before(i)
            THEN <<CarriageReturn, LineFeed>> ELSE <<units[i]>>])

EndsInCr(units, was_cr) ==
    IF units = << >> THEN was_cr ELSE units[Len(units)] = CarriageReturn

-----------------------------------------------------------------------------
(* A turn.                                                                  *)

TextInit ==
    /\ carry = << >> /\ previous_was_cr = FALSE
    /\ fed = << >> /\ decoded = << >> /\ shown = << >> /\ reply = "open"

\* A token of kind TEXT: what is whole is written, an invalid byte ends the turn.
TextToken(piece) ==
    /\ reply = "open" /\ Len(fed) + Len(piece) <= ReplyBytes
    /\ fed' = fed \o piece
    /\ LET pushed == push(carry, piece)
       IN  \/ /\ pushed.valid
              /\ carry' = pushed.carry
              /\ decoded' = decoded \o pushed.units
              /\ shown' = shown \o render_console_text(pushed.units, previous_was_cr)
              /\ previous_was_cr' = EndsInCr(pushed.units, previous_was_cr)
              /\ UNCHANGED reply
           \/ /\ ~pushed.valid
              /\ reply' = "UTF8_INVALID"
              /\ UNCHANGED <<carry, previous_was_cr, decoded, shown>>

\* The stop token, or the limit of the generation.
EndReply ==
    /\ reply = "open"
    /\ reply' = IF finish THEN "whole" ELSE "UTF8_INCOMPLETE"
    /\ UNCHANGED <<carry, previous_was_cr, fed, decoded, shown>>

TextNext ==
    \/ \E piece \in BoundedSeq(Bytes, PieceBytes) : TextToken(piece)
    \/ EndReply

TextSpec == TextInit /\ [][TextNext]_textVars

-----------------------------------------------------------------------------
(* The reference: how Unicode encodes a text, and what a console is given.  *)

Encoded(point) ==
    LET trail(unit) == 128 + ((point \div unit) % 64)
    IN  IF point <= 127 THEN <<point>>
        ELSE IF point <= 2047 THEN <<192 + (point \div 64), trail(1)>>
        ELSE IF point <= 65535 THEN <<224 + (point \div 4096), trail(64), trail(1)>>
        ELSE <<240 + (point \div 262144), trail(4096), trail(64), trail(1)>>

\* The characters that can be written with Bytes; NUL is none.
Low(unit) == {(b % 64) * unit : b \in {b \in Bytes : IsTrail(b)}}
Characters ==
    {p \in UNION {Bytes,
                  {a * 64 + d : a \in 0 .. 31, d \in Low(1)},
                  {a * 4096 + c + d : a \in 0 .. 15, c \in Low(64), d \in Low(1)},
                  {a * 262144 + b + c + d : a \in 0 .. 7, b \in Low(4096), c \in Low(64), d \in Low(1)}} :
        0 < p /\ p <= 1114111 /\ ~Surrogate(p) /\ ToSet(Encoded(p)) \subseteq Bytes}

Encodings == {Encoded(p) : p \in Characters}

\* Beginnings of characters that are not whole.
Begun == UNION {{SubSeq(e, 1, n) : n \in 0 .. Len(e) - 1} : e \in Encodings}

\* The character of a surrogate pair.
Paired(high, low) == 65536 + (high - 55296) * 1024 + (low - 56320)

\* The bytes of a text in UTF-16: a pair of surrogates is one character, a lone
\* one is none.
EncodedUnits(units) ==
    FlattenSeq([i \in 1 .. Len(units) |->
        IF HighSurrogate(units[i])
        THEN Encoded(Paired(units[i], units[i + 1]))
        ELSE IF LowSurrogate(units[i]) THEN << >> ELSE Encoded(units[i])])

\* Is there a text that begins with these bytes?  It can be cut so that behind
\* every cut there is a character up to another cut, or the beginning of one.
Viable(bytes) ==
    \E cuts \in SUBSET (0 .. Len(bytes)) :
        /\ 0 \in cuts
        /\ \A a \in cuts : \/ SubSeq(bytes, a + 1, Len(bytes)) \in Begun
                           \/ \E b \in cuts : SubSeq(bytes, a + 1, b) \in Encodings

-----------------------------------------------------------------------------
(* Properties.                                                              *)

\* However the reply is cut into tokens: what was decoded is the text of its
\* bytes, to the last whole character, and the decoder carries the rest; what the
\* console got is that text rendered at once, so that no token boundary adds or
\* loses a CR, and every LF follows one; a reply is refused exactly if no text
\* begins with its bytes, and called whole only if it ends with a character.
TextIsFaithful ==
    /\ reply # "UTF8_INVALID" => EncodedUnits(decoded) \o carry = fed
    /\ shown = render_console_text(decoded, FALSE)
    /\ \A i \in 1 .. Len(shown) :
          shown[i] = LineFeed => i > 1 /\ shown[i - 1] = CarriageReturn
    /\ carry \in Begun
    /\ reply = "UTF8_INVALID" <=> ~Viable(fed)
    /\ reply = "whole" => carry = << >>
=============================================================================

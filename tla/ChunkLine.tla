----------------------------- MODULE ChunkLine -----------------------------
(***************************************************************************)
(* The line in front of a chunk, byte by byte: its size and its extensions *)
(* (parse_number, parse_chunk_header of crates/h11r/src/wire.rs), against  *)
(* the grammar of RFC 9112 Section 7.1.1.  A byte is represented by one    *)
(* byte of its class.  Positions count from 1.                             *)
(***************************************************************************)
EXTENDS Integers, Sequences, FiniteSetsExt

CONSTANTS UsizeMax     \* usize::MAX

ASSUME UsizeAssumption == UsizeMax \in Nat

HexDigit == {"0", "1", "2", "F"}
is_token_byte == HexDigit \cup {"t"}             \* t: a token byte, no digit
Ows == {"SP"}
is_line_value_byte == is_token_byte \cup Ows \cup {";", "=", "DQ", "BS", "("}
QuotedText == is_line_value_byte \ {"DQ", "BS"}
ChunkByte == is_line_value_byte \cup {"CR", "LF"}

None == -1

----------------------------------------------------------------------------
(* Numbers                                                                 *)

to_digit(byte, radix) ==
    IF byte = "0" THEN 0 ELSE IF byte = "1" THEN 1 ELSE IF byte = "2" THEN 2
    ELSE IF byte = "F" /\ radix = 16 THEN 15 ELSE None

Checked(n) == IF n > UsizeMax THEN None ELSE n

(* Mutant of parse_number: the arithmetic wraps around.                    *)
WrappingNumber(value, radix) ==
    LET Parsed[i \in 0..Len(value)] ==
            IF i = 0 THEN 0
            ELSE IF Parsed[i - 1] = None \/ to_digit(value[i], radix) = None THEN None
            ELSE (Parsed[i - 1] * radix + to_digit(value[i], radix)) % (UsizeMax + 1)
    IN IF value = <<>> THEN None ELSE Parsed[Len(value)]

(* One digit more; None if there is none or the number gets too large.     *)
Accumulate(n, radix, digit) ==
    IF n = None \/ Checked(n * radix) = None \/ digit = None THEN None
    ELSE Checked(n * radix + digit)

parse_number(value, radix) ==
    LET Parsed[i \in 0..Len(value)] ==
            IF i = 0 THEN 0 ELSE Accumulate(Parsed[i - 1], radix, to_digit(value[i], radix))
    IN IF value = <<>> THEN None ELSE Parsed[Len(value)]

----------------------------------------------------------------------------
(* Extensions                                                              *)

Byte(line, at) == IF at <= Len(line) THEN line[at] ELSE ""

(* The first position from at on whose byte is not of the class: skip_ows, *)
(* take_while and the loops over token bytes.                              *)
Skip(line, at, class) ==
    Min({i \in at..(Len(line) + 1) : Byte(line, i) \notin class})

(* Behind the closing quote of the string that opens at at, or None.       *)
parse_quoted_string(line, at) ==
    LET End[i \in (at + 1)..(Len(line) + 2)] ==
            IF Byte(line, i) = "DQ" THEN i + 1
            ELSE IF Byte(line, i) = "BS"
                 THEN IF Byte(line, i + 1) \in is_line_value_byte THEN End[i + 2] ELSE None
            ELSE IF Byte(line, i) \in QuotedText THEN End[i + 1] ELSE None
    IN End[at + 1]

ExtensionValue(line, at) ==
    IF Byte(line, at) = "DQ" THEN parse_quoted_string(line, at)
    ELSE LET end == Skip(line, at, is_token_byte) IN IF end = at THEN None ELSE end

(* One round of the loop: where the next extension begins, or None.        *)
Extension(line, at) ==
    LET semicolon == Skip(line, at, Ows)
        name == Skip(line, semicolon + 1, Ows)
        after_name == Skip(line, name, is_token_byte)
        equals == Skip(line, after_name, Ows)
    IN IF Byte(line, semicolon) # ";" \/ after_name = name THEN None
       ELSE IF Byte(line, equals) = "="
            THEN ExtensionValue(line, Skip(line, equals + 1, Ows))
       ELSE IF equals # after_name THEN None ELSE equals

parse_chunk_header(line) ==
    LET digits == Skip(line, 1, HexDigit) - 1
        Valid[at \in 1..(Len(line) + 1)] ==
            at > Len(line) \/ (Extension(line, at) # None /\ Valid[Extension(line, at)])
        size == parse_number(SubSeq(line, 1, digits), 16)
    IN IF size # None /\ Valid[digits + 1] THEN size ELSE None

----------------------------------------------------------------------------
(* The grammar.  An element is written as the range i..(j-1) of positions. *)

All(line, i, j, class) == \A k \in i..(j - 1) : line[k] \in class

(* A byte is escaped if the run of backslashes in front of it, from the    *)
(* opening quote on, is of odd length.                                     *)
IsEscaped(line, open, k) ==
    \E n \in 1..(k - open - 1) :
        /\ n % 2 = 1
        /\ \A m \in (k - n)..(k - 1) : line[m] = "BS"
        /\ k - n - 1 = open \/ line[k - n - 1] # "BS"

QuotedString(line, i, j) ==
    /\ i < j - 1 /\ line[i] = "DQ" /\ line[j - 1] = "DQ"
    /\ All(line, i + 1, j - 1, is_line_value_byte)
    /\ ~IsEscaped(line, i, j - 1)
    /\ \A k \in (i + 1)..(j - 2) : line[k] = "DQ" => IsEscaped(line, i, k)

Token(line, i, j) == i < j /\ All(line, i, j, is_token_byte)

ChunkExt(line, i, j) ==
    \E a \in i..(j - 1) :
        /\ All(line, i, a, Ows) /\ line[a] = ";"
        /\ \E b \in (a + 1)..(j - 1) :
              /\ All(line, a + 1, b, Ows)
              /\ \/ Token(line, b, j)
                 \/ \E c \in b..(j - 1) :
                       /\ Token(line, b, c)
                       /\ \E d \in c..(j - 1) :
                             /\ All(line, c, d, Ows) /\ line[d] = "="
                             /\ \E e \in (d + 1)..(j - 1) :
                                   /\ All(line, d + 1, e, Ows)
                                   /\ Token(line, e, j) \/ QuotedString(line, e, j)

ChunkExts(line, from) ==
    LET Exts[i \in from..(Len(line) + 1)] ==
            i = Len(line) + 1
            \/ \E j \in (i + 1)..(Len(line) + 1) : ChunkExt(line, i, j) /\ Exts[j]
    IN Exts[from]

(* The number of size digits of a chunk line of the grammar.               *)
SizeDigits(line) ==
    {k \in 1..Len(line) : All(line, 1, k + 1, HexDigit) /\ ChunkExts(line, k + 1)}

NumberOf(value, radix) ==
    MapThenSumSet(LAMBDA i : to_digit(value[i], radix) * radix^(Len(value) - i),
                  DOMAIN value)
============================================================================

------------------------------ MODULE Trailers ------------------------------
(***************************************************************************)
(* `parse_trailers` of crates/h11r/src/wire.rs, byte by byte, on           *)
(* everything a transport may have delivered from the first byte of a      *)
(* trailer section on, bytes behind the section included.  A client lets   *)
(* `normalize_obs_fold` join folded lines first (normalize_folding).       *)
(***************************************************************************)
EXTENDS Integers, Sequences, FiniteSetsExt

CONSTANT MaxBytes      \* limits.max_head_bytes

Octet == {"CR", "LF", "SP", "x"}      \* x: bytes of a well-formed field line

ASSUME TrailersAssumption == MaxBytes \in Nat

----------------------------------------------------------------------------

Octet_at(d, i) == IF i \in DOMAIN d THEN d[i] ELSE ""

(* The line feed at i is followed by white space: the line is continued.   *)
IsFold(d, i) == d[i] = "LF" /\ Octet_at(d, i + 1) = "SP"

(* The white space that continues it.                                      *)
InFold(d, i) ==
    \E j \in 1..(i - 1) : IsFold(d, j) /\ \A k \in (j + 1)..i : d[k] = "SP"

(* One byte of the loop: a fold becomes a space in place of its line end   *)
(* and of the white space behind it.                                       *)
Unfolded(d, out, i) ==
    IF IsFold(d, i)
    THEN Append(IF Octet_at(out, Len(out)) = "CR" THEN SubSeq(out, 1, Len(out) - 1) ELSE out,
                "SP")
    ELSE IF InFold(d, i) THEN out ELSE Append(out, d[i])

normalize_obs_fold(d) ==
    LET Output[i \in 0..Len(d)] == IF i = 0 THEN <<>> ELSE Unfolded(d, Output[i - 1], i)
    IN Output[Len(d)]

(* Where SectionProgress::poll finds the first blank line (see SectionScan *)
(* for how it does); 0 if there is none.                                   *)
SectionEnd(d) ==
    LET blank == {i \in DOMAIN d :
                    /\ d[i] = "LF"
                    /\ \/ i = 1 \/ d[i - 1] = "LF"
                       \/ d[i - 1] = "CR" /\ (i = 2 \/ d[i - 2] = "LF")}
    IN IF blank = {} THEN 0 ELSE Min(blank)

(* httparse::parse_headers: no line begins with white space, no carriage   *)
(* return stands without its line feed, and a blank line ends it.          *)
Malformed(d) ==
    {i \in DOMAIN d : \/ d[i] = "SP" /\ (i = 1 \/ d[i - 1] = "LF")
                      \/ d[i] = "CR" /\ Octet_at(d, i + 1) \notin {"LF", ""}}

parse_headers(d) ==
    LET end == SectionEnd(d) IN
    IF \E i \in Malformed(d) : end = 0 \/ i < end THEN "error"
    ELSE IF end = 0 THEN "partial" ELSE "complete"

(* Mutant of parse_trailers: the end is that of the normalised data.       *)
EndOfNormalized(d, normalize_folding) ==
    LET normalized == IF normalize_folding THEN normalize_obs_fold(d) ELSE d
        end == SectionEnd(d)
    IN IF (IF end = 0 THEN Len(d) ELSE end) > MaxBytes THEN [status |-> "error", end |-> 0]
       ELSE LET status == parse_headers(normalized)
            IN [status |-> status,
                end |-> IF status = "complete" THEN SectionEnd(normalized) ELSE 0]

parse_trailers(d, normalize_folding) ==
    LET normalized == IF normalize_folding THEN normalize_obs_fold(d) ELSE d
        end == SectionEnd(d)
    IN IF (IF end = 0 THEN Len(d) ELSE end) > MaxBytes THEN [status |-> "error", end |-> 0]
       ELSE LET status == parse_headers(normalized)
            IN [status |-> status,
                end |-> IF status # "complete" THEN 0
                        ELSE IF end = 0 THEN SectionEnd(normalized) ELSE end]
============================================================================

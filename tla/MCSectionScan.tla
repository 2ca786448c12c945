--------------------------- MODULE MCSectionScan ---------------------------
(***************************************************************************)
(* SectionScan for TLC: every segment of one or two bytes.                 *)
(***************************************************************************)
EXTENDS SectionScan

MCSegments == UNION {[1..n -> Octet] : n \in 1..2}
============================================================================

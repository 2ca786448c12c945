----------------------------- MODULE Authority -----------------------------
(***************************************************************************)
(* The check of a Host field (valid_host, valid_authority of               *)
(* crates/h11r/src/wire.rs) against the grammar of uri-host [ ":" port ]   *)
(* in RFC 3986.  A byte is represented by one of its class: a is a       *)
(* hexadecimal letter, 7 a digit, v itself, ! a sub-delimiter, / a byte no *)
(* authority may contain.                                                  *)
(***************************************************************************)
EXTENDS Integers, Sequences, FiniteSetsExt

Digit == {"7"}
HexByte == Digit \cup {"a"}
is_unreserved == HexByte \cup {"v", "."}
is_sub_delim == {"!"}
NameByte == is_unreserved \cup is_sub_delim
HostByte == NameByte \cup {"[", "]", ":", "%", "/"}

----------------------------------------------------------------------------

Within(s, class) == \A i \in DOMAIN s : s[i] \in class

(* The first position of a byte, as `position` and `split_at_byte` find    *)
(* it; 0 if there is none.                                                 *)
Position(s, byte) ==
    LET found == {i \in DOMAIN s : s[i] = byte} IN IF found = {} THEN 0 ELSE Min(found)

Before(s, i) == SubSeq(s, 1, i - 1)
After(s, i) == SubSeq(s, i + 1, Len(s))

(* `Ipv6Addr` of the standard library, for the lengths that occur here: an *)
(* address with "::" between groups of at most four digits.                *)
Groups(s) ==
    /\ Within(s, HexByte \cup {":"})
    /\ s # <<>> => s[1] # ":" /\ s[Len(s)] # ":"
    /\ \A i \in 1..(Len(s) - 1) : ~(s[i] = ":" /\ s[i + 1] = ":")
    /\ \A i \in 1..(Len(s) - 4) : \E j \in i..(i + 4) : s[j] = ":"
Ipv6Addr(s) ==
    \E i \in 1..(Len(s) - 1) :
        s[i] = ":" /\ s[i + 1] = ":" /\ Groups(Before(s, i)) /\ Groups(After(s, i + 1))

valid_ip_literal(s) ==
    LET dot == Position(s, ".") IN
    \/ Ipv6Addr(s)
    \/ /\ s # <<>> /\ s[1] = "v"
       /\ dot > 2
       /\ Within(SubSeq(s, 2, dot - 1), HexByte)
       /\ After(s, dot) # <<>> /\ Within(After(s, dot), NameByte \cup {":"})

(* Mutant of valid_percent_encoded: the second digit is not looked at.     *)
PercentAndDigit(s) ==
    LET Valid[at \in 1..(Len(s) + 3)] ==
            \/ at > Len(s)
            \/ /\ s[at] = "%" /\ at + 1 <= Len(s) /\ s[at + 1] \in HexByte
               /\ Valid[at + 3]
            \/ s[at] \in NameByte /\ Valid[at + 1]
    IN Valid[1]

valid_percent_encoded(s) ==
    LET Valid[at \in 1..(Len(s) + 1)] ==
            \/ at > Len(s)
            \/ /\ s[at] = "%" /\ at + 2 <= Len(s)
               /\ s[at + 1] \in HexByte /\ s[at + 2] \in HexByte
               /\ Valid[at + 3]
            \/ s[at] \in NameByte /\ Valid[at + 1]
    IN Valid[1]

valid_authority(s) ==
    IF s # <<>> /\ s[1] = "["
    THEN LET close == Position(s, "]")
             rest == After(s, close)
         IN /\ close # 0
            /\ valid_ip_literal(SubSeq(s, 2, close - 1))
            /\ rest = <<>> \/ (rest[1] = ":" /\ Within(Tail(rest), Digit))
    ELSE LET colon == Position(s, ":") IN
         /\ \A i \in DOMAIN s : s[i] = ":" => i = colon
         /\ IF colon = 0 THEN valid_percent_encoded(s)
            ELSE valid_percent_encoded(Before(s, colon)) /\ Within(After(s, colon), Digit)

valid_host(version, hosts) ==
    /\ Len(hosts) <= 1
    /\ IF hosts = <<>> THEN version = "Http10" ELSE valid_authority(hosts[1])

----------------------------------------------------------------------------

(* The grammar, by cutting the value in pieces.                            *)
RegName(s) ==
    \A i \in DOMAIN s :
        \/ s[i] \in NameByte
        \/ s[i] = "%" /\ \A j \in {i + 1, i + 2} : j \in DOMAIN s /\ s[j] \in HexByte

IpFuture(s) ==
    \E i \in 3..(Len(s) - 1) :
        /\ s[1] = "v" /\ s[i] = "."
        /\ Within(SubSeq(s, 2, i - 1), HexByte)
        /\ Within(After(s, i), NameByte \cup {":"})

UriHost(s) ==
    \/ RegName(s)
    \/ /\ Len(s) >= 2 /\ s[1] = "[" /\ s[Len(s)] = "]"
       /\ LET literal == SubSeq(s, 2, Len(s) - 1) IN Ipv6Addr(literal) \/ IpFuture(literal)

HostGrammar(s) ==
    \/ UriHost(s)
    \/ \E i \in DOMAIN s : s[i] = ":" /\ UriHost(Before(s, i)) /\ Within(After(s, i), Digit)
============================================================================

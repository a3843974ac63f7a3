-------------------------------- MODULE Data --------------------------------
(***************************************************************************)
(* What the values of keys are made of: strings, and those of them that    *)
(* strconv.ParseInt takes for numbers.  An integer may have more spellings *)
(* than the one strconv.FormatInt gives it ("7", "07", "+7"), and sums are *)
(* int64: they wrap.                                                       *)
(***************************************************************************)
EXTENDS Integers

CONSTANTS
    Strings,   \* what clients send as a value, a field or a member
    Half,      \* 2^63: an int64 is in -Half..(Half - 1)
    Parse,     \* ParseInt, of each string
    Decimal,   \* FormatInt, of each number
    NotInt,    \* ParseInt's error
    Nil,       \* the nil reply
    Err,       \* an error reply
    MaxArgs    \* bound on the members, or pairs, of one command

Numbers == (-Half)..(Half - 1)
Wrap(n) == ((n + Half) % (2 * Half)) - Half

ASSUME WordAssumption == Half \in Nat \ {0}
ASSUME NumeralAssumption ==
    /\ NotInt \notin Int
    /\ Parse \in [Strings -> Numbers \cup {NotInt}]
    /\ Decimal \in [Numbers -> Strings]
    /\ \A n \in Numbers : Parse[Decimal[n]] = n
ASSUME ReplyAssumption == Nil \notin Strings /\ Err \notin Int /\ MaxArgs \in Nat \ {0}

IsInt(s) == Parse[s] # NotInt

NoAnswer == <<"none", Nil>>

(* A Go map, or the memory, with one entry more, or another one.           *)
Extended(f, a, b) == [c \in DOMAIN f \cup {a} |-> IF c = a THEN b ELSE f[c]]

(* The strings a set may keep for s: s itself, or its integer in decimal.  *)
Spellings(s) == {s} \cup (IF IsInt(s) THEN {Decimal[Parse[s]]} ELSE {})
=============================================================================

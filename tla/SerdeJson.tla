------------------------------ MODULE SerdeJson -------------------------------
(***************************************************************************)
(* What the crates tbc-core and txip use of serde and of Rust's strings.   *)
(*                                                                         *)
(* A JSON object is a function from its keys to their values.  A string is *)
(* a value of its own, of which only emptiness matters, except for         *)
(*   - hashes and addresses: [ox, len, hex] says whether it starts with    *)
(*     0x, its length, and whether only hexadecimal digits follow;         *)
(*   - timestamps: [T, hyphens, local, tail, offset] says whether there is *)
(*     a T, the number of hyphens in the date, the date and time written,  *)
(*     how the text goes on ("Z", "+", "-" or "", not at all) and the      *)
(*     offset after + or -.                                                *)
(***************************************************************************)
EXTENDS Integers

CONSTANTS
    None,      \* Option::None
    Rejected   \* a JSON text that does not deserialize

-----------------------------------------------------------------------------
is_empty(text) == text = ""

HexText == [ox: BOOLEAN, len: Nat, hex: BOOLEAN]
Timestamp == [T: BOOLEAN, hyphens: Nat, local: Nat, tail: {"Z", "+", "-", ""}, offset: Nat]

contains_hyphen(t) == t.hyphens > 0 \/ t.tail = "-"
hyphen_count(t) == t.hyphens + (IF t.tail = "-" THEN 1 ELSE 0)

(* The order of two timestamps written alike (both with or both without T, *)
(* and with as many hyphens): the code points are "+" < "-" < digits < "Z".*)
Rank(tail) == CASE tail = "" -> 0 [] tail = "+" -> 1 [] tail = "-" -> 2 [] tail = "Z" -> 3
string_later(a, b) ==
    \/ a.local > b.local
    \/ a.local = b.local /\ Rank(a.tail) > Rank(b.tail)
    \/ a.local = b.local /\ a.tail = b.tail /\ a.offset > b.offset

-----------------------------------------------------------------------------
(* A struct written: of its Options, all with skip_serializing_if =        *)
(* "Option::is_none", those that are None are left out.                    *)
ToObject(record, options) ==
    [f \in {g \in DOMAIN record : g \in options => record[g] # None} |-> record[f]]

(* A struct read: the other fields have to be there, an absent Option is   *)
(* None, and further keys are ignored.                                     *)
Fits(object, required) == required \subseteq DOMAIN object
FromObject(object, required, options) ==
    [f \in required \cup options |-> IF f \in DOMAIN object THEN object[f] ELSE None]
=============================================================================

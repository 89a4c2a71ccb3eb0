------------------------------- MODULE MCTgpWire ------------------------------
(***************************************************************************)
(* Messages for TLC: each field well-formed and ill-formed in every way    *)
(* the validations tell apart, at most one of a triple of texts empty.     *)
(***************************************************************************)
EXTENDS TgpWire

Texts == {<<"x", "y", "z">>, <<"", "y", "z">>, <<"x", "", "z">>, <<"x", "y", "">>}

(* Nothing, the least, and u64::MAX *)
SomeAmounts == {0, 1, AmountSpace - 1}

Hex(len) == [ox |-> TRUE, len |-> len, hex |-> TRUE]
Malformed(len) == {[Hex(len) EXCEPT !.ox = FALSE], [Hex(len) EXCEPT !.hex = FALSE], Hex(4)}
SomeAddresses == Malformed(42) \cup {Hex(42), Hex(66)}
SomeHashes == Malformed(66) \cup {Hex(42), Hex(66)}

SomeFees == {50, 10000, 10001}

Iso(local, tail) == [T |-> TRUE, hyphens |-> 2, local |-> local, tail |-> tail, offset |-> 0]
Basic(local, tail) == [Iso(local, tail) EXCEPT !.hyphens = 0]
NoT(local, tail) == [Iso(local, tail) EXCEPT !.T = FALSE]
Off(local, tail, offset) == [Iso(local, tail) EXCEPT !.offset = offset]
SomeExpiries == {Off(2, "+", 1), Off(1, "-", 1), Off(2, "-", 1),
                 Iso(1, "Z"), Iso(2, "Z"), Iso(2, "+"), Iso(2, ""), NoT(2, "Z"),
                 Basic(2, "Z"), Basic(2, "-"), Basic(2, "")}
SomeIsos == {Iso(0, "Z"), Iso(0, ""), NoT(0, "Z"), Basic(0, "")}

(* At most one thing wrong *)
SomeHeads == {<<"m-1", "s-1", iso>> : iso \in SomeIsos}
             \cup {<<"", "s-1", Iso(0, "Z")>>, <<"m-1", "", Iso(0, "Z")>>}

SomeHellos == {<<{"2.0"}, {1, 369}, "token">>, <<{"1.0", "2.0"}, {369}, None>>,
               <<{"1.0"}, {369}, "token">>, <<{"2.0"}, {}, None>>, <<{}, {}, None>>}
=============================================================================

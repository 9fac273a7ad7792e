----------------------------- MODULE MCInflate -----------------------------
(***************************************************************************)
(* A DEFLATE of two bytes, codes of up to three bits and two match lengths *)
(* and distances. As in the real one the fixed code for literals has a     *)
(* symbol too many, that of distances leaves codes unused, and the code of *)
(* the end of a block is all zeros.                                        *)
(***************************************************************************)
EXTENDS Inflate

Vector(seq) == [i \in 0 .. Len(seq) - 1 |-> seq[i + 1]]

LenBase == <<2, 3>>
LenExtra == <<0, 1>>
DistBase == <<1, 2>>
DistExtra == <<0, 1>>
RunBase == <<1, 1, 2>>
RunExtra == <<1, 0, 1>>

Fixed6 == Vector(<<3, 3, 2, 2, 3, 3>>)
Fixed2 == Vector(<<2, 2>>)

\* Codes for the lengths 0 .. 3 and the three repeats.
Codes7 == {Vector(<<0, 1, 2, 0, 2, 0, 0>>),     \* 1, 2, repeat
           Vector(<<0, 0, 1, 2, 0, 3, 3>>),     \* 2, 3, zeros
           Vector(<<1, 1, 1, 0, 0, 0, 0>>)}     \* three codes of one bit
=============================================================================

----------------------------- MODULE MCByteArray -----------------------------
(***************************************************************************)
(* An instance of ByteArray for TLC: blocks of two bytes, digits of three  *)
(* bits of which two are a varint's group, and 5-bit integers in up to     *)
(* three groups, the last of which is not full (as with 32 bits in fives). *)
(***************************************************************************)
EXTENDS ByteArray

SomeBufs == {<<7, 0, 4>>}
SomeItems ==
    [kind: {"uint"}, val: {31}]
        \cup [kind: {"int"}, val: {-16}]
        \cup [kind: {"strF"}, val: {<<7, 0, 4>>}] \cup [kind: {"strV"}, val: {<<>>}]

=============================================================================

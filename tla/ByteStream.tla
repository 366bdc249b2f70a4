------------------------------ MODULE ByteStream ------------------------------
(***************************************************************************)
(* What ByteArray promises: a sequence of bytes with a position, where     *)
(* writing overwrites and extends, reading takes from the position on, and *)
(* a position past the end extends the sequence by unspecified bytes.      *)
(***************************************************************************)
EXTENDS Integers, Sequences

VARIABLES data, pos, out   \* out: what the last operation returned

vars == <<data, pos, out>>

Init == data = <<>> /\ pos = 0 /\ out = <<>>

Rest == SubSeq(data, pos + 1, Len(data))

Write ==
    \E n \in 1 .. Len(data') :
        /\ pos' = pos + n /\ pos' <= Len(data')
        /\ SubSeq(data', 1, pos) = SubSeq(data, 1, pos)
        /\ SubSeq(data', pos' + 1, Len(data')) = SubSeq(data, pos' + 1, Len(data))
        /\ out' = SubSeq(data', pos + 1, pos')

\* Bytes are returned, and the position moves past them or stays.
Read ==
    \E n \in 0 .. Len(Rest) :
        /\ pos' = pos + n
        /\ out' = SubSeq(Rest, 1, n)
        /\ UNCHANGED data

Peek == out' = Rest /\ UNCHANGED <<data, pos>>

Seek ==
    /\ Len(data') = IF pos' > Len(data) THEN pos' ELSE Len(data)
    /\ SubSeq(data', 1, Len(data)) = data
    /\ out' = <<>>

Clear == data' = <<>> /\ pos' = 0 /\ out' = <<>>

\* An operation that asks for too much is refused, with what is not a byte.
Refuse == out' = <<-2>> /\ UNCHANGED <<data, pos>>

Next == Write \/ Read \/ Peek \/ Seek \/ Clear \/ Refuse

Spec == Init /\ [][Next]_vars

=============================================================================

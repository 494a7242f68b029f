------------------------------ MODULE Selection -----------------------------
(***************************************************************************)
(* The elements of a sequence at some of its places, in their order: what  *)
(* filter keeps of an array, and how the code keeps the first of equals.   *)
(***************************************************************************)
EXTENDS Integers, Sequences

Picked(s, places) ==
    LET picked[n \in 0..Len(s)] ==
            IF n = 0 THEN <<>>
            ELSE IF n \in places THEN Append(picked[n - 1], s[n]) ELSE picked[n - 1]
    IN picked[Len(s)]
=============================================================================

------------------------------ MODULE MCSudoku ------------------------------
(***************************************************************************)
(* A solved grid for blocks of any size, and one way to number its         *)
(* letters; three cells near the cursor may be erased.                     *)
(***************************************************************************)
EXTENDS Sudoku

MCMapPattern ==
    [c \in Cells |-> 1 + (((c[1] % Box) * Box + c[1] \div Box + c[2]) % Side)]

MCDraws == {[d \in Digits |-> d]}

MCErasable == {<<0, 0>>, <<0, 1>>, <<1, 1>>}

=============================================================================

----------------------------- MODULE MCArrays -----------------------------
(* Small instances of Arrays for TLC. *)
EXTENDS Arrays

\* The empty array, three numbers in two orders, four elements (a heap of three
\* levels) with equal ones among them, objects with _cmp, and one beside a number.
MCArrays0 == {<<>>, <<1, 3, 2>>, <<3, 2, 1>>, <<2, 3, 1, 2>>, <<8, 9, 8>>, <<1, 8>>}
===========================================================================

------------------------------ MODULE CallsMC ------------------------------
(***************************************************************************)
(* Calls for TLC: the model values of its configuration, a text and        *)
(* some listings.                                                          *)
(***************************************************************************)
EXTENDS Calls

CONSTANTS t1, t2, t3, r1, r2, NoValue

Text == <<"a", "b", "a">>
Lists == {<<>>, <<"x">>, <<"y">>, <<"x", "y">>, <<"x", "x">>}

=============================================================================

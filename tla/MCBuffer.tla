------------------------------- MODULE MCBuffer -------------------------------
(* Instances of Buffer for TLC. *)
EXTENDS Buffer

MCChunks == {<<>>, <<"a">>, <<"b">>, <<"a", "b">>, <<"b", "a", "a">>, <<"a", "b", "b", "b", "a">>}
===============================================================================

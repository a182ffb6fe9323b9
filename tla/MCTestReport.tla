---------------------------- MODULE MCTestReport ----------------------------
(* Texts for TLC: all short ones, some longer ones, and expected outputs that *)
(* differ in one respect each.                                                *)
EXTENDS TestReport

MCWritten ==
    UNION {[1..n -> {"a", " ", "\n", "wide"}] : n \in 0..3}
        \cup {<<"a", "\n", "\n", "b">>, <<"a", " ", " ", "b">>, <<"b", "\n", "a">>,
              <<"a", "\n", " ", "\n", "b", "\n">>, <<"wide", " ", "b", " ", "wide">>}

MCExpected ==
    {<< >>, <<"\n">>, <<"a">>, <<"wide">>, <<"a", "b">>, <<"a", " ", "b">>,
     <<"a", "\n", "b">>, <<"a", "\n", "\n", "b">>, <<"b", "\n", "a">>,
     <<"a", " ", " ", "b">>, <<" ", "a", "\n">>, <<"a", " ", "\n", " ", "a", "\n">>}
=============================================================================

---------------------------- MODULE MCNumbering ----------------------------
(* Numbering in two years that end alike, with shapes that render alike    *)
(* but reset differently, one of them with two start values, a yearly one  *)
(* that prints four digits, and a first number of each width reserved.     *)
EXTENDS Numbering, TLC

MCConfiguration(reset_policy, year_digits, start_value) ==
    [shape |-> [reset_policy |-> reset_policy, include_year |-> TRUE,
                year_digits |-> year_digits],
     start_value |-> start_value]
MCConfigurations ==
    {MCConfiguration("never", 2, 1), MCConfiguration("yearly", 2, 1),
     MCConfiguration("yearly", 2, 2), MCConfiguration("yearly", 4, 1)}
MCReserved == {<<<<2, 26>>, 1>>}
Symmetry == Permutations(Callers) \cup Permutations(Keys) \cup Permutations(Docs)
=============================================================================

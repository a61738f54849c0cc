--------------------------- MODULE MCConfigStore ---------------------------
(* Small sets of strings, each with the empty one, for TLC *)
EXTENDS ConfigStore
CONSTANTS n1, n2, p1, t1, h1, o1

MCSsids     == {Empty, n1, n2}
MCPasswords == {Empty, p1}
MCTokens    == {Empty, t1}
MCHostnames == {Empty, h1}
MCOptions   == {FactoryOptions, o1}
=============================================================================

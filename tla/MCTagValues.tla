---------------------------- MODULE MCTagValues ----------------------------
EXTENDS TagValues, TLC

\* Two tags of the controller and one of its only program.
OneProgram == <<<<"a", "b">>, <<"c">>>>

Symmetric == Permutations(Type)
=============================================================================

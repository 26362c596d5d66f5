------------------------------ MODULE MCHaGate -------------------------------
EXTENDS HaGate, TLC

\* people are told apart only by what they sign
PeopleSymmetry == Permutations(People)
=============================================================================

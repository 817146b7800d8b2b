-------------------------- MODULE MCIndexExchange --------------------------
EXTENDS IndexExchange, TLC

\* Names are interchangeable in every definition and safety property.
NameSymmetry == Permutations(Names)
=============================================================================

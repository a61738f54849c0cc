--------------------------- MODULE MCAppController ---------------------------
EXTENDS AppController, TLC

\* Two networks so that an old one can come back; they are interchangeable.
NetworkSymmetry == Permutations(Networks)

=============================================================================

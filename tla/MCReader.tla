------------------------------ MODULE MCReader ------------------------------
EXTENDS Reader, TLC

\* Keys are interchangeable, and so are readers: they are compared for equality only.
ReaderSymmetry == Permutations(Keys) \cup Permutations(Readers)
=============================================================================

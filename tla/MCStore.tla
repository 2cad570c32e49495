------------------------------ MODULE MCStore ------------------------------
EXTENDS Store, TLC

\* Keys are interchangeable: nothing compares them but for equality.
KeySymmetry == Permutations(Keys)
=============================================================================

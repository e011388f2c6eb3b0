---------------------------- MODULE MCAuthSession ----------------------------
\* An instance of AuthSession for TLC; users and calls are interchangeable.
EXTENDS AuthSession, TLC

CONSTANTS Alice, Bob, c1, c2

Symmetry == Permutations(Users) \union Permutations(Calls)

=============================================================================

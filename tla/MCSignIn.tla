------------------------------ MODULE MCSignIn -------------------------------
EXTENDS SignIn, TLC

SignInSymmetry ==
    Permutations(Requests) \cup Permutations(Names) \cup Permutations(Tokens)
=============================================================================

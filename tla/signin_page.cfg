SPECIFICATION SignInSpec
CONSTANTS
    Names = {n1, n2}
    Solo = Solo
    Requests = {q1, q2}
    Passwords = {w1, w2}
    Mine = w1
    Tokens = {t1, t2}
    MaxRestarts = 1
    None = None
SYMMETRY SignInSymmetry
INVARIANTS OneGame CallsignSeated NoLockOut RevokedForGood TokensHaveAccounts
PROPERTIES FirstComeKeeps
CHECK_DEADLOCK FALSE

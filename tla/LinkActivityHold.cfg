\* Two threads, one hold each.
SPECIFICATION ActivitySpec
CONSTANTS
    Users = {t1, t2}
    Nobody = Nobody
    MaxHolds = 2
SYMMETRY ThreadSymmetry
INVARIANT HoldIsVisible
CHECK_DEADLOCK FALSE

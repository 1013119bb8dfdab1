\* Two requests at a time, as gunicorn serves with two workers.
CONSTANTS
    Tokens = {t1, t2, t3}
    Callers = {a1, a2}
    Max = 2
SPECIFICATION TokensSpec
SYMMETRY Symmetry
INVARIANT TokenLimit
CHECK_DEADLOCK FALSE

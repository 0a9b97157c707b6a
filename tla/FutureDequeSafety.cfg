SPECIFICATION Spec
CONSTANTS
    Futures = {f1, f2, f3}
    Metas = {m1, m2}
    Threads = {t1, t2}
    Parents = {w1, w2}
    Nobody = Nobody
SYMMETRY Interchangeable
INVARIANTS
    NoLostActivation
    PointersAreCurrent
    BlocksReturn

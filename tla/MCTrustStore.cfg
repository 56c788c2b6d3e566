SPECIFICATION Spec
CONSTANTS
    d1 = d1  d2 = d2
    fa = fa  fb = fb  fc = fc
    nx = nx  ny = ny  short = short
    IDs = {d1, d2}
    FPs = {fa, fb, fc}
    Names = {nx, ny}
    Codes = {k1, k2}
    Tokens = {t1, t2, t3}
    Owner <- MCOwner
    Abbrev <- MCAbbrev
    TTL = 2
    MaxPending = 1
    None = None
INVARIANTS
    TypeOK
    PendingNeverTrusted
    DurableWhenUnlocked
    OneTrustedIDPerFingerprint
    PendingBounded
PROPERTIES
    PinnedFingerprint
    ImplementsRegister
    ApprovedAsShown
    SaveCommitsOneChange

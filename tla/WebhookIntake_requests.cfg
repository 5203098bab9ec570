SPECIFICATION FairSpec
CONSTANTS
    g = g
    a = a
    x = x
    gp = gp
    gm1 = gm1
    gm2 = gm2
    gc = gc
    go = go
    gf = gf
    gn = gn
    ap = ap
    as = as
    ac = ac
    ah = ah
    ak = ak
    ad = ad
    an = an
    xk = xk
    xp = xp
    PR = {g, a, x}
    Delivery = {gp, gm1, gm2, gc, go, gf, gn, ap, as, ac, ah, ak, ad, an, xk, xp}
    prOf <- MCPR
    kindOf <- MCKind
    Notice = {gn, an}
    GitHub = {g}
    Allowed = {g, a}
    Recognised = {g}
    QueueSize = 1
    Workers = 1
    Traffic <- MCTraffic
    MaxFaults = 1
CHECK_DEADLOCK FALSE
INVARIANT TypeOK
PROPERTY OwnNoticeIsInert
PROPERTY MentionIsHeard
PROPERTY PushIsReviewed

SPECIFICATION Spec
CONSTANTS
    c1 = c1
    c2 = c2
    n1 = n1
    n2 = n2
    none = none
    blank = blank
    junk = junk
    good = good
    bad = bad
    P = P
    Q = Q
    Contexts <- MCContexts
    Totals <- MCTotals
    FirstWorlds <- MCFirstWorlds
    Names = {n1, n2}
    Procs = {P, Q}
    New = P
    Width = 4
    Gib = 2
    Texts = {0, 5}
    Combinations = 2
    MaxWorlds = 3
    MaxRetries = 1
    SSH_SYNC_ATTEMPTS = 2
INVARIANTS ReviewIsSubmittable OneInventoryPublished PublishedWasTrue OneWorldPerCommand ActsUnambiguously

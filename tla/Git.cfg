SPECIFICATION Spec
CONSTANTS
    p = p  q = q
    c0 = c0  c1 = c1  c2 = c2  d1 = d1
    agent = agent  other = other  main = main
    hub = hub  unknown = unknown
    m1 = m1  m2 = m2  m3 = m3  m4 = m4
    k1 = k1  k2 = k2  k3 = k3  t1 = t1  t2 = t2
    r1 = r1  r2 = r2  j1 = j1  j2 = j2
    none = none
    Requests <- MCRequests
    Providers = {hub}
    Mixes <- MCMixes
    Commits <- MCCommits
    Ancestors <- MCAncestors
    Refs = {agent, other, main}
    Permitted = {agent, other}
    Pushes <- MCPushes
    FirstRefs <- MCFirstRefs
    Moves <- MCMoves
    Keys = {1, 2}
    Mrs = {m1, m2, m3, m4}
    MrBranch <- MCMrBranch
    Forks = {m3}
    FirstMrs <- MCFirstMrs
    CommentMr <- MCCommentMr
    FirstMarked = {k1, k2}
    ThreadMr <- MCThreadMr
    RunBranch <- MCRunBranch
    JobRun <- MCJobRun
    Commands <- MCCommands
    Pipe = 1
    Units = 2
    MaxOutside = 1
    MaxEdits = 3
    MaxPeople = 1
INVARIANTS PushesPreserveHistory ActivityTrue LockSerializes WritesInScope AnswersTrue
PROPERTY SessionsEnd
CHECK_DEADLOCK FALSE

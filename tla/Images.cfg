CONSTANTS
    Installers = {i1, i2}
    Tasks <- MCTasks
    Identity <- MCIdentity
    Marks = {1}
    Flaws <- MCFlaws
    MaxRuns = 2
    MaxCrashes = 1
    MaxDamage = 1
    MaxServerStarts = 1
    none = none
SYMMETRY Symmetry
SPECIFICATION Spec
INVARIANTS ReadersSeeWhole ReadyFits FailuresCleanUp
CHECK_DEADLOCK FALSE

\* Two clients arm, watch, commit, cancel and restart; the daemon may die and
\* the wall clock step back once.
CONSTANTS
    c1 = c1 c2 = c2
    Conn <- TwoConns
    Countdown = 2
    Lapse = 1
    Interval = 2
    Steps <- Backwards
    MaxTime = 3
    MaxArms = 2
    MaxRestarts = 2
    MaxCrashes = 1
    MaxSteps = 1
SPECIFICATION Spec
SYMMETRY SymmetryConns
INVARIANTS WatchedThroughout OneResetPerArming RestartsSpaced
PROPERTIES PassesUndisturbed CancelBinds

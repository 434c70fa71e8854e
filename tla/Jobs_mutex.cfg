\* Two mutating jobs, two request threads, one server crash: the lock, the
\* verdicts about dead processes, pruning with room for one job.
SPECIFICATION Spec
CONSTANTS
    m1 = m1
    m2 = m2
    r1 = r1
    t1 = t1
    t2 = t2
    NoJob = NoJob
    Job <- JobsMutating
    Mutating <- JobsMutating
    Cancellable = {}
    Thread <- Threads
    Requests = {"read"}
    KeepJobs = 1
    MaxPrompts = 0
    MaxCrashes = 1
SYMMETRY SymmetryMutating
PROPERTIES LockSpec NoResurrection

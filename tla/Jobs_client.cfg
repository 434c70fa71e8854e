\* One client of a cancellable job and of one that must not be stopped, side by
\* side: reads, answers and cancels race prompts, SIGTERM, deaths and pruning.
SPECIFICATION Spec
CONSTANTS
    m1 = m1
    m2 = m2
    r1 = r1
    t1 = t1
    t2 = t2
    NoJob = NoJob
    Job <- JobsMixed
    Mutating = {m1}
    Cancellable = {m1}
    Thread <- OneThread
    Requests = {"read","answer","cancel"}
    KeepJobs = 1
    MaxPrompts = 1
    MaxCrashes = 0
INVARIANT ReportStands
PROPERTIES PruneSparesRunning UnsafeNeverInterrupted

\* Two jobs that queue for the lock, one client that keeps reading.
SPECIFICATION FairSpec
CONSTANTS
    m1 = m1
    m2 = m2
    r1 = r1
    t1 = t1
    t2 = t2
    NoJob = NoJob
    Job <- JobsMutating
    Mutating <- JobsMutating
    Cancellable = {m1}
    Thread <- OneThread
    Requests = {"read"}
    KeepJobs = 1
    MaxPrompts = 1
    MaxCrashes = 1
PROPERTIES JobsEnd LockComesFree

-------------------------------- MODULE Jobs --------------------------------
(***************************************************************************)
(* The life of a web job (steam_backlog_enforcer/jobs): the request        *)
(* threads of the web server that create, read, answer and cancel it, the  *)
(* detached process that runs it, and the files both sides share.          *)
(*                                                                         *)
(* A job is its directory: an append-only event log, a pid file, the       *)
(* answers and the cancel marker.  Nobody stores its state; every reader   *)
(* folds the log.  The mutating-job lock is a flock on an open file        *)
(* description, so it is held as long as any process has that description  *)
(* open: the server thread that took it, and the child that inherited it.  *)
(***************************************************************************)
EXTENDS Naturals, Sequences, FiniteSets

CONSTANTS
    Job,          \* job ids; each one stands for a single POST /api/jobs
    Mutating,     \* the jobs whose command takes the one-mutating-job lock
    Cancellable,  \* the jobs whose command SIGTERM may stop
    Thread,       \* request threads of the web server
    NoJob,        \* "no job": not an element of Job
    Requests,     \* what clients ask about a job: subset of read, answer, cancel
    KeepJobs,     \* MAX_JOBS, the number of job dirs kept
    MaxPrompts,   \* bound: prompts one job may issue
    MaxCrashes    \* bound: crashes of the web server

ASSUME JobsAssumption ==
    /\ IsFiniteSet(Job)
    /\ Mutating \subseteq Job
    /\ Cancellable \subseteq Job
    /\ NoJob \notin Job
    /\ Job \cap Thread = {}
    /\ Requests \subseteq {"read", "answer", "cancel"}
    /\ KeepJobs \in Nat \ {0}
    /\ MaxPrompts \in Nat
    /\ MaxCrashes \in Nat

VARIABLES
    log,        \* [Job -> Seq(Event)]: events.jsonl, without log/progress lines
    pidFile,    \* the jobs whose pid file was written
    dirs,       \* the jobs that have a directory
    born,       \* [Job -> Nat]: the time in a job's id, which sorts by creation
    answers,    \* [Job -> SUBSET Nat]: prompts with a line in answers.jsonl
    cancelReq,  \* the jobs whose cancel.request marker was touched
    proc,       \* [Job -> process stage]
    outcome,    \* [Job -> how the process decided the job ended]
    sigterm,    \* the jobs with a SIGTERM on its way
    lockFor,    \* the job the locked description was opened for, or NoJob
    lockFds,    \* the processes that have that description open
    thr,        \* [Thread -> what the request thread is doing]
    crashes     \* crashes of the web server so far

files == <<log, pidFile, dirs, born, answers, cancelReq>>
process == <<proc, outcome, sigterm>>
lock == <<lockFor, lockFds>>
vars == <<files, process, lock, thr, crashes>>

Terminal == {"succeeded", "failed", "cancelled"}
JobState == Terminal \cup {"queued", "running", "waiting_input"}
Event == JobState \cup {"prompt", "result"}

\* The stages of the job process.  "unguarded": running, but the SIGTERM policy
\* is not installed yet; "sealing": the result is out, the final state is not;
\* "leaving": everything is written, the process has not exited.
Stage == {"none", "launcher", "interpreter", "started", "unguarded", "body",
          "asking", "waiting", "finishing", "sealing", "leaving", "exited"}

\* Where a request thread is.  lock..close: create_job; unstarted, unstarted2:
\* _fail_unstarted, and abort: its way out; fold..refold: read_job; act: the
\* handler's own step on the job it read.
Pc == {"idle", "lock", "write", "spawn", "confirm", "pid", "close",
       "unstarted", "unstarted2", "abort",
       "fold", "probe", "verdict", "verdict2", "refold", "act"}

Op == {"create", "read", "answer", "cancel"}

ThreadState == [pc : Pc, op : Op, job : Job \cup {NoJob}, seen : JobState,
                late : BOOLEAN, prompt : Nat]

Idle == [pc |-> "idle", op |-> "read", job |-> NoJob, seen |-> "queued",
         late |-> FALSE, prompt |-> 0]

-----------------------------------------------------------------------------
(* What a reader computes from the files. *)

\* The folded state: the last state event, "queued" if there is none.
FoldState(l) ==
    LET states == {i \in DOMAIN l : l[i] \in JobState}
    IN  IF states = {} THEN "queued"
        ELSE l[CHOOSE i \in states : \A k \in states : k <= i]

Count(l, e) == Cardinality({i \in DOMAIN l : l[i] = e})
Prompts(l) == Count(l, "prompt")
HasResult(l) == \E i \in DOMAIN l : l[i] = "result"

\* The prompt the job waits on: the latest one, unless answers.jsonl has it.
OpenPrompt(j) == IF Prompts(log[j]) \in answers[j] THEN 0 ELSE Prompts(log[j])

Exists(j) == j \in dirs
Alive(j) == proc[j] \notin {"none", "exited"}
Creating(j) == \E t \in Thread : thr[t].op = "create" /\ thr[t].job = j
                                 /\ thr[t].pc \in {"write", "spawn", "confirm", "pid",
                                                   "unstarted", "unstarted2"}

\* _SPAWN_GRACE_SECONDS (30 s) passed since request.json.  By then no request
\* is still creating the job (it waits _CONFIRM_SECONDS, 3 s, for the child) and
\* a child that lives has written its pid.  The reader looks at the clock right
\* after it folded the log, a time that is short compared to 30 s.
GraceOver(j) == ~Creating(j) /\ proc[j] \in {"none", "exited"}

\* Every emit takes the file's flock: one append is one step.
Emit(j, e) == log' = [log EXCEPT ![j] = Append(@, e)]

Step(t, pc) == thr' = [thr EXCEPT ![t].pc = pc]
Return(t) == thr' = [thr EXCEPT ![t] = Idle]

-----------------------------------------------------------------------------
Init ==
    /\ log = [j \in Job |-> <<>>]
    /\ pidFile = {}
    /\ dirs = {}
    /\ born = [j \in Job |-> 0]
    /\ answers = [j \in Job |-> {}]
    /\ cancelReq = {}
    /\ proc = [j \in Job |-> "none"]
    /\ outcome = [j \in Job |-> "none"]
    /\ sigterm = {}
    /\ lockFor = NoJob
    /\ lockFds = {}
    /\ thr = [t \in Thread |-> Idle]
    /\ crashes = 0

-----------------------------------------------------------------------------
(* create_job: POST /api/jobs. *)

\* The request passed _check_request.  Each id is used by one request only.
CreateJob(t, j) ==
    /\ thr[t].pc = "idle"
    /\ ~Exists(j) /\ log[j] = <<>>
    /\ \A u \in Thread : ~(thr[u].op = "create" /\ thr[u].job = j)
    /\ thr' = [thr EXCEPT ![t] = [Idle EXCEPT !.pc = "lock", !.op = "create", !.job = j]]
    /\ UNCHANGED <<files, process, lock, crashes>>

\* acquire_mutating_lock, or nothing for a read-only job.
AcquireMutatingLock(t) ==
    LET j == thr[t].job IN
    /\ thr[t].pc = "lock"
    /\ IF j \in Mutating
       THEN /\ lockFds = {}
            /\ lockFor' = j
            /\ lockFds' = {t}
       ELSE UNCHANGED lock
    /\ Step(t, "write")
    /\ UNCHANGED <<files, process, crashes>>

\* flock would block: the request is refused as busy and leaves nothing behind.
RefuseBusy(t) ==
    /\ thr[t].pc = "lock"
    /\ thr[t].job \in Mutating
    /\ lockFds # {}
    /\ Return(t)
    /\ UNCHANGED <<files, process, lock, crashes>>

\* prune(MAX_JOBS - 1): of the surplus oldest dirs, delete the finished ones.
Surplus == {d \in dirs : Cardinality({k \in dirs : born[k] > born[d]}) >= KeepJobs - 1}
\* Mutant of Prunable: whatever is old is deleted.
AnySurplus == Surplus
Prunable == {d \in Surplus : FoldState(log[d]) \in Terminal}

WriteJob(t) ==
    LET j == thr[t].job IN
    /\ thr[t].pc = "write"
    /\ dirs' = (dirs \ Prunable) \cup {j}
    /\ born' = [born EXCEPT ![j] = 1 + Cardinality({k \in Job : log[k] # <<>>})]
    /\ Emit(j, "queued")
    /\ Step(t, "spawn")
    /\ UNCHANGED <<pidFile, answers, cancelReq, process, lock, crashes>>

\* Popen: the child inherits the lock's descriptor (pass_fds), or it fails.
SpawnJob(t) ==
    LET j == thr[t].job IN
    /\ thr[t].pc = "spawn"
    /\ \/ /\ proc' = [proc EXCEPT ![j] = "launcher"]
          /\ lockFds' = IF j \in Mutating THEN lockFds \cup {j} ELSE lockFds
          /\ Step(t, "confirm")
       \/ /\ Step(t, "unstarted")
          /\ UNCHANGED <<proc, lockFds>>
    /\ UNCHANGED <<files, outcome, sigterm, lockFor, crashes>>

\* Mutant of ConfirmStarted: a launcher that is slow counts as failed.
ConfirmImpatiently(t) ==
    /\ thr[t].pc = "confirm"
    /\ Step(t, IF proc[thr[t].job] \in {"launcher", "exited"} THEN "unstarted" ELSE "pid")
    /\ UNCHANGED <<files, process, lock, crashes>>

\* _confirm_started: the child is the job's interpreter, or it already finished,
\* or 3 s passed; or the launcher died and nobody reported a result.
ConfirmStarted(t) ==
    LET j == thr[t].job
        gone == proc[j] = "exited" IN
    /\ thr[t].pc = "confirm"
    /\ Step(t, IF gone /\ ~HasResult(log[j]) THEN "unstarted" ELSE "pid")
    /\ UNCHANGED <<files, process, lock, crashes>>

WritePid(t) ==
    /\ thr[t].pc = "pid"
    /\ IF Exists(thr[t].job)
       THEN pidFile' = pidFile \cup {thr[t].job} /\ Step(t, "close")
       ELSE Step(t, "abort") /\ UNCHANGED pidFile
    /\ UNCHANGED <<log, dirs, born, answers, cancelReq, process, lock, crashes>>

\* _fail_unstarted: a result and a final state on the job's behalf, then raise.
FailUnstarted(t) ==
    /\ \/ thr[t].pc = "unstarted" /\ Emit(thr[t].job, "result") /\ Step(t, "unstarted2")
       \/ thr[t].pc = "unstarted2" /\ Emit(thr[t].job, "failed") /\ Step(t, "abort")
    /\ UNCHANGED <<pidFile, dirs, born, answers, cancelReq, process, lock, crashes>>

\* Mutant of CloseLock: the lock is unlocked (LOCK_UN), not just closed.
UnlockAndClose(t) ==
    /\ thr[t].pc \in {"close", "abort"}
    /\ lockFds' = {}
    /\ Return(t)
    /\ UNCHANGED <<files, process, lockFor, crashes>>

\* The finally block: the server's copy of the lock descriptor is closed; the
\* view then reads the job it created, or lets the error through.
CloseLock(t) ==
    /\ thr[t].pc \in {"close", "abort"}
    /\ lockFds' = lockFds \ {t}
    /\ IF thr[t].pc = "close"
       THEN thr' = [thr EXCEPT ![t].pc = "fold", ![t].op = "read"]
       ELSE Return(t)
    /\ UNCHANGED <<files, process, lockFor, crashes>>

-----------------------------------------------------------------------------
(* read_job, and the answer and cancel handlers that start with it. *)

\* op "answer": the client answers the prompt it saw last.
StartOp(t, j, op) ==
    /\ thr[t].pc = "idle"
    /\ Exists(j)
    /\ op \in Requests
    /\ op = "answer" => Prompts(log[j]) > 0
    /\ thr' = [thr EXCEPT ![t] = [Idle EXCEPT !.pc = "fold", !.op = op, !.job = j,
                                      !.prompt = IF op = "answer" THEN Prompts(log[j]) ELSE 0]]
    /\ UNCHANGED <<files, process, lock, crashes>>

\* The job dir was pruned meanwhile: not_found.
NotFound(t) ==
    /\ thr[t].pc \in {"fold", "probe", "verdict", "verdict2", "refold", "act"}
    /\ ~Exists(thr[t].job)
    /\ Return(t)
    /\ UNCHANGED <<files, process, lock, crashes>>

Fold(t) ==
    LET s == FoldState(log[thr[t].job]) IN
    /\ thr[t].pc \in {"fold", "refold"}
    /\ Exists(thr[t].job)
    /\ thr' = [thr EXCEPT ![t].seen = s,
                          ![t].late = GraceOver(thr[t].job),
                          ![t].pc = IF thr[t].pc = "refold" \/ s \in Terminal
                                    THEN "act" ELSE "probe"]
    /\ UNCHANGED <<files, process, lock, crashes>>

\* Mutant of ProbePid: a dead process is not noticed.
ProbeNothing(t) ==
    /\ thr[t].pc = "probe"
    /\ Exists(thr[t].job)
    /\ Step(t, "refold")
    /\ UNCHANGED <<files, process, lock, crashes>>

\* Mutant of ProbePid: the state goes with a pid file that is read as dead.
ProbeTrustsState(t) ==
    /\ thr[t].pc = "probe"
    /\ Exists(thr[t].job)
    /\ Step(t, IF thr[t].seen = "running" THEN "verdict" ELSE "refold")
    /\ UNCHANGED <<files, process, lock, crashes>>

\* _reconcile, first half: is the process of the job just folded still there?
\* Without a pid file it is too early to say.
ProbePid(t) ==
    LET j == thr[t].job IN
    /\ thr[t].pc = "probe"
    /\ Exists(j)
    /\ Step(t, IF j \in pidFile /\ ~Alive(j) THEN "verdict" ELSE "refold")
    /\ UNCHANGED <<files, process, lock, crashes>>

\* ... or 30 s have passed and there is none.
GiveUpOnPid(t) ==
    /\ thr[t].pc = "probe"
    /\ Exists(thr[t].job)
    /\ thr[t].job \notin pidFile /\ thr[t].late
    /\ Step(t, "verdict")
    /\ UNCHANGED <<files, process, lock, crashes>>

\* _reconcile, second half: the failed verdict, as two appends.
Reconcile(t) ==
    /\ Exists(thr[t].job)
    /\ \/ thr[t].pc = "verdict" /\ Emit(thr[t].job, "result") /\ Step(t, "verdict2")
       \/ thr[t].pc = "verdict2" /\ Emit(thr[t].job, "failed") /\ Step(t, "refold")
    /\ UNCHANGED <<pidFile, dirs, born, answers, cancelReq, process, lock, crashes>>

ReadDone(t) ==
    /\ thr[t].pc = "act" /\ thr[t].op = "read" /\ Exists(thr[t].job)
    /\ Return(t)
    /\ UNCHANGED <<files, process, lock, crashes>>

\* write_answer: only for the prompt that is open, of a job that is not over.
WriteAnswer(t) ==
    LET j == thr[t].job IN
    /\ thr[t].pc = "act" /\ thr[t].op = "answer" /\ Exists(j)
    /\ answers' = IF thr[t].seen \notin Terminal /\ OpenPrompt(j) = thr[t].prompt
                  THEN [answers EXCEPT ![j] = @ \cup {thr[t].prompt}]
                  ELSE answers
    /\ Return(t)
    /\ UNCHANGED <<log, pidFile, dirs, born, cancelReq, process, lock, crashes>>

\* Mutant of Cancel: the cancellable flag is not looked at.
CancelAnything(t) ==
    LET j == thr[t].job IN
    /\ thr[t].pc = "act" /\ thr[t].op = "cancel" /\ Exists(j)
    /\ sigterm' = IF j \in pidFile /\ Alive(j) THEN sigterm \cup {j} ELSE sigterm
    /\ Return(t)
    /\ UNCHANGED <<files, proc, outcome, lock, crashes>>

\* cancel: a marker for a job seen waiting on a prompt, else SIGTERM to the pid
\* of a cancellable one that is not over.
Cancel(t) ==
    LET j == thr[t].job
        kill == j \in Cancellable /\ thr[t].seen \notin Terminal /\ j \in pidFile /\ Alive(j) IN
    /\ thr[t].pc = "act" /\ thr[t].op = "cancel" /\ Exists(j)
    /\ IF thr[t].seen = "waiting_input"
       THEN cancelReq' = cancelReq \cup {j} /\ UNCHANGED sigterm
       ELSE sigterm' = (IF kill THEN sigterm \cup {j} ELSE sigterm) /\ UNCHANGED cancelReq
    /\ Return(t)
    /\ UNCHANGED <<log, pidFile, dirs, born, answers, proc, outcome, lock, crashes>>

-----------------------------------------------------------------------------
(* The job process: run_job, up to and including its exit. *)

Become(j, stage) == proc' = [proc EXCEPT ![j] = stage]
Decide(j, how) == outcome' = [outcome EXCEPT ![j] = how]

\* The process is gone, and with it its copy of the lock descriptor.
Gone(j) == Become(j, "exited") /\ lockFds' = lockFds \ {j}

\* systemd-run execs the job's interpreter (without systemd it is the child).
ExecJob(j) ==
    /\ proc[j] = "launcher"
    /\ Become(j, "interpreter")
    /\ UNCHANGED <<files, outcome, sigterm, lock, thr, crashes>>

\* The first thing run_job does.
WriteOwnPid(j) ==
    /\ proc[j] = "interpreter"
    /\ pidFile' = pidFile \cup {j}
    /\ Become(j, "started")
    /\ UNCHANGED <<log, dirs, born, answers, cancelReq, outcome, sigterm, lock, thr, crashes>>

\* An unreadable request, or _hold_lock refuses the inherited descriptor.
RefuseToRun(j) ==
    /\ proc[j] = "started"
    /\ Decide(j, "failed")
    /\ Become(j, "finishing")
    /\ UNCHANGED <<files, sigterm, lock, thr, crashes>>

\* _hold_lock keeps the inherited descriptor; then the job is "running".
BeginRun(j) ==
    /\ proc[j] = "started"
    /\ Emit(j, "running")
    /\ Become(j, "unguarded")
    /\ UNCHANGED <<pidFile, dirs, born, answers, cancelReq, outcome, sigterm, lock, thr, crashes>>

\* _on_sigterm: from here on SIGTERM cancels the command or is ignored.
InstallHandler(j) ==
    /\ proc[j] = "unguarded"
    /\ Become(j, "body")
    /\ UNCHANGED <<files, outcome, sigterm, lock, thr, crashes>>

\* _ask: waiting_input and the prompt are two events.
Ask(j) ==
    /\ \/ /\ proc[j] = "body" /\ Prompts(log[j]) < MaxPrompts
          /\ Emit(j, "waiting_input") /\ Become(j, "asking")
       \/ /\ proc[j] = "asking"
          /\ Emit(j, "prompt") /\ Become(j, "waiting")
    /\ UNCHANGED <<pidFile, dirs, born, answers, cancelReq, outcome, sigterm, lock, thr, crashes>>

\* _wait polls the cancel marker before the answers, but the marker may appear
\* between the two reads: an answer that is there can win.
TakeAnswer(j) ==
    /\ proc[j] = "waiting"
    /\ Prompts(log[j]) \in answers[j]
    /\ Emit(j, "running")
    /\ Become(j, "body")
    /\ UNCHANGED <<pidFile, dirs, born, answers, cancelReq, outcome, sigterm, lock, thr, crashes>>

\* Mutant of StopWaiting: the prompt has no timeout.
WaitForever(j) ==
    /\ proc[j] = "waiting" /\ j \in cancelReq
    /\ Decide(j, "cancelled")
    /\ Become(j, "finishing")
    /\ UNCHANGED <<files, sigterm, lock, thr, crashes>>

\* _wait gives up: the cancel marker is there, or nobody answered in time.
StopWaiting(j) ==
    /\ proc[j] = "waiting"
    /\ \/ j \in cancelReq /\ Decide(j, "cancelled")
       \/ Decide(j, "failed")
    /\ Become(j, "finishing")
    /\ UNCHANGED <<files, sigterm, lock, thr, crashes>>

\* The gate or the command is done: it returned, refused, printed an error,
\* raised or exited.
CommandReturns(j) ==
    /\ proc[j] = "body"
    /\ \E how \in {"succeeded", "failed"} : Decide(j, how)
    /\ Become(j, "finishing")
    /\ UNCHANGED <<files, sigterm, lock, thr, crashes>>

\* _finish: the result event; then result.json and the final state event.
Finish(j) ==
    /\ \/ proc[j] = "finishing" /\ Emit(j, "result") /\ Become(j, "sealing")
       \/ proc[j] = "sealing" /\ Emit(j, outcome[j]) /\ Become(j, "leaving")
    /\ UNCHANGED <<pidFile, dirs, born, answers, cancelReq, outcome, sigterm, lock, thr, crashes>>

Exit(j) ==
    /\ proc[j] = "leaving"
    /\ Gone(j)
    /\ UNCHANGED <<files, outcome, sigterm, lockFor, thr, crashes>>

\* SIGTERM arrives.  Before the policy is installed it kills the process; then
\* it raises JobCancelledError in a cancellable command and is ignored otherwise.
TakeSigterm(j) ==
    /\ j \in sigterm /\ Alive(j)
    /\ sigterm' = sigterm \ {j}
    /\ CASE proc[j] \in {"launcher", "interpreter", "started", "unguarded"} ->
              Gone(j) /\ Decide(j, "sigterm")
         [] proc[j] \in {"body", "asking", "waiting"} /\ j \in Cancellable ->
              Become(j, "finishing") /\ Decide(j, "cancelled") /\ UNCHANGED lockFds
         [] OTHER -> UNCHANGED <<proc, outcome, lockFds>>
    /\ UNCHANGED <<files, lockFor, thr, crashes>>

\* The launcher fails, or the process is killed (SIGKILL, out of memory).
Kill(j) ==
    /\ Alive(j)
    /\ Gone(j)
    /\ UNCHANGED <<files, outcome, sigterm, lockFor, thr, crashes>>

\* The web server dies or is restarted: its threads and descriptors are gone,
\* the jobs (their own scopes) and the files stay.
ServerCrash ==
    /\ crashes < MaxCrashes
    /\ crashes' = crashes + 1
    /\ thr' = [t \in Thread |-> Idle]
    /\ lockFds' = lockFds \ Thread
    /\ UNCHANGED <<files, process, lockFor>>

-----------------------------------------------------------------------------
\* The steps a thread takes once it has a request.
ThreadStep(t) ==
    \/ AcquireMutatingLock(t) \/ RefuseBusy(t) \/ WriteJob(t) \/ SpawnJob(t)
    \/ ConfirmStarted(t) \/ WritePid(t) \/ FailUnstarted(t) \/ CloseLock(t)
    \/ NotFound(t) \/ Fold(t) \/ ProbePid(t) \/ GiveUpOnPid(t)
    \/ Reconcile(t) \/ ReadDone(t) \/ WriteAnswer(t) \/ Cancel(t)

\* The steps of a job process that runs undisturbed.
ProcessStep(j) ==
    \/ ExecJob(j) \/ WriteOwnPid(j) \/ RefuseToRun(j) \/ BeginRun(j)
    \/ InstallHandler(j) \/ Ask(j) \/ TakeAnswer(j) \/ StopWaiting(j)
    \/ CommandReturns(j) \/ Finish(j) \/ Exit(j)

Next ==
    \/ \E t \in Thread, j \in Job :
          CreateJob(t, j) \/ \E op \in Requests : StartOp(t, j, op)
    \/ \E t \in Thread : ThreadStep(t)
    \/ \E j \in Job : ProcessStep(j) \/ TakeSigterm(j) \/ Kill(j)
    \/ ServerCrash

Spec == Init /\ [][Next]_vars

\* The kernel schedules the server's threads and the job processes; every
\* command returns; a prompt is waited for at most PROMPT_TIMEOUT_SECONDS; and
\* the UI keeps reading each job it shows, so one of its reads is late enough to
\* find the grace of a job without a pid over.
Fairness ==
    /\ \A t \in Thread : WF_vars(ThreadStep(t))
    /\ \A j \in Job : WF_vars(ProcessStep(j))
    /\ \A j \in Job : SF_vars(\E t \in Thread : StartOp(t, j, "read"))
    /\ \A j \in Job : SF_vars(\E t \in Thread : thr[t].job = j /\ GiveUpOnPid(t))

FairSpec == Spec /\ Fairness

-----------------------------------------------------------------------------
(* Properties. *)

\* Type invariant: every variable stays in its set; the log holds only the
\* events the job protocol has.
TypeOK ==
    /\ log \in [Job -> Seq(Event)]
    /\ pidFile \subseteq Job
    /\ dirs \subseteq Job
    /\ born \in [Job -> Nat]
    /\ answers \in [Job -> SUBSET Nat]
    /\ cancelReq \subseteq Job
    /\ proc \in [Job -> Stage]
    /\ outcome \in [Job -> Terminal \cup {"none", "sigterm"}]
    /\ sigterm \subseteq Job
    /\ lockFor \in Job \cup {NoJob}
    /\ lockFds \subseteq Job \cup Thread
    /\ thr \in [Thread -> ThreadState]
    /\ crashes \in Nat

\* Of the mutating lock: whose turn it is, and which jobs run under it.
LockHolder == IF lockFds = {} THEN NoJob ELSE lockFor
Running == {j \in Mutating : Alive(j)}

\* What the lock promises (MutatingLock.tla): a descriptor shared by the server
\* and its child implements one holder that keeps the lock until its job is over.
Lock == INSTANCE MutatingLock WITH Job <- Mutating, holder <- LockHolder, running <- Running
LockSpec == Lock!Spec

\* Two jobs that change state never run at the same time (acquire_mutating_lock
\* and the descriptor handed from the server to the child), whatever crashes.
OneMutatingJob ==
    \A j, k \in Mutating : Alive(j) /\ Alive(k) => j = k

\* While a process still lives nobody has put words in its mouth: the result and
\* the final state it leaves behind are its own and the only ones.
ReportStands ==
    \A j \in Job : proc[j] = "leaving" =>
        Count(log[j], "result") = 1 /\ FoldState(log[j]) = outcome[j]

\* A command that is unsafe to stop midway is only ever cancelled while it is
\* blocked on a prompt, however stale the state was that the cancel went by.
UnsafeNeverInterrupted ==
    [][\A j \in Job \ Cancellable :
          outcome'[j] \in {"cancelled", "sigterm"} /\ outcome[j] # outcome'[j]
          => proc[j] = "waiting"]_vars

\* prune never deletes the directory of a job that has still something to write
\* in it ("a job that is still running is never deleted, however old").
PruneSparesRunning ==
    [][\A j \in Job : Exists(j) /\ ~Exists(j)' => proc[j] \in {"none", "leaving", "exited"}]_vars

\* A job that was over stays over: no late event of the process or of a second
\* reader makes it queued, running or waiting again.
NoResurrection ==
    [][\A j \in Job : FoldState(log[j]) \in Terminal => FoldState(log[j])' \in Terminal]_vars

\* Every job that got a directory is eventually seen over, or its directory was
\* pruned because it was, even if the server, the launcher or the process dies.
JobsEnd ==
    \A j \in Job : Exists(j) ~> (FoldState(log[j]) \in Terminal \/ ~Exists(j))

\* The mutating lock is never leaked: it is free again and again.
LockComesFree == []<>(lockFds = {})
=============================================================================

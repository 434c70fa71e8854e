----------------------------- MODULE JobsProofs -----------------------------
(***************************************************************************)
(* Proofs about Jobs, for any number of jobs and request threads: type     *)
(* correctness; mutual exclusion of mutating jobs under crashes and kills, *)
(* and that it implements MutatingLock; and, from an invariant on the life *)
(* of one job (LifeInv), that what its log says is what became of it.      *)
(***************************************************************************)
EXTENDS Jobs, FiniteSetTheorems, WellFoundedInduction, TLAPS

-----------------------------------------------------------------------------
(* What a reader computes from a log. *)

\* A nonempty set of naturals with an upper bound has a greatest element.
LEMMA Greatest ==
    ASSUME NEW n \in Nat, NEW S \in SUBSET (1..n), S # {}
    PROVE  \E i \in S : \A k \in S : k <= i
<1> DEFINE T == {n - i : i \in S}
<1>1. T \subseteq Nat /\ T # {}
  <2>1. \A i \in S : n - i \in Nat
    OBVIOUS
  <2> QED
    BY <2>1
<1>2. PICK x \in T : \A y \in T : ~(<<y, x>> \in OpToRel(<, Nat))
  BY <1>1, NatLessThanWellFounded, WFMin
<1>3. \A y \in T : ~(y < x)
  BY <1>1, <1>2 DEF OpToRel
<1>4. PICK i \in S : x = n - i
  OBVIOUS
<1>5. ASSUME NEW k \in S
      PROVE  k <= i
  <2>1. n - k \in T
    OBVIOUS
  <2>2. ~(n - k < n - i)
    BY <1>3, <1>4, <2>1
  <2> QED
    BY <2>2
<1> QED
  BY <1>5

\* The folded state is a job state, whatever the log holds.
LEMMA FoldStateType ==
    ASSUME NEW l \in Seq(Event)
    PROVE  FoldState(l) \in JobState
<1> DEFINE S == {i \in DOMAIN l : l[i] \in JobState}
<1>1. CASE S = {}
  BY <1>1 DEF FoldState, JobState
<1>2. CASE S # {}
  <2>1. S \in SUBSET (1..Len(l)) /\ Len(l) \in Nat
    OBVIOUS
  <2>2. \E i \in S : \A k \in S : k <= i
    BY <1>2, <2>1, Greatest
  <2>3. (CHOOSE i \in S : \A k \in S : k <= i) \in S
    BY <2>2
  <2> QED
    BY <1>2, <2>3 DEF FoldState
<1> QED
  BY <1>1, <1>2

\* Events of one kind are counted by a natural number.
LEMMA CountType ==
    ASSUME NEW l \in Seq(Event), NEW e
    PROVE  Count(l, e) \in Nat
<1>1. IsFiniteSet(1..Len(l))
  BY FS_Interval
<1>2. {i \in DOMAIN l : l[i] = e} \in SUBSET (1..Len(l))
  OBVIOUS
<1>3. IsFiniteSet({i \in DOMAIN l : l[i] = e})
  BY <1>1, <1>2, FS_Subset
<1> QED
  BY <1>3, FS_CardinalityType DEF Count

\* The folded state of a log that got one more event.
LEMMA FoldAppend ==
    ASSUME NEW l \in Seq(Event), NEW e \in Event
    PROVE  FoldState(Append(l, e)) = IF e \in JobState THEN e ELSE FoldState(l)
<1> DEFINE m == Append(l, e)
           n == Len(l) + 1
           S == {i \in DOMAIN l : l[i] \in JobState}
           T == {i \in DOMAIN m : m[i] \in JobState}
<1>1. /\ Len(l) \in Nat /\ DOMAIN l = 1..Len(l) /\ DOMAIN m = 1..n
      /\ m[n] = e /\ \A i \in 1..Len(l) : m[i] = l[i]
  OBVIOUS
<1>2. FoldState(m) = IF T = {} THEN "queued" ELSE m[CHOOSE i \in T : \A k \in T : k <= i]
  BY DEF FoldState
<1>3. FoldState(l) = IF S = {} THEN "queued" ELSE l[CHOOSE i \in S : \A k \in S : k <= i]
  BY DEF FoldState
<1>4. CASE e \in JobState
  <2>1. n \in T /\ \A k \in T : k \in Nat /\ k <= n
    BY <1>1, <1>4
  <2> HIDE DEF T, m
  <2>2. \A i \in T : (\A k \in T : k <= i) => i = n
    BY <1>1, <2>1
  <2>3. (CHOOSE i \in T : \A k \in T : k <= i) = n
    BY <2>1, <2>2
  <2>4. FoldState(m) = e
    BY <1>1, <1>2, <2>1, <2>3
  <2> QED
    BY <1>4, <2>4 DEF m
<1>5. CASE e \notin JobState
  <2>1. T = S
    BY <1>1, <1>5
  <2>2. CASE S = {}
    <3>1. FoldState(m) = "queued" /\ FoldState(l) = "queued"
      BY <1>2, <1>3, <2>1, <2>2
    <3> QED
      BY <1>5, <3>1
  <2>3. CASE S # {}
    <3>1. S \in SUBSET (1..Len(l))
      BY <1>1
    <3>2. \E i \in S : \A k \in S : k <= i
      BY <1>1, <2>3, <3>1, Greatest
    <3> HIDE DEF S, T, m
    <3>3. (CHOOSE i \in S : \A k \in S : k <= i) \in 1..Len(l)
      BY <3>1, <3>2
    <3>4. FoldState(m) = FoldState(l)
      BY <1>1, <1>2, <1>3, <2>1, <2>3, <3>3
    <3> QED
      BY <1>5, <3>4 DEF m
  <2> QED
    BY <2>2, <2>3
<1> QED
  BY <1>4, <1>5

\* One more event is counted once.
LEMMA CountAppend ==
    ASSUME NEW l \in Seq(Event), NEW e \in Event, NEW f
    PROVE  Count(Append(l, e), f) = IF e = f THEN Count(l, f) + 1 ELSE Count(l, f)
<1> DEFINE m == Append(l, e)
           n == Len(l) + 1
           S == {i \in DOMAIN l : l[i] = f}
           T == {i \in DOMAIN m : m[i] = f}
<1>1. /\ Len(l) \in Nat /\ DOMAIN l = 1..Len(l) /\ DOMAIN m = 1..n
      /\ m[n] = e /\ \A i \in 1..Len(l) : m[i] = l[i]
  OBVIOUS
<1>2. IsFiniteSet(S)
  <2>1. IsFiniteSet(1..Len(l)) /\ S \in SUBSET (1..Len(l))
    BY <1>1, FS_Interval
  <2> QED
    BY <2>1, FS_Subset
<1>3. n \notin S
  BY <1>1
<1>4. CASE e = f
  <2>1. T = S \cup {n}
    BY <1>1, <1>4
  <2> HIDE DEF S, T, n
  <2>2. Cardinality(T) = Cardinality(S) + 1
    BY <1>2, <1>3, <2>1, FS_AddElement
  <2> QED
    BY <1>4, <2>2 DEF Count, S, T
<1>5. CASE e # f
  <2>1. T = S
    BY <1>1, <1>5
  <2> QED
    BY <1>5, <2>1 DEF Count
<1> QED
  BY <1>4, <1>5

\* An empty log, and one that says queued, report nothing.
LEMMA FreshLog ==
    /\ Count(<<>>, "result") = 0 /\ FoldState(<<>>) = "queued"
    /\ Count(<<"queued">>, "result") = 0 /\ FoldState(<<"queued">>) = "queued"
<1>1. {i \in DOMAIN <<>> : <<>>[i] = "result"} = {} /\ {i \in DOMAIN <<>> : <<>>[i] \in JobState} = {}
  OBVIOUS
<1>2. Count(<<>>, "result") = 0 /\ FoldState(<<>>) = "queued"
  BY <1>1, FS_EmptySet DEF Count, FoldState
<1>3. Append(<<>>, "queued") = <<"queued">> /\ <<>> \in Seq(Event)
  OBVIOUS
<1>4. "queued" \in Event /\ "queued" \in JobState /\ "queued" # "result"
  BY DEF Event, JobState
<1>5. Count(Append(<<>>, "queued"), "result") = Count(<<>>, "result")
  BY <1>3, <1>4, CountAppend
<1>6. FoldState(Append(<<>>, "queued")) = "queued"
  BY <1>3, <1>4, FoldAppend
<1> QED
  BY <1>2, <1>3, <1>5, <1>6

-----------------------------------------------------------------------------
(* Type correctness. *)

\* A thread that is not idle works on a job.
BusyThreadHasJob == \A t \in Thread : thr[t].pc # "idle" => thr[t].job \in Job

\* A process that is about to report an outcome has decided on one.
OutcomeDecided ==
    \A j \in Job : proc[j] \in {"finishing", "sealing"} => outcome[j] \in Terminal

TypeInv == TypeOK /\ BusyThreadHasJob /\ OutcomeDecided

\* An append keeps the log well typed.
LEMMA EmitType ==
    ASSUME TypeOK, NEW j \in Job, NEW e \in Event, Emit(j, e)
    PROVE  log' \in [Job -> Seq(Event)]
BY DEF TypeOK, Emit

\* The new state of a thread record is well typed.
LEMMA StepType ==
    ASSUME TypeInv, NEW t \in Thread, NEW pc \in Pc, thr[t].pc # "idle", Step(t, pc)
    PROVE  /\ thr' \in [Thread -> ThreadState]
           /\ BusyThreadHasJob'
BY DEF TypeInv, TypeOK, BusyThreadHasJob, Step, ThreadState

LEMMA ReturnType ==
    ASSUME TypeInv, NEW t \in Thread, Return(t)
    PROVE  /\ thr' \in [Thread -> ThreadState]
           /\ BusyThreadHasJob'
BY DEF TypeInv, TypeOK, BusyThreadHasJob, Return, Idle, Pc, Op, JobState, ThreadState

\* The same when a step replaces the whole record.
LEMMA ReplaceType ==
    ASSUME TypeInv, NEW t \in Thread,
           NEW r \in [pc : Pc, op : Op, job : Job, seen : JobState, late : BOOLEAN, prompt : Nat],
           thr' = [thr EXCEPT ![t] = r]
    PROVE  /\ thr' \in [Thread -> ThreadState]
           /\ BusyThreadHasJob'
BY DEF TypeInv, TypeOK, BusyThreadHasJob, ThreadState

LEMMA ThreadStepType ==
    ASSUME TypeInv, NEW t \in Thread, ThreadStep(t)
    PROVE  TypeInv'
<1> USE JobsAssumption DEF TypeInv
<1>0. thr[t].pc # "idle" /\ thr[t].job \in Job
  BY DEF ThreadStep, AcquireMutatingLock, RefuseBusy, WriteJob, SpawnJob, ConfirmStarted,
         WritePid, FailUnstarted, CloseLock, NotFound, Fold, ProbePid, GiveUpOnPid,
         Reconcile, ReadDone, WriteAnswer, Cancel, BusyThreadHasJob
<1>a. OutcomeDecided'
  <2>1. CASE SpawnJob(t)
    BY <1>0, <2>1 DEF SpawnJob, OutcomeDecided, TypeOK
  <2>2. CASE ~SpawnJob(t)
    <3>1. UNCHANGED <<proc, outcome>>
      BY <2>2 DEF ThreadStep, AcquireMutatingLock, RefuseBusy, WriteJob, ConfirmStarted,
         WritePid, FailUnstarted, CloseLock, NotFound, Fold, ProbePid, GiveUpOnPid,
         Reconcile, ReadDone, WriteAnswer, Cancel, process
    <3> QED
      BY <3>1 DEF OutcomeDecided
  <2> QED
    BY <2>1, <2>2
<1> SUFFICES TypeOK' /\ BusyThreadHasJob'
  BY <1>a
<1>1. CASE AcquireMutatingLock(t)
  BY <1>0, <1>1, StepType DEF AcquireMutatingLock, TypeOK, files, process, lock, Pc
<1>2. CASE RefuseBusy(t)
  BY <1>2, ReturnType DEF RefuseBusy, TypeOK, files, process, lock
<1>3. CASE WriteJob(t)
  <2>1. "queued" \in Event /\ "spawn" \in Pc
    BY DEF Event, JobState, Pc
  <2>2. Cardinality({k \in Job : log[k] # <<>>}) \in Nat
    BY FS_Subset, FS_CardinalityType
  <2>3. log' \in [Job -> Seq(Event)] /\ BusyThreadHasJob' /\ thr' \in [Thread -> ThreadState]
    BY <1>0, <1>3, <2>1, StepType, EmitType DEF WriteJob
  <2>4. dirs' \subseteq Job /\ born' \in [Job -> Nat]
    BY <1>0, <1>3, <2>2 DEF WriteJob, TypeOK, Prunable, Surplus
  <2> QED
    BY <1>0, <1>3, <2>1, <2>3, <2>4
    DEF WriteJob, TypeOK, process, lock
<1>4. CASE SpawnJob(t)
  <2>1. "confirm" \in Pc /\ "unstarted" \in Pc /\ "launcher" \in Stage
    BY DEF Pc, Stage
  <2>2. BusyThreadHasJob' /\ thr' \in [Thread -> ThreadState]
    BY <1>0, <1>4, <2>1, StepType DEF SpawnJob
  <2>3. proc' \in [Job -> Stage]
    <3>1. PICK j \in Job : proc' = [proc EXCEPT ![j] = "launcher"] \/ proc' = proc
      BY <1>0, <1>4 DEF SpawnJob
    <3>2. proc \in [Job -> Stage]
      BY DEF TypeOK
    <3> QED
      BY <2>1, <3>1, <3>2
  <2>4. lockFds' \subseteq Job \cup Thread
    BY <1>0, <1>4 DEF SpawnJob, TypeOK
  <2> QED
    BY <1>0, <1>4, <2>2, <2>3, <2>4 DEF SpawnJob, TypeOK, files
<1>5. CASE ConfirmStarted(t)
  <2>1. "pid" \in Pc /\ "unstarted" \in Pc
    BY DEF Pc
  <2> QED
    BY <1>0, <1>5, <2>1, StepType DEF ConfirmStarted, TypeOK, files, process, lock
<1>6. CASE WritePid(t)
  <2>1. "close" \in Pc /\ "abort" \in Pc
    BY DEF Pc
  <2> QED
    BY <1>0, <1>6, <2>1, StepType DEF WritePid, TypeOK, process, lock
<1>7. CASE FailUnstarted(t)
  <2>1. "unstarted2" \in Pc /\ "abort" \in Pc /\ "result" \in Event /\ "failed" \in Event
    BY DEF Pc, Event, JobState, Terminal
  <2> QED
    BY <1>0, <1>7, <2>1, StepType, EmitType DEF FailUnstarted, TypeOK, process, lock
<1>8. CASE CloseLock(t)
  <2>1. TypeOK /\ lockFds' \subseteq Job \cup Thread
    BY <1>8 DEF CloseLock, TypeOK
  <2>2. CASE thr[t].pc = "close"
    <3>1. thr' = [thr EXCEPT ![t].pc = "fold", ![t].op = "read"]
      BY <1>8, <2>2 DEF CloseLock
    <3> DEFINE r == [thr[t] EXCEPT !.pc = "fold", !.op = "read"]
    <3>2. thr[t] \in ThreadState
      BY DEF TypeOK
    <3>3. r \in [pc : Pc, op : Op, job : Job, seen : JobState, late : BOOLEAN, prompt : Nat]
      BY <1>0, <3>2 DEF Pc, Op, ThreadState
    <3>4. thr' = [thr EXCEPT ![t] = r]
      BY <3>1, <2>1 DEF TypeOK
    <3> QED
      BY <1>8, <2>1, <3>3, <3>4, ReplaceType DEF CloseLock, TypeOK, files, process
  <2>3. CASE thr[t].pc # "close"
    <3>1. Return(t)
      BY <1>8, <2>3 DEF CloseLock
    <3> QED
      BY <1>8, <2>1, <3>1, ReturnType DEF CloseLock, TypeOK, files, process
  <2> QED
    BY <2>2, <2>3
<1>9. CASE NotFound(t)
  BY <1>9, ReturnType DEF NotFound, TypeOK, files, process, lock
<1>10. CASE Fold(t)
  <2> DEFINE s == FoldState(log[thr[t].job])
             pc == IF thr[t].pc = "refold" \/ s \in Terminal THEN "act" ELSE "probe"
  <2>1. s \in JobState
    BY <1>0, FoldStateType DEF TypeOK
  <2>2. pc \in Pc
    BY DEF Pc
  <2>3. GraceOver(thr[t].job) \in BOOLEAN
    BY DEF GraceOver
  <2>4. thr' = [thr EXCEPT ![t].seen = s, ![t].late = GraceOver(thr[t].job), ![t].pc = pc]
    BY <1>10 DEF Fold
  <2> HIDE DEF s, pc
  <2> DEFINE r == [thr[t] EXCEPT !.seen = s, !.late = GraceOver(thr[t].job), !.pc = pc]
  <2>5. thr[t] \in ThreadState
    BY DEF TypeOK
  <2>6. r \in [pc : Pc, op : Op, job : Job, seen : JobState, late : BOOLEAN, prompt : Nat]
    BY <1>0, <2>1, <2>2, <2>3, <2>5 DEF ThreadState
  <2>7. thr' = [thr EXCEPT ![t] = r]
    BY <2>4 DEF TypeOK
  <2> QED
    BY <1>10, <2>6, <2>7, ReplaceType DEF Fold, TypeOK, files, process, lock
<1>11. CASE ProbePid(t)
  <2>1. "verdict" \in Pc /\ "refold" \in Pc
    BY DEF Pc
  <2> QED
    BY <1>0, <1>11, <2>1, StepType DEF ProbePid, TypeOK, files, process, lock
<1>12. CASE GiveUpOnPid(t)
  <2>1. "verdict" \in Pc
    BY DEF Pc
  <2> QED
    BY <1>0, <1>12, <2>1, StepType DEF GiveUpOnPid, TypeOK, files, process, lock
<1>13. CASE Reconcile(t)
  <2>1. "verdict2" \in Pc /\ "refold" \in Pc /\ "result" \in Event /\ "failed" \in Event
    BY DEF Pc, Event, JobState, Terminal
  <2> QED
    BY <1>0, <1>13, <2>1, StepType, EmitType DEF Reconcile, TypeOK, process, lock
<1>14. CASE ReadDone(t)
  BY <1>14, ReturnType DEF ReadDone, TypeOK, files, process, lock
<1>15. CASE WriteAnswer(t)
  <2>1. answers' \in [Job -> SUBSET Nat]
    BY <1>0, <1>15 DEF WriteAnswer, TypeOK, ThreadState
  <2> QED
    BY <1>15, <2>1, ReturnType DEF WriteAnswer, TypeOK, process, lock
<1>16. CASE Cancel(t)
  BY <1>0, <1>16, ReturnType DEF Cancel, TypeOK, lock
<1> QED
  BY <1>1, <1>2, <1>3, <1>4, <1>5, <1>6, <1>7, <1>8, <1>9, <1>10, <1>11, <1>12,
     <1>13, <1>14, <1>15, <1>16 DEF ThreadStep

LEMMA ProcessType ==
    ASSUME TypeInv, NEW j \in Job, ProcessStep(j) \/ TakeSigterm(j) \/ Kill(j)
    PROVE  TypeInv'
<1> USE DEF TypeInv
<1>0. /\ "running" \in Event /\ "waiting_input" \in Event /\ "prompt" \in Event
      /\ "result" \in Event /\ Terminal \subseteq Event
      /\ {"failed", "succeeded", "cancelled"} \subseteq Terminal
      /\ {"interpreter", "started", "unguarded", "body", "asking", "waiting", "finishing",
          "sealing", "leaving", "exited"} \subseteq Stage
  BY DEF Event, JobState, Terminal, Stage
<1>a. thr' = thr
  BY DEF ProcessStep, TakeSigterm, Kill, ExecJob, WriteOwnPid, RefuseToRun, BeginRun,
         InstallHandler, Ask, TakeAnswer, StopWaiting, CommandReturns, Finish, Exit
<1>b. BusyThreadHasJob'
  BY <1>a DEF BusyThreadHasJob
<1>c. OutcomeDecided'
  BY <1>0 DEF ProcessStep, TakeSigterm, Kill, ExecJob, WriteOwnPid, RefuseToRun, BeginRun,
         InstallHandler, Ask, TakeAnswer, StopWaiting, CommandReturns, Finish, Exit, process,
         Gone, Become, Decide, OutcomeDecided, TypeOK
<1> SUFFICES TypeOK'
  BY <1>b, <1>c
<1>1. CASE ExecJob(j) \/ InstallHandler(j)
  BY <1>0, <1>a, <1>1 DEF ExecJob, InstallHandler, Become, TypeOK, files, lock
<1>2. CASE WriteOwnPid(j)
  BY <1>0, <1>a, <1>2 DEF WriteOwnPid, Become, TypeOK, lock
<1>3. CASE RefuseToRun(j) \/ StopWaiting(j) \/ CommandReturns(j)
  <2>1. \E how \in Terminal : Decide(j, how) /\ Become(j, "finishing")
    BY <1>0, <1>3 DEF RefuseToRun, StopWaiting, CommandReturns
  <2>2. outcome' \in [Job -> Terminal \cup {"none", "sigterm"}] /\ proc' \in [Job -> Stage]
    BY <1>0, <2>1 DEF Become, Decide, TypeOK
  <2> QED
    BY <1>a, <1>3, <2>2
    DEF RefuseToRun, StopWaiting, CommandReturns, TypeOK, files, lock
<1>4. CASE BeginRun(j) \/ Ask(j) \/ TakeAnswer(j)
  <2>1. log' \in [Job -> Seq(Event)] /\ proc' \in [Job -> Stage]
    BY <1>0, <1>4, EmitType DEF BeginRun, Ask, TakeAnswer, Become, TypeOK
  <2> QED
    BY <1>a, <1>4, <2>1 DEF BeginRun, Ask, TakeAnswer, TypeOK, lock
<1>5. CASE Finish(j)
  <2>1. CASE proc[j] = "finishing"
    BY <1>0, <1>a, <1>5, <2>1, EmitType DEF Finish, Become, TypeOK, lock
  <2>2. CASE proc[j] = "sealing"
    <3>1. outcome[j] \in Event
      BY <1>0, <2>2 DEF OutcomeDecided
    <3> QED
      BY <1>0, <1>a, <1>5, <2>2, <3>1, EmitType DEF Finish, Become, TypeOK, lock
  <2> QED
    BY <1>5, <2>1, <2>2 DEF Finish
<1>6. CASE Exit(j) \/ Kill(j)
  BY <1>0, <1>a, <1>6 DEF Exit, Kill, Gone, Become, TypeOK, files
<1>7. CASE TakeSigterm(j)
  <2>1. /\ proc' \in [Job -> Stage] /\ lockFds' \subseteq Job \cup Thread
        /\ outcome' \in [Job -> Terminal \cup {"none", "sigterm"}]
    BY <1>0, <1>7 DEF TakeSigterm, Gone, Become, Decide, TypeOK
  <2> QED
    BY <1>a, <1>7, <2>1 DEF TakeSigterm, TypeOK, files
<1> QED
  BY <1>1, <1>2, <1>3, <1>4, <1>5, <1>6, <1>7 DEF ProcessStep

LEMMA TypeInvInductive == Init /\ JobsAssumption => TypeInv
<1> SUFFICES ASSUME Init PROVE TypeInv
  OBVIOUS
<1> USE DEF Init
<1>1. TypeOK
  <2>1. Idle \in ThreadState
    BY DEF Idle, ThreadState, Pc, Op, JobState
  <2>2. "none" \in Stage
    BY DEF Stage
  <2>3. log \in [Job -> Seq(Event)]
    OBVIOUS
  <2> QED
    BY <2>1, <2>2, <2>3 DEF TypeOK
<1>2. BusyThreadHasJob /\ OutcomeDecided
  BY DEF BusyThreadHasJob, OutcomeDecided, Idle
<1> QED
  BY <1>1, <1>2 DEF TypeInv

LEMMA TypeInvStep == TypeInv /\ [Next]_vars => TypeInv'
<1> SUFFICES ASSUME TypeInv, [Next]_vars PROVE TypeInv'
  OBVIOUS
<1>1. ASSUME NEW t \in Thread, NEW j \in Job, CreateJob(t, j)
      PROVE  TypeInv'
  <2> DEFINE r == [Idle EXCEPT !.pc = "lock", !.op = "create", !.job = j]
  <2>1. r \in [pc : Pc, op : Op, job : Job, seen : JobState, late : BOOLEAN, prompt : Nat]
    BY DEF Idle, Pc, Op, JobState
  <2>2. thr' = [thr EXCEPT ![t] = r]
    BY <1>1 DEF CreateJob
  <2> QED
    BY <1>1, <2>1, <2>2, ReplaceType
    DEF CreateJob, TypeInv, TypeOK, OutcomeDecided, files, process, lock
<1>2. ASSUME NEW t \in Thread, NEW j \in Job, NEW op \in Requests, StartOp(t, j, op)
      PROVE  TypeInv'
  <2> DEFINE n == IF op = "answer" THEN Prompts(log[j]) ELSE 0
             r == [Idle EXCEPT !.pc = "fold", !.op = op, !.job = j, !.prompt = n]
  <2>1. n \in Nat
    BY CountType DEF Prompts, TypeInv, TypeOK
  <2>2. thr' = [thr EXCEPT ![t] = r]
    BY <1>2 DEF StartOp
  <2>3. op \in Op
    BY JobsAssumption DEF JobsAssumption, Op
  <2> HIDE DEF n
  <2>4. r \in [pc : Pc, op : Op, job : Job, seen : JobState, late : BOOLEAN, prompt : Nat]
    BY <2>1, <2>3 DEF Idle, Pc, JobState
  <2> QED
    BY <1>2, <2>2, <2>4, ReplaceType
    DEF StartOp, TypeInv, TypeOK, OutcomeDecided, files, process, lock
<1>3. CASE ServerCrash
  <2>1. Idle \in ThreadState
    BY DEF Idle, ThreadState, Pc, Op, JobState
  <2> QED
    BY <1>3, <2>1
    DEF ServerCrash, TypeInv, TypeOK, BusyThreadHasJob, OutcomeDecided, Idle, files, process
<1>4. CASE UNCHANGED vars
  BY <1>4 DEF TypeInv, TypeOK, BusyThreadHasJob, OutcomeDecided, vars, files, process, lock
<1> QED
  BY <1>1, <1>2, <1>3, <1>4, ThreadStepType, ProcessType DEF Next

\* Every reachable state is well typed: Jobs!TypeOK for all constants.
THEOREM TypeCorrect == Spec => []TypeOK
<1>1. Init => TypeInv
  BY TypeInvInductive, JobsAssumption
<1>2. TypeInv => TypeOK
  BY DEF TypeInv
<1> QED
  BY <1>1, <1>2, TypeInvStep, PTL DEF Spec

-----------------------------------------------------------------------------
(* Mutual exclusion. *)

\* The pcs of create_job between taking the lock and closing the descriptor.
HoldsLock == {"write", "spawn", "confirm", "pid", "close",
              "unstarted", "unstarted2", "abort"}

\* Why the lock works although nobody writes down who has it: the descriptor is
\* open in every living mutating job and in every thread that is creating one,
\* and all of them agree on the job it was taken for.
LockInv ==
    /\ \A j \in Mutating : Alive(j) => j \in lockFds /\ lockFor = j
    /\ \A t \in Thread : thr[t].pc \in HoldsLock /\ thr[t].job \in Mutating
                          => t \in lockFds /\ lockFor = thr[t].job

\* A step that leaves the process stages, the lock and the creating threads
\* alone keeps LockInv.
LEMMA LockFrame ==
    ASSUME LockInv, UNCHANGED <<proc, lockFor, lockFds>>,
           \A t \in Thread : thr'[t].pc \in HoldsLock
              => thr[t].pc \in HoldsLock /\ thr'[t].job = thr[t].job
    PROVE  LockInv'
BY DEF LockInv, Alive

\* What Step and Return leave in the thread records.
LEMMA StepFacts ==
    ASSUME TypeOK, NEW t \in Thread, NEW pc, Step(t, pc)
    PROVE  /\ thr'[t].pc = pc /\ thr'[t].job = thr[t].job /\ thr'[t].op = thr[t].op
           /\ \A u \in Thread \ {t} : thr'[u] = thr[u]
BY DEF TypeOK, ThreadState, Step

LEMMA ReturnFacts ==
    ASSUME TypeOK, NEW t \in Thread, Return(t)
    PROVE  /\ thr'[t].pc = "idle"
           /\ \A u \in Thread \ {t} : thr'[u] = thr[u]
BY DEF TypeOK, Return, Idle

LEMMA LockInvStep == TypeInv /\ LockInv /\ [Next]_vars => LockInv'
<1> SUFFICES ASSUME TypeInv, LockInv, [Next]_vars PROVE LockInv'
  OBVIOUS
<1> USE JobsAssumption DEF JobsAssumption
<1>0. /\ thr \in [Thread -> ThreadState] /\ proc \in [Job -> Stage]
      /\ TypeOK /\ BusyThreadHasJob
  BY DEF TypeInv, TypeOK
<1>1. ASSUME NEW t \in Thread, NEW j \in Job,
             CreateJob(t, j) \/ \E op \in Requests : StartOp(t, j, op)
      PROVE  LockInv'
  <2>1. thr'[t].pc \notin HoldsLock /\ \A u \in Thread \ {t} : thr'[u] = thr[u]
    <3>1. CASE CreateJob(t, j)
      BY <1>0, <3>1 DEF CreateJob, Idle, HoldsLock
    <3>2. ASSUME NEW op \in Requests, StartOp(t, j, op)
          PROVE  thr'[t].pc \notin HoldsLock /\ \A u \in Thread \ {t} : thr'[u] = thr[u]
      BY <1>0, <3>2 DEF StartOp, Idle, HoldsLock
    <3> QED
      BY <1>1, <3>1, <3>2
  <2>2. UNCHANGED <<proc, lockFor, lockFds>>
    BY <1>1 DEF CreateJob, StartOp, process, lock
  <2> QED
    BY <2>1, <2>2, LockFrame
<1>2. ASSUME NEW t \in Thread, ThreadStep(t)
      PROVE  LockInv'
  <2>0. thr[t].pc # "idle" /\ thr[t].job \in Job
    BY <1>0, <1>2 DEF ThreadStep, AcquireMutatingLock, RefuseBusy, WriteJob, SpawnJob,
       ConfirmStarted, WritePid, FailUnstarted, CloseLock, NotFound, Fold, ProbePid,
       GiveUpOnPid, Reconcile, ReadDone, WriteAnswer, Cancel, BusyThreadHasJob
  <2>1. CASE AcquireMutatingLock(t)
    <3>1. CASE thr[t].job \in Mutating
      <4>1. \A j \in Mutating : ~Alive(j)
        BY <2>1, <3>1 DEF AcquireMutatingLock, LockInv
      <4>2. \A u \in Thread : ~(thr[u].pc \in HoldsLock /\ thr[u].job \in Mutating)
        BY <2>1, <3>1 DEF AcquireMutatingLock, LockInv
      <4> QED
        BY <1>0, <2>1, <3>1, <4>1, <4>2 DEF AcquireMutatingLock, LockInv, Step, Alive, process
    <3>2. CASE thr[t].job \notin Mutating
      BY <1>0, <2>1, <3>2 DEF AcquireMutatingLock, LockInv, Step, Alive, process, lock
    <3> QED
      BY <3>1, <3>2
  <2>2. CASE SpawnJob(t)
    <3>1. PICK j \in Job : j = thr[t].job
      BY <2>0
    <3>2. CASE Step(t, "unstarted") /\ UNCHANGED <<proc, lockFds>>
      BY <1>0, <2>2, <3>2, LockFrame DEF SpawnJob, Step, HoldsLock
    <3>3. CASE /\ proc' = [proc EXCEPT ![j] = "launcher"]
               /\ lockFds' = IF j \in Mutating THEN lockFds \cup {j} ELSE lockFds
               /\ Step(t, "confirm")
      <4>1. lockFor' = lockFor /\ thr[t].pc = "spawn"
        BY <2>2 DEF SpawnJob
      <4>2. j \in Mutating => lockFor = j
        BY <3>1, <4>1 DEF LockInv, HoldsLock
      <4>3. \A k \in Job \ {j} : proc'[k] = proc[k]
        BY <1>0, <3>3
      <4>4. \A k \in Mutating : Alive(k)' => k \in lockFds' /\ lockFor' = k
        BY <3>3, <4>1, <4>2, <4>3 DEF LockInv, Alive
      <4>5. \A u \in Thread : thr'[u].pc \in HoldsLock
              => thr[u].pc \in HoldsLock /\ thr'[u].job = thr[u].job
        BY <1>0, <3>3, <4>1 DEF Step, HoldsLock
      <4> QED
        BY <3>3, <4>1, <4>4, <4>5 DEF LockInv
    <3> QED
      BY <2>2, <3>1, <3>2, <3>3 DEF SpawnJob
  <2>3. CASE CloseLock(t)
    <3>1. \A u \in Thread : thr'[u].pc \in HoldsLock
              => u # t /\ thr[u].pc \in HoldsLock /\ thr'[u].job = thr[u].job
      <4>1. thr'[t].pc \notin HoldsLock
        BY <1>0, <2>3 DEF CloseLock, Return, Idle, HoldsLock, ThreadState
      <4>2. \A u \in Thread \ {t} : thr'[u] = thr[u]
        BY <1>0, <2>3 DEF CloseLock, Return
      <4> QED
        BY <4>1, <4>2
    <3>2. \A j \in Mutating : j # t
      OBVIOUS
    <3> QED
      BY <2>3, <3>1, <3>2 DEF CloseLock, LockInv, Alive, process
  <2>4. CASE ~AcquireMutatingLock(t) /\ ~SpawnJob(t) /\ ~CloseLock(t)
    <3>1. UNCHANGED <<proc, lockFor, lockFds>>
      BY <1>2, <2>4 DEF ThreadStep, RefuseBusy, WriteJob, ConfirmStarted, WritePid,
         FailUnstarted, NotFound, Fold, ProbePid, GiveUpOnPid, Reconcile, ReadDone,
         WriteAnswer, Cancel, process, lock
    <3>2. \A u \in Thread : thr'[u].pc \in HoldsLock
              => thr[u].pc \in HoldsLock /\ thr'[u].job = thr[u].job
      <4>1. CASE Return(t)
        BY <1>0, <4>1, ReturnFacts DEF HoldsLock
      <4>2. CASE \E pc : Step(t, pc) /\ (pc \in HoldsLock => thr[t].pc \in HoldsLock)
        BY <1>0, <4>2, StepFacts
      <4>3. CASE Fold(t)
        <5>1. thr'[t].pc \notin HoldsLock /\ \A u \in Thread \ {t} : thr'[u] = thr[u]
          BY <1>0, <4>3 DEF Fold, ThreadState, HoldsLock
        <5> QED
          BY <5>1
      <4>4. WriteJob(t) \/ ConfirmStarted(t) \/ WritePid(t) \/ FailUnstarted(t)
              => \E pc : Step(t, pc) /\ (pc \in HoldsLock => thr[t].pc \in HoldsLock)
        BY DEF WriteJob, ConfirmStarted, WritePid, FailUnstarted, HoldsLock
      <4>5. ProbePid(t) \/ GiveUpOnPid(t) \/ Reconcile(t)
              => \E pc : Step(t, pc) /\ (pc \in HoldsLock => thr[t].pc \in HoldsLock)
        BY DEF ProbePid, GiveUpOnPid, Reconcile, HoldsLock
      <4>6. RefuseBusy(t) \/ NotFound(t) \/ ReadDone(t) \/ WriteAnswer(t) \/ Cancel(t)
              => Return(t)
        BY DEF RefuseBusy, NotFound, ReadDone, WriteAnswer, Cancel
      <4> QED
        BY <1>2, <2>4, <4>1, <4>2, <4>3, <4>4, <4>5, <4>6 DEF ThreadStep
    <3> QED
      BY <3>1, <3>2, LockFrame
  <2> QED
    BY <2>1, <2>2, <2>3, <2>4
<1>3. ASSUME NEW j \in Job, ProcessStep(j) \/ TakeSigterm(j) \/ Kill(j)
      PROVE  LockInv'
  <2>0. UNCHANGED <<thr, lockFor>>
    BY <1>3 DEF ProcessStep, TakeSigterm, Kill, ExecJob, WriteOwnPid, RefuseToRun, BeginRun,
       InstallHandler, Ask, TakeAnswer, StopWaiting, CommandReturns, Finish, Exit, lock
  <2>1. CASE Gone(j)
    <3>1. \A t \in Thread : t # j
      OBVIOUS
    <3>2. \A k \in Mutating : Alive(k)' => k # j /\ Alive(k)
      BY <1>0, <2>1 DEF Gone, Become, Alive
    <3> QED
      BY <2>0, <2>1, <3>1, <3>2 DEF LockInv, Gone
  <2>2. CASE ~Gone(j)
    <3>1. Alive(j) /\ lockFds' = lockFds
      BY <1>3, <2>2 DEF ProcessStep, TakeSigterm, Kill, ExecJob, WriteOwnPid, RefuseToRun,
         BeginRun, InstallHandler, Ask, TakeAnswer, StopWaiting, CommandReturns, Finish,
         Exit, Alive, lock
    <3>2. \A k \in Job \ {j} : proc'[k] = proc[k]
      BY <1>0, <1>3, <2>2 DEF ProcessStep, TakeSigterm, Kill, ExecJob, WriteOwnPid,
         RefuseToRun, BeginRun, InstallHandler, Ask, TakeAnswer, StopWaiting,
         CommandReturns, Finish, Exit, Become
    <3> QED
      BY <2>0, <3>1, <3>2 DEF LockInv, Alive
  <2> QED
    BY <2>1, <2>2
<1>4. CASE ServerCrash
  BY <1>4 DEF ServerCrash, LockInv, Alive, Idle, HoldsLock, process
<1>5. CASE UNCHANGED vars
  BY <1>5 DEF LockInv, Alive, vars, process, lock
<1> QED
  BY <1>1, <1>2, <1>3, <1>4, <1>5 DEF Next

LEMMA LockInvInit == Init => LockInv
BY JobsAssumption DEF JobsAssumption, Init, LockInv, Alive, Idle, HoldsLock

\* Two mutating jobs never run at once, for any number of jobs and threads and
\* whatever the server, the launcher or the processes die of.
THEOREM MutualExclusion == Spec => []OneMutatingJob
<1>1. Init => TypeInv /\ LockInv
  BY TypeInvInductive, LockInvInit, JobsAssumption
<1>2. TypeInv /\ LockInv /\ [Next]_vars => (TypeInv /\ LockInv)'
  BY TypeInvStep, LockInvStep
<1>3. LockInv => OneMutatingJob
  BY JobsAssumption DEF JobsAssumption, LockInv, OneMutatingJob
<1> QED
  BY <1>1, <1>2, <1>3, PTL DEF Spec

-----------------------------------------------------------------------------
(* Jobs implements MutatingLock. *)

\* A living mutating job is the holder: there is at most one.
LEMMA RunningHolds ==
    LockInv => Running \subseteq {LockHolder}
BY DEF LockInv, Running, LockHolder

\* Descriptors may be closed while the same jobs run: the lock stays with its
\* holder, or it is given back because nothing runs.
LEMMA CloseRefines ==
    ASSUME LockInv, LockInv', Running' = Running, lockFor' = lockFor, lockFds' \subseteq lockFds
    PROVE  [Lock!Next]_(Lock!vars)
<1>1. CASE LockHolder' = LockHolder
  BY <1>1 DEF Lock!vars
<1>2. CASE LockHolder' # LockHolder
  <2>1. lockFds' = {} /\ LockHolder' = NoJob
    BY <1>2 DEF LockHolder
  <2>2. Running' = {}
    BY <2>1 DEF LockInv, Running
  <2> QED
    BY <2>1, <2>2 DEF Lock!Next, Lock!Release
<1> QED
  BY <1>1, <1>2

LEMMA LockRefines ==
    TypeInv /\ LockInv /\ [Next]_vars => [Lock!Next]_(Lock!vars)
<1> SUFFICES ASSUME TypeInv, LockInv, [Next]_vars
             PROVE  [Lock!Next]_(Lock!vars)
  OBVIOUS
<1> USE JobsAssumption DEF JobsAssumption
<1>0. proc \in [Job -> Stage] /\ LockInv' /\ BusyThreadHasJob
  BY LockInvStep DEF TypeInv, TypeOK
\* Most steps change neither the lock nor who is alive.
<1>a. UNCHANGED <<proc, lockFor, lockFds>> => [Lock!Next]_(Lock!vars)
  BY <1>0, CloseRefines DEF Running, Alive
<1>1. ASSUME NEW t \in Thread, NEW j \in Job,
             CreateJob(t, j) \/ \E op \in Requests : StartOp(t, j, op)
      PROVE  [Lock!Next]_(Lock!vars)
  BY <1>1, <1>a DEF CreateJob, StartOp, process, lock
<1>2. ASSUME NEW t \in Thread, ThreadStep(t)
      PROVE  [Lock!Next]_(Lock!vars)
  <2>1. CASE AcquireMutatingLock(t)
    <3>1. CASE thr[t].job \in Mutating
      <4>1. LockHolder = NoJob /\ LockHolder' = thr[t].job /\ Running' = Running
        BY <2>1, <3>1 DEF AcquireMutatingLock, LockHolder, Running, Alive, process
      <4> QED
        BY <3>1, <4>1 DEF Lock!Next, Lock!Grant
    <3>2. CASE thr[t].job \notin Mutating
      BY <2>1, <3>2, <1>a DEF AcquireMutatingLock, process, lock
    <3> QED
      BY <3>1, <3>2
  <2>2. CASE SpawnJob(t)
    <3>1. PICK j \in Job : j = thr[t].job /\ thr[t].pc = "spawn"
      BY <1>0, <2>2 DEF SpawnJob, BusyThreadHasJob
    <3>2. CASE UNCHANGED <<proc, lockFds>>
      BY <2>2, <3>2, <1>a DEF SpawnJob
    <3>3. CASE /\ proc' = [proc EXCEPT ![j] = "launcher"]
               /\ lockFds' = IF j \in Mutating THEN lockFds \cup {j} ELSE lockFds
      <4>1. lockFor' = lockFor
        BY <2>2 DEF SpawnJob
      <4>2. CASE j \notin Mutating
        <5>1. Running' = Running
          BY <1>0, <3>3, <4>2 DEF Running, Alive
        <5> QED
          BY <1>0, <3>3, <4>1, <4>2, <5>1, CloseRefines
      <4>3. CASE j \in Mutating
        <5>1. LockHolder = j /\ LockHolder' = j
          BY <3>1, <3>3, <4>1, <4>3 DEF LockInv, HoldsLock, LockHolder
        <5>2. Running' = Running \cup {j}
          BY <1>0, <3>3, <4>3 DEF Running, Alive
        <5>3. Running \subseteq {j}
          BY <5>1, RunningHolds
        <5>4. CASE Running = {}
          BY <4>3, <5>1, <5>2, <5>4 DEF Lock!Next, Lock!Start
        <5>5. CASE Running = {j}
          BY <5>1, <5>2, <5>5 DEF Lock!vars
        <5> QED
          BY <5>3, <5>4, <5>5
      <4> QED
        BY <4>2, <4>3
    <3> QED
      BY <2>2, <3>1, <3>2, <3>3 DEF SpawnJob
  <2>3. CASE CloseLock(t)
    BY <1>0, <2>3, CloseRefines DEF CloseLock, Running, Alive, process
  <2>4. CASE ~AcquireMutatingLock(t) /\ ~SpawnJob(t) /\ ~CloseLock(t)
    <3>1. UNCHANGED <<proc, lockFor, lockFds>>
      BY <1>2, <2>4 DEF ThreadStep, RefuseBusy, WriteJob, ConfirmStarted, WritePid,
         FailUnstarted, NotFound, Fold, ProbePid, GiveUpOnPid, Reconcile, ReadDone,
         WriteAnswer, Cancel, process, lock
    <3> QED
      BY <3>1, <1>a
  <2> QED
    BY <2>1, <2>2, <2>3, <2>4
<1>3. ASSUME NEW j \in Job, ProcessStep(j) \/ TakeSigterm(j) \/ Kill(j)
      PROVE  [Lock!Next]_(Lock!vars)
  <2>0. lockFor' = lockFor /\ Alive(j)
    BY <1>3 DEF ProcessStep, TakeSigterm, Kill, ExecJob, WriteOwnPid, RefuseToRun, BeginRun,
       InstallHandler, Ask, TakeAnswer, StopWaiting, CommandReturns, Finish, Exit, lock, Alive
  <2>1. CASE Gone(j)
    <3>1. Running' = Running \ {j} /\ lockFds' = lockFds \ {j}
      BY <1>0, <2>1 DEF Gone, Become, Running, Alive
    <3>2. CASE j \in Mutating
      <4>1. Running = {j}
        BY <2>0, <3>2, RunningHolds DEF Running
      <4>2. LockHolder' \in {LockHolder, NoJob}
        BY <2>0, <3>1 DEF LockHolder
      <4> QED
        BY <3>1, <3>2, <4>1, <4>2 DEF Lock!Next, Lock!End
    <3>3. CASE j \notin Mutating
      <4>1. Running' = Running
        BY <3>1, <3>3 DEF Running
      <4> QED
        BY <1>0, <2>0, <3>1, <4>1, CloseRefines
    <3> QED
      BY <3>2, <3>3
  <2>2. CASE ~Gone(j)
    <3>1. lockFds' = lockFds
      BY <1>3, <2>2 DEF ProcessStep, TakeSigterm, Kill, ExecJob, WriteOwnPid, RefuseToRun,
         BeginRun, InstallHandler, Ask, TakeAnswer, StopWaiting, CommandReturns, Finish,
         Exit, lock
    <3>2. \E stage : stage \notin {"none", "exited"} /\ proc' = [proc EXCEPT ![j] = stage]
      <4>1. CASE proc' = proc
        BY <1>0, <2>0, <4>1 DEF Alive
      <4>2. CASE proc' # proc
        BY <1>3, <2>2, <4>2 DEF ProcessStep, TakeSigterm, Kill, ExecJob, WriteOwnPid,
           RefuseToRun, BeginRun, InstallHandler, Ask, TakeAnswer, StopWaiting,
           CommandReturns, Finish, Exit, Become
      <4> QED
        BY <4>1, <4>2
    <3>3. Running' = Running
      BY <1>0, <2>0, <3>2 DEF Running, Alive
    <3> QED
      BY <1>0, <2>0, <3>1, <3>3, CloseRefines
  <2> QED
    BY <2>1, <2>2
<1>4. CASE ServerCrash
  BY <1>0, <1>4, CloseRefines DEF ServerCrash, Running, Alive, process
<1>5. CASE UNCHANGED vars
  BY <1>5, <1>a DEF vars, process, lock
<1> QED
  BY <1>1, <1>2, <1>3, <1>4, <1>5 DEF Next

\* The flock on a shared open file description, handed from the request thread
\* to the child it spawns, implements the lock MutatingLock specifies.
THEOREM ImplementsMutatingLock == Spec => LockSpec
<1>1. Init => Lock!Init
  BY JobsAssumption DEF JobsAssumption, Init, Lock!Init, LockHolder, Running, Alive
<1>2. Init => TypeInv /\ LockInv
  BY TypeInvInductive, LockInvInit, JobsAssumption
<1>3. TypeInv /\ LockInv /\ [Next]_vars => (TypeInv /\ LockInv)'
  BY TypeInvStep, LockInvStep
<1> QED
  BY <1>1, <1>2, <1>3, LockRefines, PTL DEF Spec, LockSpec, Lock!Spec

-----------------------------------------------------------------------------
(* The life of a job: who may still write to its log. *)

\* The pcs of a request that creates a job.
CreatePcs == {"lock", "write", "spawn", "confirm", "pid", "close",
              "unstarted", "unstarted2", "abort"}

At(t, j, pcs) == thr[t].pc \in pcs /\ thr[t].job = j

\* Nothing of the job's own will run any more.
Dead(j) ==
    /\ log[j] # <<>>
    /\ proc[j] \in {"none", "exited"}
    /\ \A t \in Thread : ~At(t, j, {"spawn"})

\* A job has one creator, who is the only one to start its process.
CreatorsApart ==
    /\ \A t \in Thread : thr[t].op = "create" <=> thr[t].pc \in CreatePcs
    /\ \A t, u \in Thread : thr[t].pc \in CreatePcs /\ thr[u].pc \in CreatePcs
                            /\ thr[t].job = thr[u].job => t = u

\* How far the creator, the files and the process of a job are apart.
InOrder(j) ==
    /\ j \in dirs => log[j] # <<>>
    /\ proc[j] # "none" => log[j] # <<>>
    /\ j \in pidFile => proc[j] # "none"
    /\ \A t \in Thread :
          /\ At(t, j, {"lock", "write"}) => log[j] = <<>> /\ proc[j] = "none"
          /\ At(t, j, {"spawn"}) => log[j] = <<"queued">> /\ proc[j] = "none"
          /\ At(t, j, {"confirm", "pid"}) => proc[j] # "none"

\* Others speak for a job only when it is dead.
Judges(t, j) ==
    \/ At(t, j, {"unstarted", "unstarted2", "verdict", "verdict2"})
    \/ At(t, j, {"probe"}) /\ thr[t].late
JudgedDead(j) == \A t \in Thread : Judges(t, j) => Dead(j)

\* What the log of a living process says is what that process has said.
LogIsOwn(j) ==
    /\ proc[j] \in Stage \ {"none", "exited", "sealing", "leaving"} =>
          Count(log[j], "result") = 0 /\ FoldState(log[j]) \notin Terminal
    /\ proc[j] = "sealing" =>
          Count(log[j], "result") = 1 /\ FoldState(log[j]) \notin Terminal
    /\ proc[j] = "leaving" =>
          Count(log[j], "result") = 1 /\ FoldState(log[j]) = outcome[j]

LifeOf(j) == InOrder(j) /\ JudgedDead(j) /\ LogIsOwn(j)

\* Only a command that may be stopped is ever signalled.
SignalsAllowed == sigterm \subseteq Cancellable

LifeInv == CreatorsApart /\ SignalsAllowed /\ \A j \in Job : LifeOf(j)

\* What a step of one thread on one job leaves as it was for the others.
Elsewhere(t, j) ==
    /\ \A k \in Job \ {j} :
          /\ log'[k] = log[k] /\ proc'[k] = proc[k] /\ outcome'[k] = outcome[k]
          /\ (k \in dirs' => k \in dirs) /\ (k \in pidFile' => k \in pidFile)
    /\ \A u \in Thread \ {t} : thr'[u] = thr[u]
    /\ thr'[t].pc # "idle" => thr'[t].job = j

LEMMA OtherJobs ==
    ASSUME LifeInv, NEW t \in Thread, NEW j, Elsewhere(t, j)
    PROVE  \A k \in Job \ {j} : LifeOf(k)'
<1> SUFFICES ASSUME NEW k \in Job, k # j PROVE LifeOf(k)'
  OBVIOUS
<1>1. LifeOf(k)
  BY DEF LifeInv
<1>2. /\ log'[k] = log[k] /\ proc'[k] = proc[k] /\ outcome'[k] = outcome[k]
      /\ (k \in dirs' => k \in dirs) /\ (k \in pidFile' => k \in pidFile)
      /\ \A u \in Thread \ {t} : thr'[u] = thr[u]
      /\ thr'[t].pc = "idle" \/ thr'[t].job # k
  BY DEF Elsewhere
<1>3. InOrder(k)'
  BY <1>1, <1>2 DEF LifeOf, InOrder, At
<1>4. JudgedDead(k)'
  <2>1. ASSUME NEW u \in Thread, Judges(u, k)' PROVE Judges(u, k)
    BY <1>2, <2>1 DEF Judges, At
  <2>2. Dead(k) => Dead(k)'
    BY <1>2 DEF Dead, At
  <2> QED
    BY <1>1, <2>1, <2>2 DEF LifeOf, JudgedDead
<1>5. LogIsOwn(k)'
  BY <1>1, <1>2 DEF LifeOf, LogIsOwn
<1> QED
  BY <1>3, <1>4, <1>5 DEF LifeOf

\* The creators after a thread has gone on with the request it has.
LEMMA CreatorsStep ==
    ASSUME CreatorsApart, NEW t \in Thread, \A u \in Thread \ {t} : thr'[u] = thr[u],
           thr'[t].op = "create" <=> thr'[t].pc \in CreatePcs,
           thr'[t].pc \in CreatePcs => thr[t].pc \in CreatePcs /\ thr'[t].job = thr[t].job
    PROVE  CreatorsApart'
  BY DEF CreatorsApart

\* A log that has a line keeps one.
LEMMA EmitFacts ==
    ASSUME TypeOK, NEW j \in Job, NEW e \in Event, Emit(j, e)
    PROVE  /\ log'[j] = Append(log[j], e) /\ log[j] \in Seq(Event) /\ log'[j] # <<>>
           /\ \A k \in Job \ {j} : log'[k] = log[k]
           /\ FoldState(log'[j]) = IF e \in JobState THEN e ELSE FoldState(log[j])
           /\ Count(log'[j], "result") =
                 IF e = "result" THEN Count(log[j], "result") + 1 ELSE Count(log[j], "result")
<1>1. log'[j] = Append(log[j], e) /\ log[j] \in Seq(Event) /\ \A k \in Job \ {j} : log'[k] = log[k]
  BY DEF TypeOK, Emit
<1>2. Append(log[j], e) # <<>>
  BY <1>1
<1> QED
  BY <1>1, <1>2, FoldAppend, CountAppend

\* A step of a thread that speaks for its job, or about it.
LEMMA LifeVerdict ==
    ASSUME TypeInv, LifeInv, NEW t \in Thread, FailUnstarted(t) \/ Reconcile(t)
    PROVE  LifeInv'
<1>0. PICK j \in Job : j = thr[t].job
  BY DEF TypeInv, BusyThreadHasJob, FailUnstarted, Reconcile
<1>1. TypeOK
  BY DEF TypeInv
<1>2. PICK e \in {"result", "failed"}, pc \in {"unstarted2", "abort", "verdict2", "refold"} :
        Emit(j, e) /\ Step(t, pc)
        /\ (pc = "unstarted2" => thr[t].pc = "unstarted") /\ (pc = "abort" => thr[t].pc = "unstarted2")
        /\ (pc = "verdict2" => thr[t].pc = "verdict") /\ (pc = "refold" => thr[t].pc = "verdict2")
  BY <1>0 DEF FailUnstarted, Reconcile
<1>3. /\ UNCHANGED <<pidFile, dirs, proc, outcome, sigterm>>
  BY DEF FailUnstarted, Reconcile, process
<1>4. /\ thr'[t].pc = pc /\ thr'[t].job = j /\ thr'[t].op = thr[t].op
      /\ \A u \in Thread \ {t} : thr'[u] = thr[u]
  BY <1>0, <1>1, <1>2, StepFacts
<1>5. e \in Event /\ log'[j] # <<>> /\ \A k \in Job \ {j} : log'[k] = log[k]
  <2>1. e \in Event
    BY <1>0, <1>2 DEF Event, JobState, Terminal
  <2> QED
    BY <1>0, <1>1, <1>2, <2>1, EmitFacts
<1>6. Judges(t, j)
  BY <1>0, <1>2 DEF Judges, At
<1>7. Dead(j) /\ LifeOf(j)
  BY <1>0, <1>1, <1>6 DEF LifeInv, LifeOf, JudgedDead
<1>8. Dead(j)'
  BY <1>0, <1>2, <1>3, <1>4, <1>5, <1>7 DEF Dead, At
<1>9. InOrder(j)'
  <2>1. \A u \in Thread : ~At(u, j, {"lock", "write"})
    BY <1>0, <1>7 DEF LifeOf, InOrder, Dead
  <2> QED
    BY <1>0, <1>2, <1>3, <1>4, <1>5, <1>7, <2>1 DEF LifeOf, InOrder, Dead, At
<1>10. LifeOf(j)'
  <2>1. proc'[j] \in {"none", "exited"}
    BY <1>0, <1>3, <1>7 DEF Dead
  <2>2. LogIsOwn(j)'
    BY <2>1 DEF LogIsOwn
  <2> QED
    BY <1>0, <1>8, <1>9, <2>2 DEF LifeOf, JudgedDead
<1>11. CreatorsApart'
  <2>1. CreatorsApart
    BY DEF LifeInv
  <2>2. thr'[t].pc \in CreatePcs <=> thr[t].pc \in CreatePcs
    BY <1>0, <1>2, <1>4 DEF CreatePcs
  <2> QED
    BY <1>0, <1>4, <2>1, <2>2, CreatorsStep DEF CreatorsApart
<1>12. \A k \in Job \ {j} : LifeOf(k)'
  BY <1>0, <1>3, <1>4, <1>5, OtherJobs DEF Elsewhere
<1>13. \A k \in Job : LifeOf(k)'
  BY <1>0, <1>10, <1>12
<1> QED
  BY <1>3, <1>11, <1>13 DEF LifeInv, SignalsAllowed

\* A step of a thread that writes no event and starts no process.
LEMMA QuietStep ==
    ASSUME LifeInv, NEW t \in Thread, \A u \in Thread \ {t} : thr'[u] = thr[u],
           UNCHANGED <<log, proc, outcome>>, dirs' \subseteq dirs,
           \A k \in Job : k \in pidFile' => k \in pidFile \/ proc[k] # "none",
           \A k \in Job :
              /\ At(t, k, {"lock", "write"})' => log[k] = <<>> /\ proc[k] = "none"
              /\ ~At(t, k, {"spawn"})'
              /\ At(t, k, {"confirm", "pid"})' => proc[k] # "none"
              /\ Judges(t, k)' => Dead(k)
    PROVE  \A k \in Job : LifeOf(k)'
<1> SUFFICES ASSUME NEW k \in Job PROVE LifeOf(k)'
  OBVIOUS
<1>1. LifeOf(k)
  BY DEF LifeInv
<1>2. \A u \in Thread : At(u, k, {"spawn"})' => At(u, k, {"spawn"})
  BY DEF At
<1>3. Dead(k) => Dead(k)'
  BY <1>2 DEF Dead
<1>4. InOrder(k)'
  BY <1>1 DEF LifeOf, InOrder, At
<1>5. JudgedDead(k)'
  <2>1. ASSUME NEW u \in Thread, Judges(u, k)' PROVE Dead(k)
    <3>1. CASE u = t
      BY <2>1, <3>1
    <3>2. CASE u # t
      BY <1>1, <2>1, <3>2 DEF LifeOf, JudgedDead, Judges, At
    <3> QED
      BY <3>1, <3>2
  <2> QED
    BY <1>3, <2>1 DEF JudgedDead
<1>6. LogIsOwn(k)'
  BY <1>1 DEF LifeOf, LogIsOwn
<1> QED
  BY <1>4, <1>5, <1>6 DEF LifeOf

\* The request makes the job's directory: the first line of its log.
LEMMA LifeWriteJob ==
    ASSUME TypeInv, LifeInv, NEW t \in Thread, WriteJob(t)
    PROVE  LifeInv'
<1>0. PICK j \in Job : j = thr[t].job
  BY DEF TypeInv, BusyThreadHasJob, WriteJob
<1>1. TypeOK /\ "queued" \in Event /\ thr[t].pc = "write"
  BY DEF TypeInv, WriteJob, Event, JobState
<1>2. /\ UNCHANGED <<pidFile, proc, outcome, sigterm>>
      /\ dirs' \subseteq dirs \cup {j} /\ Emit(j, "queued")
  BY <1>0 DEF WriteJob, process, Prunable
<1>3. /\ thr'[t].pc = "spawn" /\ thr'[t].job = j /\ thr'[t].op = thr[t].op
      /\ \A u \in Thread \ {t} : thr'[u] = thr[u]
  BY <1>0, <1>1, StepFacts DEF WriteJob
<1>4. LifeOf(j) /\ log[j] = <<>> /\ proc[j] = "none" /\ CreatorsApart
  BY <1>0, <1>1 DEF LifeInv, LifeOf, InOrder, At
<1>5. log'[j] = <<"queued">> /\ \A k \in Job \ {j} : log'[k] = log[k]
  <2>1. log'[j] = Append(<<>>, "queued") /\ \A k \in Job \ {j} : log'[k] = log[k]
    BY <1>0, <1>1, <1>2, <1>4, EmitFacts
  <2> QED
    BY <2>1
<1>6. \A u \in Thread : ~Judges(u, j)
  BY <1>0, <1>4 DEF LifeOf, JudgedDead, Dead
<1>7. \A u \in Thread \ {t} : thr'[u].pc \in CreatePcs => thr'[u].job # j
  BY <1>0, <1>1, <1>3, <1>4 DEF CreatorsApart, CreatePcs
<1>8. LifeOf(j)'
  <2>1. InOrder(j)'
    <3>1. proc'[j] = "none" /\ log'[j] # <<>> /\ j \notin pidFile'
      BY <1>0, <1>2, <1>4, <1>5 DEF LifeOf, InOrder
    <3>2. ASSUME NEW u \in Thread
          PROVE  ~At(u, j, {"lock", "write"})' /\ ~At(u, j, {"confirm", "pid"})'
      BY <1>0, <1>3, <1>7 DEF At, CreatePcs
    <3> QED
      BY <1>0, <1>5, <3>1, <3>2 DEF InOrder
  <2>2. JudgedDead(j)'
    BY <1>0, <1>3, <1>6 DEF JudgedDead, Judges, At
  <2>3. proc'[j] = "none"
    BY <1>0, <1>2, <1>4
  <2>4. LogIsOwn(j)'
    BY <2>3 DEF LogIsOwn
  <2> QED
    BY <2>1, <2>2, <2>4 DEF LifeOf
<1>9. CreatorsApart'
  BY <1>0, <1>1, <1>3, <1>4, CreatorsStep DEF CreatorsApart, CreatePcs
<1>10. \A k \in Job \ {j} : LifeOf(k)'
  BY <1>0, <1>2, <1>3, <1>5, OtherJobs DEF Elsewhere
<1>11. \A k \in Job : LifeOf(k)'
  BY <1>0, <1>8, <1>10
<1> QED
  BY <1>2, <1>9, <1>11 DEF LifeInv, SignalsAllowed

\* The process starts: nobody can have judged the job before.
LEMMA LifeSpawned ==
    ASSUME TypeInv, LifeInv, NEW t \in Thread, SpawnJob(t), Step(t, "confirm"),
           proc' = [proc EXCEPT ![thr[t].job] = "launcher"]
    PROVE  LifeInv'
<1>0. PICK j \in Job : j = thr[t].job
  BY DEF TypeInv, BusyThreadHasJob, SpawnJob
<1>1. TypeOK /\ thr[t].pc = "spawn"
  BY DEF TypeInv, SpawnJob
<1>2. UNCHANGED <<log, pidFile, dirs, outcome, sigterm>>
  BY DEF SpawnJob, files
<1>3. /\ thr'[t].pc = "confirm" /\ thr'[t].job = j /\ thr'[t].op = thr[t].op
      /\ \A u \in Thread \ {t} : thr'[u] = thr[u]
  BY <1>0, <1>1, StepFacts
<1>4. LifeOf(j) /\ log[j] = <<"queued">> /\ CreatorsApart
  BY <1>0, <1>1 DEF LifeInv, LifeOf, InOrder, At
<1>5. proc'[j] = "launcher" /\ \A k \in Job \ {j} : proc'[k] = proc[k]
  BY <1>0, <1>1 DEF TypeOK
<1>6. \A u \in Thread : ~Judges(u, j)
  BY <1>0, <1>1, <1>4 DEF LifeOf, JudgedDead, Dead, At
<1>7. \A u \in Thread \ {t} : thr'[u].pc \in CreatePcs => thr'[u].job # j
  BY <1>0, <1>1, <1>3, <1>4 DEF CreatorsApart, CreatePcs
<1>8. LifeOf(j)'
  <2>1. InOrder(j)'
    <3>1. log'[j] # <<>>
      BY <1>0, <1>2, <1>4
    <3>2. ASSUME NEW u \in Thread
          PROVE  ~At(u, j, {"lock", "write"})' /\ ~At(u, j, {"spawn"})'
      BY <1>0, <1>3, <1>7 DEF At, CreatePcs
    <3> QED
      BY <1>0, <1>5, <3>1, <3>2 DEF InOrder
  <2>2. JudgedDead(j)'
    BY <1>0, <1>3, <1>6 DEF JudgedDead, Judges, At
  <2>3. log'[j] = <<"queued">> /\ FoldState(log'[j]) \notin Terminal /\ Count(log'[j], "result") = 0
    BY <1>0, <1>2, <1>4, FreshLog DEF Terminal
  <2>4. LogIsOwn(j)'
    BY <1>0, <1>5, <2>3 DEF LogIsOwn
  <2> QED
    BY <2>1, <2>2, <2>4 DEF LifeOf
<1>9. CreatorsApart'
  BY <1>0, <1>1, <1>3, <1>4, CreatorsStep DEF CreatorsApart, CreatePcs
<1>10. \A k \in Job \ {j} : LifeOf(k)'
  BY <1>0, <1>2, <1>3, <1>5, OtherJobs DEF Elsewhere
<1>11. \A k \in Job : LifeOf(k)'
  BY <1>0, <1>8, <1>10
<1> QED
  BY <1>2, <1>9, <1>11 DEF LifeInv, SignalsAllowed

\* The same for all of LifeInv, from what the step does to the thread's record.
LEMMA QuietLife ==
    ASSUME TypeInv, LifeInv, NEW t \in Thread, \A u \in Thread \ {t} : thr'[u] = thr[u],
           UNCHANGED <<log, proc, outcome>>, dirs' \subseteq dirs, sigterm' \subseteq Cancellable,
           \A k \in Job : k \in pidFile' => k \in pidFile \/ proc[k] # "none",
           \/ thr'[t].pc = "idle" /\ thr'[t].op # "create"
           \/ /\ thr'[t].op = "create" <=> thr'[t].pc \in CreatePcs
              /\ thr'[t].pc \in CreatePcs => thr[t].pc \in CreatePcs
              /\ thr'[t].job = thr[t].job
              /\ thr'[t].pc \in {"lock", "write"} => thr[t].pc = "lock"
              /\ thr'[t].pc # "spawn"
              /\ thr'[t].pc \in {"confirm", "pid"} => thr[t].pc \in {"confirm", "pid"}
              /\ \A k \in Job : Judges(t, k)' => Dead(k)
    PROVE  LifeInv'
<1>1. CreatorsApart'
  <2>1. CreatorsApart
    BY DEF LifeInv
  <2>2. thr'[t].pc = "idle" => thr'[t].pc \notin CreatePcs
    BY DEF CreatePcs
  <2> QED
    BY <2>1, <2>2, CreatorsStep
<1>2. ASSUME NEW k \in Job
      PROVE  /\ At(t, k, {"lock", "write"})' => log[k] = <<>> /\ proc[k] = "none"
             /\ ~At(t, k, {"spawn"})'
             /\ At(t, k, {"confirm", "pid"})' => proc[k] # "none"
             /\ Judges(t, k)' => Dead(k)
  <2>1. InOrder(k)
    BY DEF LifeInv, LifeOf
  <2>2. CASE thr'[t].pc = "idle"
    BY <2>2 DEF At, Judges
  <2>3. CASE thr'[t].pc # "idle"
    BY <2>1, <2>3 DEF At, InOrder
  <2> QED
    BY <2>2, <2>3
<1>3. \A k \in Job : LifeOf(k)'
  BY <1>2, QuietStep
<1> QED
  BY <1>1, <1>3 DEF LifeInv, SignalsAllowed

\* The steps of a request that write no event and start no process.
LEMMA LifeQuietSteps ==
    ASSUME TypeInv, LifeInv, NEW t \in Thread, ThreadStep(t),
           ~WriteJob(t), ~FailUnstarted(t), ~Reconcile(t),
           ~(SpawnJob(t) /\ Step(t, "confirm"))
    PROVE  LifeInv'
<1>0. PICK j \in Job : j = thr[t].job
  BY DEF TypeInv, BusyThreadHasJob, ThreadStep, AcquireMutatingLock, RefuseBusy, SpawnJob,
     ConfirmStarted, WritePid, CloseLock, NotFound, Fold, ProbePid, GiveUpOnPid, ReadDone,
     WriteAnswer, Cancel
<1>1. TypeOK /\ LifeOf(j) /\ InOrder(j) /\ CreatorsApart /\ sigterm \subseteq Cancellable
  BY DEF TypeInv, LifeInv, LifeOf, SignalsAllowed
<1>2. thr \in [Thread -> ThreadState] /\ thr[t] \in ThreadState
  BY <1>1 DEF TypeOK
<1>3. thr[t].op = "create" <=> thr[t].pc \in CreatePcs
  BY <1>1 DEF CreatorsApart
<1>a. CASE /\ Return(t) /\ UNCHANGED <<log, pidFile, dirs, proc, outcome>>
           /\ sigterm' \subseteq Cancellable
  <2>1. thr'[t].pc = "idle" /\ thr'[t].op = "read" /\ \A u \in Thread \ {t} : thr'[u] = thr[u]
    BY <1>a, <1>2 DEF Return, Idle
  <2> QED
    BY <1>a, <2>1, QuietLife
<1>4. CASE RefuseBusy(t) \/ NotFound(t) \/ ReadDone(t) \/ WriteAnswer(t) \/ Cancel(t)
  BY <1>0, <1>1, <1>4, <1>a DEF RefuseBusy, NotFound, ReadDone, WriteAnswer, Cancel, files, process
<1>b. ASSUME NEW pc, Step(t, pc), UNCHANGED <<log, dirs, proc, outcome, sigterm>>,
             \A k \in Job : k \in pidFile' => k \in pidFile \/ proc[k] # "none",
             pc \in CreatePcs <=> thr[t].pc \in CreatePcs,
             pc \in {"lock", "write"} => thr[t].pc = "lock", pc # "spawn",
             pc \in {"confirm", "pid"} => thr[t].pc \in {"confirm", "pid"},
             pc \in {"unstarted", "unstarted2", "verdict", "verdict2"} => Dead(j),
             pc # "probe"
      PROVE  LifeInv'
  <2>1. thr'[t].pc = pc /\ thr'[t].job = j /\ thr'[t].op = thr[t].op
        /\ \A u \in Thread \ {t} : thr'[u] = thr[u]
    BY <1>0, <1>1, <1>b, StepFacts
  <2>2. \A k \in Job : Judges(t, k)' => Dead(k)
    BY <1>b, <2>1 DEF Judges, At
  <2> QED
    BY <1>0, <1>1, <1>3, <1>b, <2>1, <2>2, QuietLife
<1>5. CASE AcquireMutatingLock(t)
  BY <1>5, <1>b DEF AcquireMutatingLock, CreatePcs, files, process
<1>6. CASE SpawnJob(t)
  <2>1. Step(t, "unstarted") /\ proc' = proc /\ thr[t].pc = "spawn"
    BY <1>6 DEF SpawnJob
  <2>2. log[j] # <<>> /\ proc[j] = "none"
    BY <1>0, <1>1, <2>1 DEF InOrder, At
  <2> HIDE DEF Dead
  <2>3. \A u \in Thread \ {t} : ~At(u, j, {"spawn"})
    BY <1>0, <1>1, <2>1 DEF CreatorsApart, CreatePcs, At
  <2>4. thr'[t].pc = "unstarted" /\ thr'[t].job = j /\ thr'[t].op = thr[t].op
        /\ \A u \in Thread \ {t} : thr'[u] = thr[u]
    BY <1>0, <1>1, <2>1, StepFacts
  <2>5. UNCHANGED <<log, dirs, pidFile, proc, outcome, sigterm>>
    BY <1>6, <2>1 DEF SpawnJob, files
  <2>6. LifeOf(j)'
    <3>1. InOrder(j)'
      BY <1>1, <2>2, <2>4, <2>5 DEF InOrder, At
    <3>2. Dead(j)'
      BY <2>2, <2>3, <2>4, <2>5 DEF Dead, At
    <3>3. LogIsOwn(j)'
      BY <2>2, <2>5 DEF LogIsOwn
    <3> QED
      BY <3>1, <3>2, <3>3 DEF LifeOf, JudgedDead
  <2>7. \A k \in Job \ {j} : LifeOf(k)'
    BY <2>4, <2>5, OtherJobs DEF Elsewhere
  <2>8. CreatorsApart'
    BY <1>0, <1>1, <2>1, <2>4, CreatorsStep DEF CreatorsApart, CreatePcs
  <2>9. \A k \in Job : LifeOf(k)'
    BY <2>6, <2>7
  <2> QED
    BY <1>1, <2>5, <2>8, <2>9 DEF LifeInv, SignalsAllowed
<1>7. CASE ConfirmStarted(t)
  <2>1. thr[t].pc = "confirm" /\ proc[j] # "none" /\ log[j] # <<>>
    BY <1>0, <1>1, <1>7 DEF ConfirmStarted, InOrder, At
  <2>2. \A u \in Thread : ~At(u, j, {"spawn"})
    BY <1>1, <2>1 DEF InOrder
  <2>3. \/ Step(t, "unstarted") /\ proc[j] = "exited"
        \/ Step(t, "pid")
    BY <1>0, <1>7 DEF ConfirmStarted
  <2>4. proc[j] = "exited" => Dead(j)
    BY <2>1, <2>2 DEF Dead
  <2> QED
    BY <1>7, <2>1, <2>3, <2>4, <1>b DEF ConfirmStarted, CreatePcs, files, process
<1>8. CASE WritePid(t)
  <2>1. thr[t].pc = "pid" /\ proc[j] # "none"
    BY <1>0, <1>1, <1>8 DEF WritePid, InOrder, At
  <2>2. \A k \in Job : k \in pidFile' => k \in pidFile \/ proc[k] # "none"
    BY <1>0, <1>8, <2>1 DEF WritePid
  <2>3. Step(t, "close") \/ Step(t, "abort")
    BY <1>8 DEF WritePid
  <2>4. UNCHANGED <<log, dirs, proc, outcome, sigterm>>
    BY <1>8 DEF WritePid, process
  <2> HIDE DEF Dead
  <2> QED
    BY <2>1, <2>2, <2>3, <2>4, <1>b DEF CreatePcs
<1>9. CASE CloseLock(t)
  <2>1. CASE thr[t].pc = "close"
    <3>1. thr'[t].pc = "fold" /\ thr'[t].op = "read" /\ thr'[t].job = thr[t].job
          /\ \A u \in Thread \ {t} : thr'[u] = thr[u]
      BY <1>2, <1>9, <2>1 DEF CloseLock, ThreadState
    <3>2. \A k \in Job : ~Judges(t, k)'
      BY <3>1 DEF Judges, At
    <3> QED
      BY <1>1, <1>9, <3>1, <3>2, QuietLife DEF CloseLock, CreatePcs, files, process
  <2>2. CASE thr[t].pc # "close"
    BY <1>1, <1>9, <2>2, <1>a DEF CloseLock, files, process
  <2> QED
    BY <2>1, <2>2
<1>10. CASE Fold(t)
  <2>1. /\ thr'[t].pc \in {"act", "probe"} /\ thr'[t].late = GraceOver(j)
        /\ thr'[t].job = j /\ thr'[t].op = thr[t].op /\ thr[t].pc \notin CreatePcs
        /\ \A u \in Thread \ {t} : thr'[u] = thr[u]
    BY <1>0, <1>2, <1>10 DEF Fold, ThreadState, CreatePcs
  <2>2. GraceOver(j) => Dead(j)
    <3>1. log[j] # <<>>
      BY <1>0, <1>1, <1>10 DEF Fold, Exists, InOrder
    <3>2. GraceOver(j) => \A u \in Thread : ~At(u, j, {"spawn"})
      BY <1>1 DEF GraceOver, Creating, At, CreatorsApart, CreatePcs
    <3> QED
      BY <3>1, <3>2 DEF Dead, GraceOver
  <2>3. \A k \in Job : Judges(t, k)' => Dead(k)
    BY <2>1, <2>2 DEF Judges, At
  <2> QED
    BY <1>0, <1>1, <1>3, <1>10, <2>1, <2>3, QuietLife DEF Fold, CreatePcs, files, process
<1>11. CASE ProbePid(t)
  <2>1. thr[t].pc = "probe"
    BY <1>11 DEF ProbePid
  <2>2. (Step(t, "verdict") /\ j \in pidFile /\ ~Alive(j)) \/ Step(t, "refold")
    BY <1>0, <1>11 DEF ProbePid
  <2>3. j \in pidFile /\ ~Alive(j) => Dead(j)
    BY <1>1 DEF InOrder, Alive, Dead
  <2> HIDE DEF Dead
  <2> QED
    BY <1>11, <2>1, <2>2, <2>3, <1>b DEF ProbePid, CreatePcs, files, process
<1>12. CASE GiveUpOnPid(t)
  <2>1. thr[t].pc = "probe" /\ thr[t].late
    BY <1>12 DEF GiveUpOnPid
  <2>2. Dead(j)
    BY <1>0, <1>1, <2>1 DEF LifeOf, JudgedDead, Judges, At
  <2> QED
    BY <1>12, <2>1, <2>2, <1>b DEF GiveUpOnPid, CreatePcs, files, process
<1> QED
  BY <1>4, <1>5, <1>6, <1>7, <1>8, <1>9, <1>10, <1>11, <1>12 DEF ThreadStep

\* The process writes its own log, and nobody judges it meanwhile.
LEMMA LifeProcess ==
    ASSUME TypeInv, LifeInv, NEW j \in Job, ProcessStep(j) \/ TakeSigterm(j) \/ Kill(j)
    PROVE  LifeInv'
<1>1. /\ TypeOK /\ InOrder(j) /\ JudgedDead(j) /\ LogIsOwn(j) /\ CreatorsApart
      /\ sigterm \subseteq Cancellable
  BY DEF TypeInv, LifeInv, LifeOf, SignalsAllowed
<1>2. log \in [Job -> Seq(Event)] /\ proc \in [Job -> Stage]
      /\ outcome \in [Job -> Terminal \cup {"none", "sigterm"}]
  BY <1>1 DEF TypeOK
<1>3. UNCHANGED <<thr, dirs>> /\ sigterm' \subseteq sigterm /\ pidFile' \subseteq pidFile \cup {j}
  BY DEF ProcessStep, TakeSigterm, Kill, ExecJob, WriteOwnPid, RefuseToRun, BeginRun,
     InstallHandler, Ask, TakeAnswer, StopWaiting, CommandReturns, Finish, Exit, files, process
<1>4. proc[j] \notin {"none", "exited"}
  BY DEF ProcessStep, TakeSigterm, Kill, ExecJob, WriteOwnPid, RefuseToRun, BeginRun,
     InstallHandler, Ask, TakeAnswer, StopWaiting, CommandReturns, Finish, Exit, Alive
<1>5. \A t \in Thread : ~Judges(t, j)
  BY <1>1, <1>4 DEF JudgedDead, Dead
<1>6. \A k \in Job \ {j} : log'[k] = log[k] /\ proc'[k] = proc[k] /\ outcome'[k] = outcome[k]
  BY <1>2 DEF ProcessStep, TakeSigterm, Kill, ExecJob, WriteOwnPid, RefuseToRun, BeginRun,
     InstallHandler, Ask, TakeAnswer, StopWaiting, CommandReturns, Finish, Exit, files, process,
     Become, Decide, Gone, Emit
<1>7. proc'[j] # "none"
  BY <1>2, <1>4 DEF ProcessStep, TakeSigterm, Kill, ExecJob, WriteOwnPid, RefuseToRun, BeginRun,
     InstallHandler, Ask, TakeAnswer, StopWaiting, CommandReturns, Finish, Exit, Become, Gone
<1>a. ASSUME NEW e \in Event, Emit(j, e)
      PROVE  /\ log'[j] # <<>>
             /\ FoldState(log'[j]) = IF e \in JobState THEN e ELSE FoldState(log[j])
             /\ Count(log'[j], "result") =
                   IF e = "result" THEN Count(log[j], "result") + 1 ELSE Count(log[j], "result")
  BY <1>1, <1>a, EmitFacts
<1>8. log'[j] # <<>>
  <2>1. CASE \E e \in Event : Emit(j, e)
    BY <2>1, <1>a
  <2>2. CASE ~\E e \in Event : Emit(j, e)
    <3>1. Terminal \cup {"running", "waiting_input", "prompt", "result"} \subseteq Event
      BY DEF Event, JobState
    <3>2. proc[j] = "sealing" => outcome[j] \in Terminal
      BY DEF TypeInv, OutcomeDecided
    <3>3. log' = log
      BY <2>2, <3>1, <3>2 DEF ProcessStep, TakeSigterm, Kill, ExecJob, WriteOwnPid, RefuseToRun,
         BeginRun, InstallHandler, Ask, TakeAnswer, StopWaiting, CommandReturns, Finish, Exit, files
    <3> QED
      BY <1>1, <1>4, <3>3 DEF InOrder
  <2> QED
    BY <2>1, <2>2
<1>9. InOrder(j)'
  <2>1. \A t \in Thread : ~At(t, j, {"lock", "write"}) /\ ~At(t, j, {"spawn"})
    BY <1>1, <1>4 DEF InOrder
  <2> QED
    BY <1>3, <1>7, <1>8, <2>1 DEF InOrder, At
<1>10. JudgedDead(j)'
  BY <1>3, <1>5 DEF JudgedDead, Judges, At
<1>11. LogIsOwn(j)'
  <2>0. /\ Count(log[j], "result") \in Nat
        /\ {"running", "waiting_input"} \subseteq JobState \ Terminal
        /\ {"running", "waiting_input", "prompt", "result"} \subseteq Event
        /\ Terminal \subseteq JobState \cap Event
        /\ "result" \notin JobState /\ "prompt" \notin JobState
    BY <1>2, CountType DEF Event, JobState, Terminal
  \* Where the process goes without writing: a result neither comes nor goes.
  <2>1. CASE log' = log /\ proc'[j] \notin {"sealing", "leaving"}
              /\ proc[j] \notin {"sealing", "leaving"}
    <3>1. Count(log[j], "result") = 0 /\ FoldState(log[j]) \notin Terminal
      BY <1>1, <1>2, <1>4, <2>1 DEF LogIsOwn
    <3> QED
      BY <2>1, <3>1 DEF LogIsOwn
  <2>2. CASE ExecJob(j) \/ WriteOwnPid(j) \/ RefuseToRun(j) \/ InstallHandler(j)
             \/ StopWaiting(j) \/ CommandReturns(j)
    <3>1. log' = log
      BY <2>2 DEF ExecJob, WriteOwnPid, RefuseToRun, InstallHandler, StopWaiting,
         CommandReturns, files
    <3>2. proc'[j] \notin {"sealing", "leaving"} /\ proc[j] \notin {"sealing", "leaving"}
      BY <1>2, <2>2 DEF ExecJob, WriteOwnPid, RefuseToRun, InstallHandler, StopWaiting,
         CommandReturns, Become
    <3> QED
      BY <2>1, <3>1, <3>2
  <2>3. CASE BeginRun(j) \/ Ask(j) \/ TakeAnswer(j)
    <3>1. PICK e \in {"running", "waiting_input", "prompt"} : Emit(j, e)
      BY <2>3 DEF BeginRun, Ask, TakeAnswer
    <3>2. proc'[j] \notin {"sealing", "leaving"} /\ proc[j] \notin {"sealing", "leaving"}
      BY <1>2, <2>3 DEF BeginRun, Ask, TakeAnswer, Become
    <3>3. Count(log[j], "result") = 0 /\ FoldState(log[j]) \notin Terminal
      BY <1>1, <1>2, <1>4, <3>2 DEF LogIsOwn
    <3>4. Count(log'[j], "result") = 0 /\ FoldState(log'[j]) \notin Terminal
      BY <1>a, <2>0, <3>1, <3>3
    <3> QED
      BY <3>2, <3>4 DEF LogIsOwn
  <2>4. CASE Finish(j) /\ proc[j] = "finishing"
    <3>1. Emit(j, "result") /\ proc'[j] = "sealing"
      BY <1>2, <2>4 DEF Finish, Become
    <3>2. Count(log[j], "result") = 0 /\ FoldState(log[j]) \notin Terminal
      BY <1>1, <2>4 DEF LogIsOwn, Stage
    <3>3. Count(log'[j], "result") = 1 /\ FoldState(log'[j]) \notin Terminal
      BY <1>a, <2>0, <3>1, <3>2
    <3> QED
      BY <3>1, <3>3 DEF LogIsOwn
  <2>5. CASE Finish(j) /\ proc[j] = "sealing"
    <3>1. Emit(j, outcome[j]) /\ proc'[j] = "leaving" /\ outcome' = outcome
      BY <1>2, <2>5 DEF Finish, Become
    <3>2. Count(log[j], "result") = 1 /\ outcome[j] \in Terminal
      BY <1>1, <2>5 DEF LogIsOwn, TypeInv, OutcomeDecided
    <3>3. Count(log'[j], "result") = 1 /\ FoldState(log'[j]) = outcome[j]
      BY <1>a, <2>0, <3>1, <3>2
    <3> QED
      BY <3>1, <3>3 DEF LogIsOwn
  <2>6. CASE Exit(j) \/ Kill(j)
    <3>1. proc'[j] = "exited"
      BY <1>2, <2>6 DEF Exit, Kill, Gone, Become
    <3> QED
      BY <3>1 DEF LogIsOwn
  <2>7. CASE TakeSigterm(j)
    <3>1. log' = log
      BY <2>7 DEF TakeSigterm, files
    <3>2. \/ proc'[j] = "exited"
          \/ proc'[j] = "finishing" /\ proc[j] \in {"body", "asking", "waiting"}
          \/ proc'[j] = proc[j] /\ outcome'[j] = outcome[j]
      BY <1>2, <2>7 DEF TakeSigterm, Gone, Become, Decide
    <3>3. CASE proc'[j] = "exited"
      BY <3>3 DEF LogIsOwn
    <3>4. CASE proc'[j] = "finishing" /\ proc[j] \in {"body", "asking", "waiting"}
      BY <2>1, <3>1, <3>4
    <3>5. CASE proc'[j] = proc[j] /\ outcome'[j] = outcome[j]
      BY <1>1, <3>1, <3>5 DEF LogIsOwn
    <3> QED
      BY <3>2, <3>3, <3>4, <3>5
  <2>8. Finish(j) => proc[j] \in {"finishing", "sealing"}
    BY DEF Finish
  <2> QED
    BY <2>2, <2>3, <2>4, <2>5, <2>6, <2>7, <2>8 DEF ProcessStep
<1>12. ASSUME NEW k \in Job, k # j
       PROVE  LifeOf(k)'
  <2>1. LifeOf(k)
    BY DEF LifeInv
  <2>2. log'[k] = log[k] /\ proc'[k] = proc[k] /\ outcome'[k] = outcome[k]
        /\ (k \in pidFile' => k \in pidFile)
    BY <1>3, <1>6, <1>12
  <2>3. InOrder(k)' /\ LogIsOwn(k)'
    BY <1>3, <2>1, <2>2 DEF LifeOf, InOrder, LogIsOwn, At
  <2>4. JudgedDead(k)'
    BY <1>3, <2>1, <2>2 DEF LifeOf, JudgedDead, Judges, Dead, At
  <2> QED
    BY <2>3, <2>4 DEF LifeOf
<1>13. \A k \in Job : LifeOf(k)'
  BY <1>9, <1>10, <1>11, <1>12 DEF LifeOf
<1>14. CreatorsApart'
  BY <1>1, <1>3 DEF CreatorsApart
<1> QED
  BY <1>1, <1>3, <1>13, <1>14 DEF LifeInv, SignalsAllowed

\* A new request of a client, to make a job or about one.
LEMMA LifeNewRequest ==
    ASSUME TypeInv, LifeInv, NEW t \in Thread, NEW j \in Job,
           CreateJob(t, j) \/ \E op \in Requests : StartOp(t, j, op)
    PROVE  LifeInv'
<1>1. /\ thr \in [Thread -> ThreadState] /\ CreatorsApart /\ InOrder(j)
      /\ sigterm \subseteq Cancellable /\ "create" \notin Requests
  BY JobsAssumption DEF TypeInv, TypeOK, LifeInv, LifeOf, SignalsAllowed, JobsAssumption
<1>2. UNCHANGED <<log, proc, outcome, dirs, pidFile, sigterm>>
      /\ \A u \in Thread \ {t} : thr'[u] = thr[u]
  BY <1>1 DEF CreateJob, StartOp, files, process
<1>3. CASE CreateJob(t, j)
  <2>1. thr'[t].pc = "lock" /\ thr'[t].op = "create" /\ thr'[t].job = j
        /\ log[j] = <<>> /\ proc[j] = "none"
    BY <1>1, <1>3 DEF CreateJob, Idle, InOrder
  <2>2. \A u \in Thread \ {t} : thr[u].pc \in CreatePcs => thr[u].job # j
    BY <1>1, <1>3 DEF CreateJob, CreatorsApart
  <2>3. CreatorsApart'
    BY <1>1, <1>2, <2>1, <2>2 DEF CreatorsApart, CreatePcs
  <2>4. \A k \in Job : LifeOf(k)'
    BY <1>2, <2>1, QuietStep DEF At, Judges
  <2> QED
    BY <1>1, <1>2, <2>3, <2>4 DEF LifeInv, SignalsAllowed
<1>4. ASSUME NEW op \in Requests, StartOp(t, j, op)
      PROVE  LifeInv'
  <2>1. thr'[t].pc = "fold" /\ thr'[t].op = op /\ op # "create"
    BY <1>1, <1>4 DEF StartOp, Idle
  <2>2. CreatorsApart'
    BY <1>1, <1>2, <2>1 DEF CreatorsApart, CreatePcs
  <2>3. \A k \in Job : LifeOf(k)'
    BY <1>2, <2>1, QuietStep DEF At, Judges
  <2> QED
    BY <1>1, <1>2, <2>2, <2>3 DEF LifeInv, SignalsAllowed
<1> QED
  BY <1>3, <1>4

LEMMA LifeInvStep == TypeInv /\ LifeInv /\ [Next]_vars => LifeInv'
<1> SUFFICES ASSUME TypeInv, LifeInv, [Next]_vars PROVE LifeInv'
  OBVIOUS
<1>1. ASSUME NEW t \in Thread, ThreadStep(t)
      PROVE  LifeInv'
  <2>1. CASE SpawnJob(t) /\ Step(t, "confirm")
    <3>1. TypeOK
      BY DEF TypeInv
    <3>2. thr'[t].pc = "confirm"
      BY <2>1, <3>1, StepFacts
    <3>3. ~Step(t, "unstarted")
      BY <3>1, <3>2, StepFacts
    <3>4. proc' = [proc EXCEPT ![thr[t].job] = "launcher"]
      BY <2>1, <3>3 DEF SpawnJob
    <3> QED
      BY <2>1, <3>4, LifeSpawned
  <2> QED
    BY <1>1, <2>1, LifeWriteJob, LifeVerdict, LifeQuietSteps
<1>2. CASE ServerCrash \/ UNCHANGED vars
  <2>1. UNCHANGED <<log, proc, outcome, dirs, pidFile, sigterm>>
        /\ \A t \in Thread : thr'[t] = thr[t] \/ thr'[t] = Idle
    BY <1>2 DEF ServerCrash, vars, files, process
  <2>2. \A t \in Thread, k \in Job, pcs \in SUBSET (Pc \ {"idle"}) : At(t, k, pcs)' => At(t, k, pcs)
    BY <2>1 DEF At, Idle
  <2>3. \A t \in Thread, k \in Job : Judges(t, k)' => Judges(t, k)
    BY <2>1 DEF Judges, At, Idle
  <2>4. ASSUME NEW k \in Job
        PROVE  LifeOf(k)'
    <3>1. LifeOf(k)
      BY DEF LifeInv
    <3>2. InOrder(k)'
      BY <2>1, <3>1 DEF LifeOf, InOrder, At, Idle
    <3>3. Dead(k) => Dead(k)'
      BY <2>1 DEF Dead, At, Idle
    <3>4. JudgedDead(k)' /\ LogIsOwn(k)'
      BY <2>1, <2>3, <3>1, <3>3 DEF LifeOf, JudgedDead, LogIsOwn
    <3> QED
      BY <3>2, <3>4 DEF LifeOf
  <2>5. CreatorsApart'
    BY <2>1 DEF LifeInv, CreatorsApart, Idle, CreatePcs
  <2> QED
    BY <2>1, <2>4, <2>5 DEF LifeInv, SignalsAllowed
<1> QED
  BY <1>1, <1>2, LifeNewRequest, LifeProcess DEF Next

LEMMA LifeInvInit == Init => LifeInv
<1> SUFFICES ASSUME Init PROVE LifeInv
  OBVIOUS
<1>1. \A t \in Thread : thr[t].pc = "idle" /\ thr[t].op = "read" /\ ~thr[t].late
  BY DEF Init, Idle
<1>2. \A j \in Job : log[j] = <<>> /\ proc[j] = "none"
  BY DEF Init
<1>3. ASSUME NEW j \in Job
      PROVE  LifeOf(j)
  BY <1>1, <1>2 DEF Init, LifeOf, InOrder, JudgedDead, Judges, LogIsOwn, At
<1> QED
  BY <1>1, <1>3 DEF Init, LifeInv, SignalsAllowed, CreatorsApart, CreatePcs

LEMMA LifeInductive ==
    /\ Init => TypeInv /\ LifeInv
    /\ TypeInv /\ LifeInv /\ [Next]_vars => (TypeInv /\ LifeInv)'
  BY TypeInvInductive, TypeInvStep, LifeInvInit, LifeInvStep, JobsAssumption

\* What a finished process leaves is its own report: no reader that took it for
\* dead, no request that took it for unstarted, has written a verdict before.
THEOREM ReportIsOwn == Spec => []ReportStands
<1>1. LifeInv => ReportStands
  BY DEF LifeInv, LifeOf, LogIsOwn, ReportStands
<1> QED
  BY <1>1, LifeInductive, PTL DEF Spec

-----------------------------------------------------------------------------
(* What no step does. *)

\* Who writes to the log of a job, and what.
LEMMA Writers ==
    ASSUME TypeInv, LifeInv, NEW j \in Job, [Next]_vars, log'[j] # log[j]
    PROVE  \E e \in Event :
              /\ Emit(j, e)
              /\ \/ log[j] = <<>>
                 \/ e = "result" \/ e \in Terminal
                 \/ FoldState(log[j]) \notin Terminal
<1>1. log \in [Job -> Seq(Event)] /\ proc \in [Job -> Stage] /\ LifeOf(j)
  BY DEF TypeInv, TypeOK, LifeInv
<1>2. Terminal \cup {"queued", "running", "waiting_input", "prompt", "result"} \subseteq Event
      /\ "failed" \in Terminal
  BY DEF Event, JobState, Terminal
<1>3. ASSUME NEW t \in Thread, ThreadStep(t)
      PROVE  \E e \in Event : Emit(j, e) /\ (log[j] = <<>> \/ e = "result" \/ e \in Terminal)
  <2>1. PICK k \in Job : k = thr[t].job
    BY <1>3 DEF TypeInv, BusyThreadHasJob, ThreadStep, AcquireMutatingLock, RefuseBusy, WriteJob,
       SpawnJob, ConfirmStarted, WritePid, FailUnstarted, CloseLock, NotFound, Fold, ProbePid,
       GiveUpOnPid, Reconcile, ReadDone, WriteAnswer, Cancel
  <2>2. WriteJob(t) \/ FailUnstarted(t) \/ Reconcile(t)
    BY <1>3 DEF ThreadStep, AcquireMutatingLock, RefuseBusy, SpawnJob, ConfirmStarted, WritePid,
       CloseLock, NotFound, Fold, ProbePid, GiveUpOnPid, ReadDone, WriteAnswer, Cancel, files
  <2>3. PICK e \in {"queued", "result", "failed"} : Emit(k, e) /\ (e = "queued" => WriteJob(t))
    BY <2>1, <2>2 DEF WriteJob, FailUnstarted, Reconcile
  <2>4. k = j
    BY <1>1, <2>3 DEF Emit
  <2>5. WriteJob(t) => log[j] = <<>>
    BY <1>1, <2>1, <2>4 DEF WriteJob, LifeOf, InOrder, At
  <2> QED
    BY <1>2, <2>3, <2>4, <2>5
<1>4. ASSUME NEW k \in Job, ProcessStep(k)
      PROVE  \E e \in Event : Emit(j, e)
                /\ (e = "result" \/ e \in Terminal \/ FoldState(log[j]) \notin Terminal)
  <2>1. BeginRun(k) \/ Ask(k) \/ TakeAnswer(k) \/ Finish(k)
    BY <1>4 DEF ProcessStep, ExecJob, WriteOwnPid, RefuseToRun, InstallHandler, StopWaiting,
       CommandReturns, Exit, files
  <2>2. PICK e \in Event : Emit(k, e) /\ (Finish(k) => e = "result" \/ e \in Terminal)
    BY <1>2, <2>1 DEF BeginRun, Ask, TakeAnswer, Finish, TypeInv, OutcomeDecided
  <2>3. k = j
    BY <1>1, <2>2 DEF Emit
  <2>4. ~Finish(j) => FoldState(log[j]) \notin Terminal
    BY <1>1, <2>1, <2>3 DEF BeginRun, Ask, TakeAnswer, LifeOf, LogIsOwn, Stage
  <2> QED
    BY <2>2, <2>3, <2>4
<1>5. \/ \E t \in Thread : ThreadStep(t)
      \/ \E k \in Job : ProcessStep(k)
  BY DEF Next, CreateJob, StartOp, TakeSigterm, Kill, ServerCrash, vars, files
<1> QED
  BY <1>3, <1>4, <1>5

\* A job that is over stays over, whoever writes to its log after that.
THEOREM OverIsOver == Spec => NoResurrection
<1>1. ASSUME TypeInv, LifeInv, [Next]_vars, NEW j \in Job, FoldState(log[j]) \in Terminal
      PROVE  FoldState(log[j])' \in Terminal
  <2>1. CASE log'[j] = log[j]
    BY <1>1, <2>1
  <2>2. CASE log'[j] # log[j]
    <3>1. TypeOK
      BY <1>1 DEF TypeInv
    <3>2. log[j] # <<>>
      BY <1>1, FreshLog DEF Terminal
    <3>3. PICK e \in Event : Emit(j, e) /\ (e = "result" \/ e \in Terminal)
      BY <1>1, <2>2, <3>2, Writers
    <3>4. FoldState(log'[j]) = IF e \in JobState THEN e ELSE FoldState(log[j])
      BY <3>1, <3>3, EmitFacts
    <3>5. "result" \notin JobState
      BY DEF JobState, Terminal
    <3> QED
      BY <1>1, <3>3, <3>4, <3>5
  <2> QED
    BY <2>1, <2>2
<1>2. TypeInv /\ LifeInv /\ [Next]_vars =>
        [\A j \in Job : FoldState(log[j]) \in Terminal => FoldState(log[j])' \in Terminal]_vars
  BY <1>1
<1> QED
  BY <1>2, LifeInductive, PTL DEF Spec, NoResurrection

\* prune takes no directory from under a process that still writes to it.
THEOREM PruneIsSafe == Spec => PruneSparesRunning
<1>1. ASSUME TypeInv, LifeInv, [Next]_vars, NEW j \in Job, Exists(j), ~Exists(j)'
      PROVE  proc[j] \in {"none", "leaving", "exited"}
  <2>1. \E t \in Thread : WriteJob(t)
    BY <1>1 DEF Exists, Next, ThreadStep, ProcessStep, CreateJob, StartOp, AcquireMutatingLock,
       RefuseBusy, SpawnJob, ConfirmStarted, WritePid, FailUnstarted, CloseLock, NotFound, Fold,
       ProbePid, GiveUpOnPid, Reconcile, ReadDone, WriteAnswer, Cancel, ExecJob, WriteOwnPid,
       RefuseToRun, BeginRun, InstallHandler, Ask, TakeAnswer, StopWaiting, CommandReturns,
       Finish, Exit, TakeSigterm, Kill, ServerCrash, vars, files
  <2>2. FoldState(log[j]) \in Terminal
    BY <1>1, <2>1 DEF WriteJob, Exists, Prunable
  <2>3. proc[j] \in Stage /\ LogIsOwn(j)
    BY <1>1 DEF TypeInv, TypeOK, LifeInv, LifeOf
  <2> QED
    BY <2>2, <2>3 DEF LogIsOwn
<1>2. TypeInv /\ LifeInv /\ [Next]_vars =>
        [\A j \in Job : Exists(j) /\ ~Exists(j)' => proc[j] \in {"none", "leaving", "exited"}]_vars
  BY <1>1
<1> QED
  BY <1>2, LifeInductive, PTL DEF Spec, PruneSparesRunning

\* A cancel that went by a stale state does not stop an unsafe command midway.
THEOREM UnsafeIsSafe == Spec => UnsafeNeverInterrupted
<1>1. ASSUME TypeInv, LifeInv, [Next]_vars, NEW j \in Job \ Cancellable,
             outcome'[j] \in {"cancelled", "sigterm"}, outcome[j] # outcome'[j]
      PROVE  proc[j] = "waiting"
  <2>1. outcome \in [Job -> Terminal \cup {"none", "sigterm"}] /\ sigterm \subseteq Cancellable
    BY <1>1 DEF TypeInv, TypeOK, LifeInv, SignalsAllowed
  <2>2. \E k \in Job : TakeSigterm(k) \/ RefuseToRun(k) \/ StopWaiting(k) \/ CommandReturns(k)
    BY <1>1 DEF Next, ThreadStep, ProcessStep, CreateJob, StartOp, AcquireMutatingLock,
       RefuseBusy, WriteJob, SpawnJob, ConfirmStarted, WritePid, FailUnstarted, CloseLock,
       NotFound, Fold, ProbePid, GiveUpOnPid, Reconcile, ReadDone, WriteAnswer, Cancel, ExecJob,
       WriteOwnPid, BeginRun, InstallHandler, Ask, TakeAnswer, Finish, Exit, Kill, ServerCrash,
       vars, process
  <2>3. ASSUME NEW k \in Job, TakeSigterm(k)
        PROVE  FALSE
    <3>1. k # j
      BY <1>1, <2>1, <2>3 DEF TakeSigterm
    <3>2. outcome'[j] = outcome[j]
      BY <2>1, <2>3, <3>1 DEF TakeSigterm, Decide
    <3> QED
      BY <1>1, <3>2
  <2>4. ASSUME NEW k \in Job, RefuseToRun(k) \/ StopWaiting(k) \/ CommandReturns(k)
        PROVE  proc[j] = "waiting"
    BY <1>1, <2>1, <2>4 DEF RefuseToRun, StopWaiting, CommandReturns, Decide
  <2> QED
    BY <2>2, <2>3, <2>4
<1>2. TypeInv /\ LifeInv /\ [Next]_vars =>
        [\A j \in Job \ Cancellable : outcome'[j] \in {"cancelled", "sigterm"}
            /\ outcome[j] # outcome'[j] => proc[j] = "waiting"]_vars
  BY <1>1
<1> QED
  BY <1>2, LifeInductive, PTL DEF Spec, UnsafeNeverInterrupted
=============================================================================

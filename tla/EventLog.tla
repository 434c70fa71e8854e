------------------------------- MODULE EventLog -------------------------------
(***************************************************************************)
(* One job's event log: the job process and the threads of the web server  *)
(* that write it, the server-sent-event stream that reads it, and the      *)
(* browser that follows the stream and reconnects.                         *)
(*                                                                         *)
(* A write takes the file lock and is one step.  A write cut short leaves  *)
(* a partial line, which the next write completes into an unreadable one.  *)
(***************************************************************************)
EXTENDS Integers, SequencesExt

CONSTANTS
    Threads,    \* threads of the server that look a job up
    Streamer,   \* the one of them that serves the stream
    JobEvents,  \* what the job writes, in order
    MaxBreaks   \* bound on broken connections

EventKinds == {"running", "log", "result", "over", "failed"}
ASSUME EventLogAssumption ==
    Streamer \in Threads /\ JobEvents \in Seq(EventKinds) /\ MaxBreaks \in Nat

VARIABLES
    log,        \* events.jsonl: its lines, the last one perhaps partial
    size,       \* its length
    writer,     \* _seq and _size of each EventWriter
    alive,      \* the job process runs
    todo,       \* what it has still to write
    thread,     \* each server thread: "idle", "result" or "state" in _reconcile
    stream,     \* _pump: "none", "read", "judge" or "closed"
    after,      \* the last sequence number it sent
    grace,      \* it sent a result
    wire,       \* events on their way to the browser
    liveJob,    \* the browser's LiveJob: last seq, whether over, whether a result
    seen,       \* history: the events it took in
    breaks      \* how many connections broke

eventVars == <<log, size, writer, alive, todo, thread, stream, after, grace, wire,
               liveJob, seen, breaks>>

Writers == {"job"} \cup Threads
Terminal == {"over", "failed"}
Lines == [seq: Nat, kind: EventKinds \cup {"partial", "bad"}]
Seqs(events) == [i \in DOMAIN events |-> events[i].seq]

EventLogTypeOK ==
    /\ log \in Seq(Lines) /\ size \in Nat /\ writer \in [Writers -> [seq: Nat, size: Int]]
    /\ alive \in BOOLEAN /\ todo \in Seq(EventKinds)
    /\ thread \in [Threads -> {"idle", "result", "state"}]
    /\ stream \in {"none", "read", "judge", "closed"} /\ after \in Nat
    /\ grace \in BOOLEAN /\ wire \in Seq(Lines) /\ seen \in Seq(Lines)
    /\ liveJob \in [lastSeq: Nat, over: BOOLEAN, result: BOOLEAN] /\ breaks \in 0..MaxBreaks

(***************************************************************************)
(* Reading and writing the file.                                           *)
(***************************************************************************)
\* Line by line: what is no event, or no later one, is passed over.
ReadEvents(from) ==
    LET read[n \in 0..Len(log)] ==
            IF n = 0 THEN <<>>
            ELSE IF log[n].kind \in EventKinds /\ log[n].seq > from
            THEN Append(read[n - 1], log[n]) ELSE read[n - 1]
    IN  read[Len(log)]
LastSeq == IF ReadEvents(0) = <<>> THEN 0 ELSE Last(ReadEvents(0)).seq

JobOver == \E i \in DOMAIN log : log[i].kind \in Terminal

NextSeq(w) == 1 + (IF size # writer[w].size THEN LastSeq ELSE writer[w].seq)

Emit(w, kind) ==
    LET event == [seq |-> NextSeq(w), kind |-> kind]
        torn  == log # <<>> /\ Last(log).kind = "partial"
    IN  /\ log' = IF torn THEN Append(Front(log), [event EXCEPT !.kind = "bad"])
                  ELSE Append(log, event)
        /\ size' = size + 1
        /\ writer' = [writer EXCEPT ![w] = [seq |-> event.seq, size |-> size + 1]]

(***************************************************************************)
(* The job.                                                                *)
(***************************************************************************)
JobEmits ==
    /\ alive /\ todo # <<>>
    /\ Emit("job", Head(todo)) /\ todo' = Tail(todo)
    /\ alive' = (todo' # <<>>)
    /\ UNCHANGED <<thread, stream, after, grace, wire, liveJob, seen, breaks>>

\* The process is killed, perhaps while it writes.
JobDies ==
    /\ alive /\ alive' = FALSE
    /\ \/ UNCHANGED <<log, size>>
       \/ /\ log' = Append(log, [seq |-> NextSeq("job"), kind |-> "partial"])
          /\ size' = size + 1
    /\ UNCHANGED <<writer, todo, thread, stream, after, grace, wire, liveJob, seen, breaks>>

(***************************************************************************)
(* read_job: a job that ended without a word is declared failed.           *)
(***************************************************************************)
ReconcileStarts(t) ==
    /\ thread[t] = "idle" /\ ~alive /\ ~JobOver
    /\ thread' = [thread EXCEPT ![t] = "result"]
    /\ UNCHANGED <<log, size, writer, alive, todo, stream, after, grace, wire, liveJob, seen, breaks>>

ReconcileEmits(t) ==
    /\ \/ /\ thread[t] = "result" /\ Emit(t, "result")
          /\ thread' = [thread EXCEPT ![t] = "state"]
       \/ /\ thread[t] = "state" /\ Emit(t, "failed")
          /\ thread' = [thread EXCEPT ![t] = "idle"]
    /\ UNCHANGED <<alive, todo, stream, after, grace, wire, liveJob, seen, breaks>>

(***************************************************************************)
(* _pump.  Between the read and the judgement the job may write.           *)
(***************************************************************************)
PumpReads ==
    /\ stream = "read" /\ thread[Streamer] = "idle" /\ (alive \/ JobOver)
    /\ LET events == ReadEvents(after)
           ends   == SelectInSeq(events, LAMBDA e : e.kind \in Terminal)
           sent   == IF ends = 0 THEN events ELSE SubSeq(events, 1, ends)
       IN  /\ wire' = wire \o sent
           /\ after' = IF sent = <<>> THEN after ELSE Last(sent).seq
           /\ grace' = (grace \/ \E i \in DOMAIN sent : sent[i].kind = "result")
           /\ stream' = IF ends # 0 THEN "closed" ELSE IF events = <<>> THEN "judge" ELSE "read"
    /\ UNCHANGED <<log, size, writer, alive, todo, thread, liveJob, seen, breaks>>

PumpJudges ==
    /\ stream = "judge"
    /\ stream' \in IF grace THEN {"read", "closed"}
                   ELSE IF JobOver THEN {"closed"} ELSE {"read"}
    /\ UNCHANGED <<log, size, writer, alive, todo, thread, after, grace, wire, liveJob, seen, breaks>>

(***************************************************************************)
(* The browser.                                                            *)
(***************************************************************************)
\* Mutant: the stream is asked for what comes after the next event.
ResumeAfterNext == liveJob.lastSeq + 1

ResumeAfter == liveJob.lastSeq

HubOpens ==
    /\ stream = "none" /\ ~(liveJob.over /\ liveJob.result)
    /\ stream' = "read" /\ after' = ResumeAfter /\ grace' = FALSE /\ wire' = <<>>
    /\ UNCHANGED <<log, size, writer, alive, todo, thread, liveJob, seen, breaks>>

HubIngests ==
    /\ wire # <<>> /\ wire' = Tail(wire)
    /\ LET e == Head(wire)
       IN  IF e.seq <= liveJob.lastSeq THEN UNCHANGED <<liveJob, seen>>
           ELSE /\ seen' = Append(seen, e)
                /\ liveJob' = [lastSeq |-> e.seq, over |-> liveJob.over \/ e.kind \in Terminal,
                            result |-> liveJob.result \/ e.kind = "result"]
    /\ UNCHANGED <<log, size, writer, alive, todo, thread, stream, after, grace, breaks>>

\* Mutant: the browser reconnects only while it has seen nothing.
HubReconnectsOnce == stream = "closed" /\ wire = <<>>
    /\ liveJob.lastSeq = 0 /\ stream' = "none"
    /\ UNCHANGED <<log, size, writer, alive, todo, thread, after, grace, wire, liveJob, seen, breaks>>

\* onerror: the source is closed and, unless the job is over, opened again.
HubReconnects ==
    /\ stream = "closed" /\ wire = <<>> /\ ~liveJob.over /\ stream' = "none"
    /\ UNCHANGED <<log, size, writer, alive, todo, thread, after, grace, wire, liveJob, seen, breaks>>

\* A broken connection, or a server that retires, loses what is on its way.
StreamBreaks ==
    /\ stream \in {"read", "judge", "closed"} /\ breaks < MaxBreaks /\ breaks' = breaks + 1
    /\ stream' = "closed" /\ wire' = <<>>
    /\ UNCHANGED <<log, size, writer, alive, todo, thread, after, grace, liveJob, seen>>

EventLogInit ==
    /\ log = <<>> /\ size = 0 /\ writer = [w \in Writers |-> [seq |-> 0, size |-> -1]]
    /\ alive = TRUE /\ todo = JobEvents /\ thread = [t \in Threads |-> "idle"]
    /\ stream = "none" /\ after = 0 /\ grace = FALSE /\ wire = <<>>
    /\ liveJob = [lastSeq |-> 0, over |-> FALSE, result |-> FALSE] /\ seen = <<>> /\ breaks = 0

PumpSteps == PumpReads \/ PumpJudges \/ ReconcileStarts(Streamer) \/ ReconcileEmits(Streamer)
EventLogNext ==
    \/ JobEmits \/ JobDies \/ PumpSteps
    \/ \E t \in Threads \ {Streamer} : ReconcileStarts(t) \/ ReconcileEmits(t)
    \/ HubOpens \/ HubIngests \/ HubReconnects \/ StreamBreaks

\* The job makes progress or dies, the stream's thread runs, the browser runs.
EventLogFairness ==
    /\ WF_eventVars(JobEmits \/ JobDies) /\ WF_eventVars(PumpSteps)
    /\ WF_eventVars(HubOpens) /\ WF_eventVars(HubIngests) /\ WF_eventVars(HubReconnects)
EventLogSpec == EventLogInit /\ [][EventLogNext]_eventVars /\ EventLogFairness

(***************************************************************************)
(* Properties.                                                             *)
(***************************************************************************)
\* The sequence numbers of readable events strictly increase, whoever wrote
\* them and even after a write cut short (jobs/_events.py:104).
SeqsIncrease ==
    \A i, j \in DOMAIN ReadEvents(0) :
        i < j => ReadEvents(0)[i].seq < ReadEvents(0)[j].seq

\* What the browser took in is what the log holds up to its last event, each
\* event once and in order, across reconnections (web/src/jobs/hub.ts:113): it
\* goes by the sequence numbers, which increase.
BrowserSeesPrefix ==
    /\ SeqsIncrease /\ IsPrefix(seen, ReadEvents(0))
    /\ \A i \in DOMAIN ReadEvents(0) :
          ReadEvents(0)[i].seq <= liveJob.lastSeq <=> i \in DOMAIN seen

\* A job that is over is seen over, though a stream may close between the
\* job's last events and its own look at them (_web_sse.py:82).
BrowserSeesEnd == ~alive ~> liveJob.over
=============================================================================

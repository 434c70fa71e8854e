------------------------------- MODULE Earners -------------------------------
(***************************************************************************)
(* How a credit reaches the budget: the gate that writes it, the daemon     *)
(* that asks for it every tick and remembers the answer, and the watch that *)
(* wakes the daemon early.  The earners share no state, so a behaviour      *)
(* follows one of them.  What an answer is worth is not modelled here.      *)
(*                                                                          *)
(* A pass over the earners takes no time; writes fall between any two of    *)
(* its steps.                                                               *)
(***************************************************************************)
EXTENDS Integers

CONSTANTS
    TTL,            \* _CACHE_TTL_SECONDS, _UNITS_TTL_SECONDS
    Interval,       \* the wait between two ticks of the enforce loop
    DayLength,
    EarnerHorizon, MaxWrites, MaxFaults     \* bounds: time, writes, outages and restarts

ASSUME EarnersAssumption ==
    /\ TTL \in Nat \ {0} /\ Interval \in Nat \ {0} /\ DayLength \in Nat \ {0}
    /\ EarnerHorizon \in Nat /\ MaxWrites \in Nat /\ MaxFaults \in Nat

VARIABLES
    earner,     \* whose credit it is
    time,       \* the clock, also the calendar: a day is DayLength long
    ledger,     \* the gate's file: the day of its last credit, whether that
                \* pays the day in full, and the version its stat shows
    readable,   \* the sources that can be read: "ledger", "api", "stat"
    gateOff,    \* leetcode-guard stands down today
    payable,    \* when the credit was there, with its sources readable
    memo,       \* the cached answer
    poll,       \* the daemon: its step, the stamp, gate and answer it holds
    answer,     \* the answer the budget was last priced with
    wake,       \* the inotify watch: whether it works, an event is queued, and
                \* that what payable dates was a write it told of
    writes, faults

earnerVars == <<earner, time, ledger, readable, gateOff, payable, memo, poll, answer, wake,
                writes, faults>>
reader == <<memo, poll, answer>>

Earner == {"workout", "reading", "leetcode", "ledger"}
Stamped == Earner \ {"ledger"}      \* ledger_answer and ledger_units pass no stamp
Reply == {"yes", "no", "none"}
Day(t) == t \div DayLength
NoMemo == [at |-> -1, answer |-> "none", stamp |-> 0]
Waiting == [pc |-> "wait", stamp |-> 0, gate |-> FALSE, read |-> "none", slept |-> 0]

\* What the gate has to say of today, with the day's gate on or off.
Earned(gate) ==
    ledger.day = Day(time) /\ (earner = "leetcode" => ledger.full \/ gate)
YesNo(b) == IF b THEN "yes" ELSE "no"

\* What a gate's server answers by itself; done_today and credit_units;
\* _fallback_to_endpoint.
FromApi == IF "api" \in readable THEN YesNo(Earned(gateOff)) ELSE "none"
Reads(gate) ==
    IF earner = "workout" THEN FromApi
    ELSE IF "ledger" \in readable THEN YesNo(Earned(gate))
    ELSE IF earner = "leetcode" THEN FromApi
    ELSE "none"
CanRead(sources) ==
    CASE earner = "workout"  -> "api" \in sources
      [] earner = "leetcode" -> sources \cap {"ledger", "api"} # {}
      [] OTHER               -> "ledger" \in sources
-----------------------------------------------------------------------------
EarnersInit ==
    /\ earner \in Earner /\ time = 0
    /\ ledger = [day |-> -1, full |-> TRUE, version |-> 1]
    /\ readable \in {{"ledger", "api", "stat"}, {"ledger", "api"}}
    /\ gateOff = FALSE /\ payable = 0
    /\ memo = NoMemo /\ poll = [Waiting EXCEPT !.slept = Interval] /\ answer = "none"
    /\ wake \in [works : IF earner = "workout" THEN BOOLEAN ELSE {FALSE},
                queued : {FALSE}, told : {FALSE}]
    /\ writes = 0 /\ faults = 0

\* A gate rewrites its file, with a credit or with something else; one solve of
\* leetcode may not pay the day.
Write(day, full) ==
    /\ writes < MaxWrites /\ writes' = writes + 1
    /\ ledger' = [day |-> day, full |-> full, version |-> ledger.version + 1]
    /\ LET same == day = ledger.day /\ full = ledger.full
       IN  /\ payable' = IF same THEN payable ELSE time
           /\ wake' = [wake EXCEPT !.queued = @ \/ wake.works,
                                   !.told = IF same THEN @ ELSE wake.works]
    /\ UNCHANGED <<earner, time, readable, gateOff, reader, faults>>
Credits ==
    \/ Write(ledger.day, ledger.full)
    \/ \E full \in (IF earner = "leetcode" THEN BOOLEAN ELSE {TRUE}) :
          (ledger.day = Day(time) => ~ledger.full) /\ Write(Day(time), full)

\* The gate is told to stand down, or to stand again.
GateTurns ==
    /\ earner = "leetcode" /\ writes < MaxWrites /\ writes' = writes + 1
    /\ gateOff' = ~gateOff
    /\ UNCHANGED <<earner, time, ledger, readable, payable, reader, wake, faults>>

\* A source goes or comes back; the watch breaks (_degrade) and stays broken.
Fault == faults < MaxFaults /\ faults' = faults + 1
SourceTurns(s) ==
    /\ Fault
    /\ readable' = IF s \in readable THEN readable \ {s} ELSE readable \cup {s}
    /\ payable' = time /\ wake' = [wake EXCEPT !.told = FALSE]
    /\ UNCHANGED <<earner, time, ledger, gateOff, reader, writes>>
WatchBreaks ==
    /\ Fault /\ wake.works /\ wake' = [works |-> FALSE, queued |-> FALSE, told |-> FALSE]
    /\ payable' = time
    /\ UNCHANGED <<earner, time, ledger, readable, gateOff, reader, writes>>

\* The daemon starts anew, with no answers cached and the files watched again.
Restarts ==
    /\ Fault
    /\ memo' = NoMemo /\ poll' = [Waiting EXCEPT !.slept = Interval]
    /\ wake' = [wake EXCEPT !.queued = FALSE]
    /\ UNCHANGED <<earner, time, ledger, readable, gateOff, payable, answer, writes>>

\* Time passes while the loop waits: not past the interval, and not past an
\* event, which poll returns at once (FileWake.wait).
TimePasses ==
    /\ time < EarnerHorizon /\ poll.pc = "wait" /\ poll.slept < Interval /\ ~wake.queued
    /\ time' = time + 1 /\ poll' = [poll EXCEPT !.slept = @ + 1]
    /\ payable' = IF Day(time') # Day(time) THEN time' ELSE payable
    /\ UNCHANGED <<earner, ledger, readable, gateOff, memo, answer, wake, writes, faults>>

PassBegins ==
    /\ poll.pc = "wait" /\ (poll.slept = Interval \/ wake.queued)
    /\ poll' = [Waiting EXCEPT !.pc = "stamp"]
    /\ wake' = [wake EXCEPT !.queued = FALSE]
    /\ UNCHANGED <<earner, time, ledger, readable, gateOff, payable, memo, answer, writes, faults>>

\* file_stamp, before anything is read, and AnswerCache.fresh.
FileStamp == IF earner \in Stamped /\ "stat" \in readable THEN ledger.version ELSE 0
Fresh(stamp) == memo.at >= 0 /\ memo.stamp = stamp /\ time - memo.at < TTL
Quiet == UNCHANGED <<earner, time, ledger, readable, gateOff, payable, wake, writes, faults>>
Answered ==
    /\ poll.pc = "stamp" /\ Fresh(FileStamp)
    /\ answer' = memo.answer /\ poll' = Waiting
    /\ Quiet /\ UNCHANGED memo
Missed ==
    /\ poll.pc = "stamp" /\ ~Fresh(FileStamp)
    /\ poll' = [poll EXCEPT !.pc = IF earner = "leetcode" THEN "gate" ELSE "read",
                            !.stamp = FileStamp]
    /\ Quiet /\ UNCHANGED <<memo, answer>>

\* gate_off_now: anything but an explicit yes means the gate is on.
AskGate ==
    /\ poll.pc = "gate"
    /\ poll' = [poll EXCEPT !.pc = "read", !.gate = gateOff /\ "api" \in readable]
    /\ Quiet /\ UNCHANGED <<memo, answer>>

Read ==
    /\ poll.pc = "read"
    /\ poll' = [poll EXCEPT !.pc = "store", !.read = Reads(poll.gate)]
    /\ Quiet /\ UNCHANGED <<memo, answer>>

\* Mutant of Store: the stamp is taken with the answer, not before the read.
StoreStampingLate ==
    /\ poll.pc = "store"
    /\ memo' = IF poll.read = "none" THEN memo
               ELSE [at |-> time, answer |-> poll.read, stamp |-> FileStamp]
    /\ answer' = poll.read /\ poll' = Waiting
    /\ Quiet

\* AnswerCache.store; a failure is not remembered.
Store ==
    /\ poll.pc = "store"
    /\ memo' = IF poll.read = "none" THEN memo
               ELSE [at |-> time, answer |-> poll.read, stamp |-> poll.stamp]
    /\ answer' = poll.read /\ poll' = Waiting
    /\ Quiet

EarnersNext ==
    \/ Credits \/ GateTurns \/ WatchBreaks \/ Restarts \/ TimePasses \/ PassBegins
    \/ Answered \/ Missed \/ AskGate \/ Read \/ Store
    \/ \E s \in {"ledger", "api", "stat"} : SourceTurns(s)
EarnersSpec == EarnersInit /\ [][EarnersNext]_earnerVars
-----------------------------------------------------------------------------
\* Type invariant.
EarnersTypeOK ==
    /\ earner \in Earner /\ time \in 0..EarnerHorizon /\ payable \in 0..time
    /\ ledger \in [day : -1..Day(EarnerHorizon), full : BOOLEAN, version : Nat]
    /\ readable \subseteq {"ledger", "api", "stat"} /\ gateOff \in BOOLEAN
    /\ memo \in [at : -1..time, answer : Reply, stamp : Nat]
    /\ poll \in [pc : {"wait", "stamp", "gate", "read", "store"}, stamp : Nat,
                 gate : BOOLEAN, read : Reply, slept : 0..Interval]
    /\ answer \in Reply /\ wake \in [works : BOOLEAN, queued : BOOLEAN, told : BOOLEAN]
    /\ writes \in 0..MaxWrites /\ faults \in 0..MaxFaults

\* How late a credit may be priced: at once through the watch, at the next tick
\* through the stamp, and after the TTL without either.
Stat == earner \in Stamped /\ "stat" \in readable
Delay == IF ~Stat THEN TTL + Interval
         ELSE IF wake.told THEN 0
         ELSE Interval

\* A credit that pays the day, whose sources have been readable, is priced in
\* time, also when it was written while the daemon was reading.
NoCreditMissed ==
    Earned(FALSE) /\ CanRead(readable) /\ time > payable + Delay => answer = "yes"

\* No credit is paid for that is not there: the one an answer stands for is of
\* the day it was read on, so yesterday's is gone once its answer is too old.
NothingPaidUnearned ==
    answer = "yes" => \E t \in (time - TTL - Interval)..time : Day(t) = ledger.day

\* The budget is priced with what the gates have written.
AnswersFollowLedger == NoCreditMissed /\ NothingPaidUnearned
=============================================================================

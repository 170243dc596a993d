------------------------------ MODULE Limiter ------------------------------
(***************************************************************************)
(* The admission limiter of src/limiter.ts: the class Limiter, an heir of  *)
(* the npm package "queue", through which every route with `concurrency`   *)
(* runs.  A request is refused (machine overloaded, or no capacity),       *)
(* pushed on the queue's list of jobs, started when a slot is free, and    *)
(* ends once: with the outcome of its handler (limitFn) or with its        *)
(* timeout, which frees the slot while the handler may go on running.      *)
(*                                                                         *)
(* The package is not part of the repository.  Its push, _start, next and  *)
(* done are modelled from how limiter.ts uses them.  Its `running` and     *)
(* `session` fields are left out: done() runs only when no job waits and   *)
(* none holds a slot, so no `next` of an earlier session is still unused.  *)
(***************************************************************************)
EXTENDS Integers, Sequences, FiniteSets

CONSTANTS
    Requests,           \* the requests that reach a limited route
    ConcurrencyValues,  \* values config.setConcurrent may give
    QueuedValues,       \* values config.setQueued may give
    HealthChecks,       \* what getHealthChecksEnabled may answer
    Overrides           \* ?timeout= of a request: "none", "timer", "noTimer"

ASSUME LimiterAssumption ==
    /\ IsFiniteSet(Requests)
    /\ ConcurrencyValues \subseteq Int /\ ConcurrencyValues # {}
    /\ QueuedValues \subseteq Int /\ QueuedValues # {}
    /\ HealthChecks \subseteq BOOLEAN
    /\ Overrides \subseteq {"none", "timer", "noTimer"}

VARIABLES
    concurrency,  \* Queue.concurrency
    queued,       \* Limiter.queued
    timeout,      \* Limiter.timeout # 0: new jobs get a timer
    jobs,         \* Queue.jobs: the pushed jobs that have not started
    pending,      \* Queue.pending: slots in use
    phase,        \* where each request is, and what its caller's promise says
    armed,        \* job.timeout # 0
    open,         \* the job has started and its `next` has not been used
    after         \* the statuses jobEnd passed to hooks.after for the request

vars == <<concurrency, queued, timeout, jobs, pending, phase, armed, open, after>>

Phases == {"idle", "checking", "unhealthy", "full", "waiting", "running",
           "resolved", "rejected"}

Statuses == {"successful", "error", "timedout"}

TypeOK ==
    /\ concurrency \in ConcurrencyValues
    /\ queued \in QueuedValues
    /\ timeout \in BOOLEAN
    /\ jobs \in Seq(Requests)
    /\ pending \in Nat
    /\ phase \in [Requests -> Phases]
    /\ armed \in [Requests -> BOOLEAN]
    /\ open \in [Requests -> BOOLEAN]
    /\ after \in [Requests -> Seq(Statuses)]

Init ==
    /\ concurrency \in ConcurrencyValues
    /\ queued \in QueuedValues
    /\ timeout \in BOOLEAN
    /\ jobs = <<>>
    /\ pending = 0
    /\ phase = [r \in Requests |-> "idle"]
    /\ armed = [r \in Requests |-> FALSE]
    /\ open = [r \in Requests |-> FALSE]
    /\ after = [r \in Requests |-> <<>>]

-----------------------------------------------------------------------------
(* The queue package                                                       *)

length == pending + Len(jobs)

\* How many of the jobs js _start takes, one after the other, when p slots
\* are in use: it stops at the concurrency or at the end of the list.
Startable(js, p) ==
    LET free == concurrency - p
    IN  IF free <= 0 THEN 0 ELSE IF free < Len(js) THEN free ELSE Len(js)

Started(js, p) == {js[i] : i \in 1..Startable(js, p)}

\* Queue._start on the jobs js with p slots in use; `settled` gives the phase
\* the calling handler leaves each request in, and `used` the unused nexts.
Start(js, p, settled, used) ==
    /\ jobs' = SubSeq(js, Startable(js, p) + 1, Len(js))
    /\ pending' = p + Startable(js, p)
    /\ phase' = [r \in Requests |-> IF r \in Started(js, p) THEN "running" ELSE settled[r]]
    /\ open' = [r \in Requests |-> r \in Started(js, p) \/ used[r]]

-----------------------------------------------------------------------------
(* Admission                                                               *)

\* A faulty hasCapacity: <= for <.
hasCapacityOneTooMany == length <= concurrency + queued

hasCapacity == length < concurrency + queued

\* The part of enqueueJob after the health check.
Enqueue(r) ==
    IF hasCapacity
    THEN Start(Append(jobs, r), pending, [phase EXCEPT ![r] = "waiting"], open)
    ELSE /\ phase' = [phase EXCEPT ![r] = "full"]
         /\ UNCHANGED <<jobs, pending, open>>

\* The function `limit` returns is called: the timeout is fixed here, and
\* with health checks on the request waits for the monitor's answer.
Limit(r, override, checked) ==
    /\ phase[r] = "idle"
    /\ armed' = [armed EXCEPT ![r] = IF override = "none" THEN timeout
                                     ELSE override = "timer"]
    /\ IF checked
       THEN /\ phase' = [phase EXCEPT ![r] = "checking"]
            /\ UNCHANGED <<jobs, pending, open>>
       ELSE Enqueue(r)
    /\ UNCHANGED <<concurrency, queued, timeout, after>>

\* monitor.overloaded() answers.
HealthChecked(r, overloaded) ==
    /\ phase[r] = "checking"
    /\ IF overloaded
       THEN /\ phase' = [phase EXCEPT ![r] = "unhealthy"]
            /\ UNCHANGED <<jobs, pending, open>>
       ELSE Enqueue(r)
    /\ UNCHANGED <<concurrency, queued, timeout, armed, after>>

-----------------------------------------------------------------------------
(* The end of a job                                                        *)

\* The job's `next`, which works once: the slot is freed and waiting jobs
\* start.  `status` is what the event's listener reports to hooks.after.
Next1(r, status, settled) ==
    IF open[r]
    THEN /\ Start(jobs, pending - 1, settled, [open EXCEPT ![r] = FALSE])
         /\ after' = [after EXCEPT ![r] = Append(@, status)]
    ELSE /\ phase' = settled
         /\ UNCHANGED <<jobs, pending, open, after>>

\* limitFn settles: the caller's promise follows it, then `next` is called.
LimitFnResolves(r) ==
    /\ phase[r] = "running"
    /\ Next1(r, "successful", [phase EXCEPT ![r] = "resolved"])
    /\ UNCHANGED <<concurrency, queued, timeout, armed>>

LimitFnRejects(r) ==
    /\ phase[r] = "running"
    /\ Next1(r, "error", [phase EXCEPT ![r] = "rejected"])
    /\ UNCHANGED <<concurrency, queued, timeout, armed>>

\* A faulty JobTimeout: it frees the slot itself and does not call next().
JobTimeoutFreesSlot(r) ==
    /\ phase[r] = "running" /\ open[r] /\ armed[r] /\ after[r] = <<>>
    /\ pending' = pending - 1
    /\ after' = [after EXCEPT ![r] = Append(@, "timedout")]
    /\ UNCHANGED <<concurrency, queued, timeout, jobs, phase, armed, open>>

\* The job's timer, which `next` clears: handleJobTimeout reports the job and
\* calls next().  limitFn is not told and its promise stays as it is.
JobTimeout(r) ==
    /\ phase[r] = "running" /\ open[r] /\ armed[r]
    /\ Next1(r, "timedout", phase)
    /\ UNCHANGED <<concurrency, queued, timeout, armed>>

-----------------------------------------------------------------------------
(* Configuration events: a field is replaced and nothing is started        *)

SetConcurrent(c) ==
    /\ concurrency' = c
    /\ UNCHANGED <<queued, timeout, jobs, pending, phase, armed, open, after>>

SetQueued(q) ==
    /\ queued' = q
    /\ UNCHANGED <<concurrency, timeout, jobs, pending, phase, armed, open, after>>

SetTimeout(t) ==
    /\ timeout' = t
    /\ UNCHANGED <<concurrency, queued, jobs, pending, phase, armed, open, after>>

Request(r) ==
    \/ \E o \in Overrides, h \in HealthChecks : Limit(r, o, h)
    \/ \E b \in BOOLEAN : HealthChecked(r, b)
    \/ LimitFnResolves(r)
    \/ LimitFnRejects(r)
    \/ JobTimeout(r)

Configure ==
    \/ \E c \in ConcurrencyValues : SetConcurrent(c)
    \/ \E q \in QueuedValues : SetQueued(q)
    \/ \E t \in BOOLEAN : SetTimeout(t)

Next == Configure \/ \E r \in Requests : Request(r)

Spec == Init /\ [][Next]_vars

\* The monitor always answers (its errors are caught) and timers fire.  A
\* handler is assumed to end by itself only if its job has no timer.
Fairness ==
    \A r \in Requests :
        /\ WF_vars(\E b \in BOOLEAN : HealthChecked(r, b))
        /\ WF_vars(JobTimeout(r))
        /\ WF_vars(~armed[r] /\ (LimitFnResolves(r) \/ LimitFnRejects(r)))

FairSpec == Spec /\ Fairness

-----------------------------------------------------------------------------
(* Properties                                                              *)

Holding == {r \in Requests : open[r]}
Waiting == {r \in Requests : phase[r] = "waiting"}

\* The queue's counter is the number of jobs whose `next` is unused, however
\* timeouts and late answers interleave: a slot is never freed twice or lost.
SlotsCounted == pending = Cardinality(Holding)

\* The list holds every admitted request that has not started, once.
QueueIsWaiting ==
    /\ {jobs[i] : i \in 1..Len(jobs)} = Waiting
    /\ \A i, j \in 1..Len(jobs) : jobs[i] = jobs[j] => i = j

\* What jobEnd has reported for a request agrees with its life: nothing before
\* it ends, one status after, "timedout" when the timer came before the answer
\* (whatever the handler answers later), and that only for a job with a timer.
VerdictOK(r) ==
    /\ open[r] => phase[r] = "running"
    /\ phase[r] = "running" => after[r] = IF open[r] THEN <<>> ELSE <<"timedout">>
    /\ phase[r] = "resolved" => after[r] \in {<<"successful">>, <<"timedout">>}
    /\ phase[r] = "rejected" => after[r] \in {<<"error">>, <<"timedout">>}
    /\ phase[r] \notin {"running", "resolved", "rejected"} => after[r] = <<>>

OneVerdict ==
    \A r \in Requests : VerdictOK(r) /\ (after[r] = <<"timedout">> => armed[r])

\* hasCapacity is evaluated when the job is pushed, after the wait for the health check: no
\* push takes the queue over the limits then in force.  And no job starts while as many jobs as
\* the concurrency then in force have neither ended nor timed out, whatever the queue's
\* counter says.
WithinLimits ==
    [][/\ length' > length => length' <= concurrency + queued
       /\ Cardinality(Holding') > Cardinality(Holding) => Cardinality(Holding') <= concurrency]_vars

\* Nothing starts a waiting job but a push or the next of another job: a setting raised by
\* config.setConcurrent does not.  Yet if no setting is below 1, a waiting job is never alone:
\* some job holds a slot, and its next starts what fits.
NoneStranded == (\A c \in ConcurrencyValues : c >= 1) => (Waiting # {} => Holding # {})

\* Waiting jobs start in the order of their push, whatever the limits in force: none starts
\* before one that is ahead of it on the list.
FirstComeFirstServed ==
    [][\A i, j \in 1..Len(jobs) :
           i < j /\ open'[jobs[j]] => open'[jobs[i]]]_vars

\* Every request that reaches the limiter is refused or runs, and every job
\* that has a timer or whose handler ends gives its slot back.
EveryRequestServed ==
    \A r \in Requests :
        /\ phase[r] \in {"checking", "waiting"} ~> phase[r] \in {"unhealthy", "full", "running",
                                                                "resolved", "rejected"}
        /\ open[r] ~> ~open[r]

\* What each request's place is in the terms of AdmissionControl: a job that
\* timed out has given its slot back even if its handler still runs.
place == [r \in Requests |->
            CASE phase[r] \in {"idle", "checking"}  -> "outside"
              [] phase[r] \in {"unhealthy", "full"} -> "refused"
              [] phase[r] = "waiting"               -> "waiting"
              [] OTHER -> IF open[r] THEN "holding" ELSE "released"]

Admission == INSTANCE AdmissionControl
             WITH Limits <- ConcurrencyValues, Backlogs <- QueuedValues,
                  limit <- concurrency, backlog <- queued

\* The limiter implements AdmissionControl.
ImplementsAdmission == Admission!Spec
=============================================================================

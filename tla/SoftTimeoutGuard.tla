-------------------------- MODULE SoftTimeoutGuard --------------------------
(***************************************************************************)
(* The soft-time-limit guard of a Celery pool child                        *)
(* (src/src/anthias_server/lib/soft_timeout_guard.py).                     *)
(*                                                                         *)
(* The parent arms one timer per job when it hands the job to the child;   *)
(* when the timer is due and the job's result has not been drained yet the *)
(* parent sends a bare SIGUSR1, which carries no job identity.  The guard  *)
(* keeps three globals, written by the task_prerun and task_finished       *)
(* receivers, and decides from them alone whether a signal may interrupt   *)
(* what the child is running.  A Python signal handler runs between any    *)
(* two bytecodes, so each global is written by an action of its own.       *)
(***************************************************************************)
EXTENDS Integers

CONSTANTS
    MaxJob,     \* bound: jobs the child is handed
    MaxTime,    \* bound: last instant of the clock
    Limits,     \* soft limits a task may be dispatched with
    Skew        \* _SOFT_LIMIT_SKEW_S

ASSUME GuardAssumption ==
    /\ MaxJob \in Nat
    /\ MaxTime \in Nat
    /\ Limits \subseteq Nat \ {0}
    /\ Skew \in Nat

None == -1              \* no limit, no deadline, no timer
Job == 1..MaxJob
Instant == Nat \cup {None}

VARIABLES
    now,            \* monotonic()
    pc,             \* where the child's tracer is
    job,            \* the job in the child's hands, 0 before the first
    handover,       \* when the parent handed it over
    limit,          \* the soft limit it was dispatched with, or None
    resolvable,     \* whether _soft_limit_deadline can read that limit
    taskRunning,    \* _task_running
    taskDeadline,   \* _task_deadline
    limitResolved,  \* _task_limit_resolved
    due,            \* the parent's timers: when job j's fires, or None
    sent,           \* jobs whose SIGUSR1 is on its way to the child
    verdict         \* what the handler did with the last signal

child == <<pc, job, handover, limit, resolvable>>
globals == <<taskRunning, taskDeadline, limitResolved>>
vars == <<now, child, globals, due, sent, verdict>>

PC == {"idle", "preDeadline", "preResolved", "preRunning", "body",
       "finRunning", "finDeadline", "finResolved"}

\* What one run of the signal handler saw and did.  "own" is the instant the
\* interrupted job's own timer falls due (None when it has no soft limit).
Verdict == [signal : Job \cup {0}, at : PC, on : Job \cup {0},
            own : Instant, when : Nat, resolved : BOOLEAN, raised : BOOLEAN]

NoVerdict == [signal |-> 0, at |-> "idle", on |-> 0, own |-> None,
              when |-> 0, resolved |-> FALSE, raised |-> FALSE]

TypeOK ==
    /\ now \in Nat
    /\ pc \in PC
    /\ job \in Job \cup {0}
    /\ handover \in Nat
    /\ limit \in Limits \cup {None}
    /\ resolvable \in BOOLEAN
    /\ taskRunning \in BOOLEAN
    /\ taskDeadline \in Instant
    /\ limitResolved \in BOOLEAN
    /\ due \in [Job -> Instant]
    /\ sent \subseteq Job
    /\ verdict \in Verdict

Init ==
    /\ now = 0
    /\ pc = "idle"
    /\ job = 0
    /\ handover = 0
    /\ limit = None
    /\ resolvable = FALSE
    /\ taskRunning = FALSE
    /\ taskDeadline = None
    /\ limitResolved = FALSE
    /\ due = [j \in Job |-> None]
    /\ sent = {}
    /\ verdict = NoVerdict

-----------------------------------------------------------------------------
(* The parent (billiard's pool), as the guard's comments describe it. *)

\* A job is handed to an idle child and, if it has a soft limit, its timer is
\* armed at that moment.
HandOver(l, r) ==
    /\ pc = "idle"
    /\ job < MaxJob
    /\ job' = job + 1
    /\ handover' = now
    /\ limit' = l
    /\ resolvable' = r
    /\ due' = [due EXCEPT ![job + 1] = IF l = None THEN None ELSE now + l]
    /\ pc' = "preDeadline"
    /\ UNCHANGED <<now, globals, sent, verdict>>

\* A result may be drained long after the child finished the job; only then is
\* the job's timer dropped.
Drain(j) ==
    /\ due[j] # None
    /\ j < job \/ (j = job /\ pc = "idle")
    /\ due' = [due EXCEPT ![j] = None]
    /\ UNCHANGED <<now, child, globals, sent, verdict>>

TimerFires(j) ==
    /\ due[j] # None
    /\ due[j] <= now
    /\ due' = [due EXCEPT ![j] = None]
    /\ sent' = sent \cup {j}
    /\ UNCHANGED <<now, child, globals, verdict>>

\* The time from the handover to task_prerun is what Skew covers.
Tick ==
    /\ now < MaxTime
    /\ pc = "preDeadline" => now - handover < Skew
    /\ now' = now + 1
    /\ UNCHANGED <<child, globals, due, sent, verdict>>

-----------------------------------------------------------------------------
(* The child: the receivers of task_prerun and of the finished signals. *)

\* _soft_limit_deadline: the deadline counts from the child's own clock.
SoftLimitDeadline ==
    IF resolvable /\ limit # None THEN now + limit ELSE None

PrerunDeadline ==
    /\ pc = "preDeadline"
    /\ taskDeadline' = SoftLimitDeadline
    /\ pc' = "preResolved"
    /\ UNCHANGED <<now, job, handover, limit, resolvable, taskRunning,
                   limitResolved, due, sent, verdict>>

PrerunResolved ==
    /\ pc = "preResolved"
    /\ limitResolved' = resolvable
    /\ pc' = "preRunning"
    /\ UNCHANGED <<now, job, handover, limit, resolvable, taskRunning,
                   taskDeadline, due, sent, verdict>>

PrerunRunning ==
    /\ pc = "preRunning"
    /\ taskRunning' = TRUE
    /\ pc' = "body"
    /\ UNCHANGED <<now, job, handover, limit, resolvable, taskDeadline,
                   limitResolved, due, sent, verdict>>

\* The body returns, fails or retries by itself.
BodyEnds ==
    /\ pc = "body"
    /\ pc' = "finRunning"
    /\ UNCHANGED <<now, job, handover, limit, resolvable, globals, due, sent,
                   verdict>>

\* _on_task_finished, in the order of its assignments.  It runs a second time
\* at task_postrun, which finds every global already reset.
FinishRunning ==
    /\ pc = "finRunning"
    /\ taskRunning' = FALSE
    /\ pc' = "finDeadline"
    /\ UNCHANGED <<now, job, handover, limit, resolvable, taskDeadline,
                   limitResolved, due, sent, verdict>>

FinishDeadline ==
    /\ pc = "finDeadline"
    /\ taskDeadline' = None
    /\ pc' = "finResolved"
    /\ UNCHANGED <<now, job, handover, limit, resolvable, taskRunning,
                   limitResolved, due, sent, verdict>>

FinishResolved ==
    /\ pc = "finResolved"
    /\ limitResolved' = FALSE
    /\ pc' = "idle"
    /\ UNCHANGED <<now, job, handover, limit, resolvable, taskRunning,
                   taskDeadline, due, sent, verdict>>

-----------------------------------------------------------------------------
(* The signal handler. *)

\* Mutant: the handover skew is not allowed for.
IsForAnEarlierJobNoSkew ==
    /\ limitResolved
    /\ taskDeadline = None \/ now < taskDeadline

\* Mutant: "resolved to no limit" is taken for "not resolved".
IsForAnEarlierJobCollapsed ==
    /\ limitResolved
    /\ taskDeadline # None
    /\ now < taskDeadline - Skew

IsForAnEarlierJob ==
    /\ limitResolved
    /\ taskDeadline = None \/ now < taskDeadline - Skew

\* SoftTimeLimitExceeded ends the body it is raised in.
GuardedSoftTimeoutSighandler(j) ==
    LET raises == taskRunning /\ ~IsForAnEarlierJob IN
    /\ j \in sent
    /\ sent' = sent \ {j}
    /\ pc' = IF raises /\ pc = "body" THEN "finRunning" ELSE pc
    /\ verdict' = [signal |-> j, at |-> pc, on |-> job,
                   own |-> IF limit = None THEN None ELSE handover + limit,
                   when |-> now, resolved |-> resolvable, raised |-> raises]
    /\ UNCHANGED <<now, job, handover, limit, resolvable, globals, due>>

Next ==
    \/ \E l \in Limits \cup {None}, r \in BOOLEAN : HandOver(l, r)
    \/ \E j \in Job : Drain(j)
    \/ \E j \in Job : TimerFires(j)
    \/ Tick
    \/ PrerunDeadline \/ PrerunResolved \/ PrerunRunning
    \/ BodyEnds
    \/ FinishRunning \/ FinishDeadline \/ FinishResolved
    \/ \E j \in Job : GuardedSoftTimeoutSighandler(j)

Spec == Init /\ [][Next]_vars

-----------------------------------------------------------------------------
(* Properties *)

\* The handler never raises into an idle child or into a receiver that is
\* setting up or tearing down: it raises only while the tracer still has the
\* task, where the exception is that task's failure and not the child's death.
RaisesOnlyIntoATask ==
    verdict.raised => verdict.at \in {"body", "finRunning"}

\* A signal armed for the very job whose body is running is never dropped, so
\* no task is left for the hard limit to SIGKILL.
GenuineLimitIsHonoured ==
    (verdict.signal # 0 /\ verdict.signal = verdict.on
        /\ verdict.at = "body") => verdict.raised

\* A stale signal, armed for an earlier job, interrupts the job now running
\* only when that job's limit could not be resolved or the job is within the
\* skew of its own limit; a job without a soft limit is never interrupted.
StaleSignalSparesTheRunningJob ==
    (verdict.raised /\ verdict.signal # verdict.on /\ verdict.resolved) =>
        /\ verdict.own # None
        /\ verdict.when >= verdict.own - Skew

=============================================================================

------------------------- MODULE CeleryWorkerProofs -------------------------
(***************************************************************************)
(* Proofs about the Celery container.                                      *)
(*                                                                         *)
(* The soft-time-limit guard keeps its promises for any number of jobs,    *)
(* any clock bound, any set of limits and any skew.                        *)
(*                                                                         *)
(* Of the sweeps none has a rival within its hard limit, for any number of *)
(* workers, any limits, any lateness of the kill and any number of faults. *)
(* The argument: a sweep within the limit has the lock, and the lock has   *)
(* at least as long to live as the sweep, as its time starts to run later. *)
(*                                                                         *)
(* The storage verdict of the watcher thread is "failing" only in a boot   *)
(* in which the card failed.  The argument: until then nobody holds        *)
(* anything against the card, and a latch that does is of another boot.    *)
(*                                                                         *)
(* The record of brown-outs is neither invented nor taken back in a boot.  *)
(* The argument: what the two writers hold was shown in this boot, and a   *)
(* write that changes anything has a brown-out in it.                      *)
(***************************************************************************)
EXTENDS MCCeleryWorker, StoragePromise, SupplyPromise, TLAPS

-----------------------------------------------------------------------------
(* The guard. *)

\* The flag is set exactly while the tracer has a task.
FlagFollowsTracer == taskRunning <=> pc \in {"body", "finRunning"}

\* From the handover to the prerun receiver at most Skew goes by.
HandoverIsRecent ==
    /\ handover <= now
    /\ pc = "preDeadline" => now - handover <= Skew

\* While the flag is set the other two globals describe the running job: the
\* child's deadline is the parent's, later by no more than the skew.
DeadlineDescribesJob ==
    pc \in {"preResolved", "preRunning", "body", "finRunning"} =>
        IF resolvable /\ limit # None
        THEN /\ taskDeadline # None
             /\ handover + limit <= taskDeadline
             /\ taskDeadline <= handover + limit + Skew
        ELSE taskDeadline = None

ResolvedDescribesJob ==
    pc \in {"preRunning", "body", "finRunning"} => limitResolved = resolvable

\* A timer or a signal of the current job exists only if it has a limit, and
\* the signal only once the limit has passed.
TimersBelongToJobs ==
    /\ \A j \in Job : due[j] # None => j <= job
    /\ \A j \in sent : j <= job
    /\ (job # 0 /\ due[job] # None) =>
            limit # None /\ due[job] = handover + limit
    /\ job \in sent => limit # None /\ handover + limit <= now

GuardInv ==
    /\ TypeOK
    /\ FlagFollowsTracer
    /\ HandoverIsRecent
    /\ DeadlineDescribesJob
    /\ ResolvedDescribesJob
    /\ TimersBelongToJobs
    /\ RaisesOnlyIntoATask
    /\ GenuineLimitIsHonoured
    /\ StaleSignalSparesTheRunningJob

LEMMA GuardInit == Init => GuardInv
<1> SUFFICES ASSUME Init PROVE GuardInv
  OBVIOUS
<1> USE GuardAssumption DEF Init, PC, Job, Instant, None
<1>1. TypeOK
  BY DEF TypeOK, NoVerdict, Verdict
<1>2. FlagFollowsTracer /\ HandoverIsRecent
  BY DEF FlagFollowsTracer, HandoverIsRecent
<1>3. DeadlineDescribesJob /\ ResolvedDescribesJob
  BY DEF DeadlineDescribesJob, ResolvedDescribesJob
<1>4. TimersBelongToJobs
  BY DEF TimersBelongToJobs
<1>5. RaisesOnlyIntoATask /\ GenuineLimitIsHonoured
      /\ StaleSignalSparesTheRunningJob
  BY DEF RaisesOnlyIntoATask, GenuineLimitIsHonoured,
         StaleSignalSparesTheRunningJob, NoVerdict
<1> QED
  BY <1>1, <1>2, <1>3, <1>4, <1>5 DEF GuardInv

LEMMA GuardStep == GuardInv /\ [Next]_vars => GuardInv'
<1> SUFFICES ASSUME GuardInv, [Next]_vars PROVE GuardInv'
  OBVIOUS
<1> USE GuardAssumption
    DEF GuardInv, TypeOK, FlagFollowsTracer, HandoverIsRecent,
        DeadlineDescribesJob, ResolvedDescribesJob, TimersBelongToJobs, PC,
        Job, Instant, None
<1> DEFINE Verdicts ==
        /\ RaisesOnlyIntoATask
        /\ GenuineLimitIsHonoured
        /\ StaleSignalSparesTheRunningJob
<1>0. verdict' = verdict => Verdicts'
  BY DEF RaisesOnlyIntoATask, GenuineLimitIsHonoured,
         StaleSignalSparesTheRunningJob
<1>1. ASSUME NEW l \in Limits \cup {None}, NEW r \in BOOLEAN, HandOver(l, r)
      PROVE  GuardInv'
  BY <1>0, <1>1 DEF HandOver, globals
<1>2. ASSUME NEW j \in Job, Drain(j) PROVE GuardInv'
  BY <1>0, <1>2 DEF Drain, globals, child
<1>3. ASSUME NEW j \in Job, TimerFires(j) PROVE GuardInv'
  BY <1>0, <1>3 DEF TimerFires, globals, child
<1>4. CASE Tick
  BY <1>0, <1>4 DEF Tick, globals, child
<1>5. CASE PrerunDeadline
  BY <1>0, <1>5 DEF PrerunDeadline, SoftLimitDeadline
<1>6. CASE PrerunResolved
  BY <1>0, <1>6 DEF PrerunResolved
<1>7. CASE PrerunRunning
  BY <1>0, <1>7 DEF PrerunRunning
<1>10. CASE BodyEnds
  BY <1>0, <1>10 DEF BodyEnds, globals
<1>11. CASE FinishRunning
  BY <1>0, <1>11 DEF FinishRunning
<1>12. CASE FinishDeadline
  BY <1>0, <1>12 DEF FinishDeadline
<1>13. CASE FinishResolved
  BY <1>0, <1>13 DEF FinishResolved
<1>8. ASSUME NEW j \in Job, GuardedSoftTimeoutSighandler(j) PROVE GuardInv'
  <2> USE <1>8 DEF GuardedSoftTimeoutSighandler, globals
  <2>1. TypeOK'
    BY SMTT(20) DEF Verdict
  <2>2. FlagFollowsTracer' /\ HandoverIsRecent' /\ DeadlineDescribesJob'
        /\ ResolvedDescribesJob' /\ TimersBelongToJobs'
    OBVIOUS
  <2>3. RaisesOnlyIntoATask'
    BY DEF RaisesOnlyIntoATask
  <2>4. GenuineLimitIsHonoured'
    <3> SUFFICES ASSUME j = job, pc = "body" PROVE verdict'.raised
      BY DEF GenuineLimitIsHonoured
    <3>1. limit # None /\ handover + limit <= now
      OBVIOUS
    <3>2. limitResolved => taskDeadline # None /\ taskDeadline <= now + Skew
      <4> SUFFICES ASSUME limitResolved
                   PROVE  taskDeadline # None /\ taskDeadline <= now + Skew
        OBVIOUS
      <4>1. resolvable
        BY Zenon
      <4>2. taskDeadline # None /\ taskDeadline <= handover + limit + Skew
        BY <3>1, <4>1
      <4> QED
        BY <3>1, <4>2
    <3>3. ~IsForAnEarlierJob
      BY <3>2, SMTT(30) DEF IsForAnEarlierJob
    <3>4. taskRunning
      OBVIOUS
    <3> QED
      BY <3>3, <3>4
  <2>5. StaleSignalSparesTheRunningJob'
    <3> SUFFICES ASSUME verdict'.raised, resolvable
                 PROVE  verdict'.own # None /\ now >= verdict'.own - Skew
      BY DEF StaleSignalSparesTheRunningJob
    <3>1. taskRunning /\ ~IsForAnEarlierJob
      OBVIOUS
    <3>2. limitResolved
      BY <3>1
    <3>3. taskDeadline # None /\ now >= taskDeadline - Skew
      BY <3>1, <3>2 DEF IsForAnEarlierJob
    <3>4. limit # None /\ handover + limit <= taskDeadline
      BY <3>1, <3>3
    <3> QED
      BY <3>3, <3>4
  <2> QED
    BY <2>1, <2>2, <2>3, <2>4, <2>5
<1>9. CASE UNCHANGED vars
  BY <1>0, <1>9 DEF vars, globals, child
<1> QED
  BY <1>1, <1>2, <1>3, <1>4, <1>5, <1>6, <1>7, <1>8, <1>9,
     <1>10, <1>11, <1>12, <1>13 DEF Next

\* The guard's globals always describe the job the child is running, and each
\* run of the signal handler is right about the signal it was given.
THEOREM GuardInvariant == Spec => []GuardInv
  BY GuardInit, GuardStep, PTL DEF Spec

\* No signal is raised into an idle child.
THEOREM GuardRaisesOnlyIntoATask == Spec => []RaisesOnlyIntoATask
<1>1. GuardInv => RaisesOnlyIntoATask
  BY DEF GuardInv
<1> QED
  BY <1>1, GuardInvariant, PTL

\* A task that overruns its own soft limit is always interrupted.
THEOREM GuardHonoursGenuineLimit == Spec => []GenuineLimitIsHonoured
<1>1. GuardInv => GenuineLimitIsHonoured
  BY DEF GuardInv
<1> QED
  BY <1>1, GuardInvariant, PTL

\* A signal left over from an earlier job interrupts the running one at most
\* Skew before that one's own limit.
THEOREM GuardSparesTheRunningJob == Spec => []StaleSignalSparesTheRunningJob
<1>1. GuardInv => StaleSignalSparesTheRunningJob
  BY DEF GuardInv
<1> QED
  BY <1>1, GuardInvariant, PTL

-----------------------------------------------------------------------------
(* The sweeps. *)

\* Whoever sweeps within the hard limit holds the lock, which outlasts it.
LockCoversSweep ==
    \A w \in Worker :
        Rivals!InSweep(w) /\ task[w].age < Hard
            => lock.by = w /\ lock.ttl + task[w].age >= Hard

SweepInv == Rivals!TypeOK /\ LockCoversSweep

NowSweeps(w) == task'[w].kind = "sweep" /\ task'[w].pc \in Rivals!Sweeping

\* One worker moves and the lock does not: it comes into no sweep it was not
\* in, and grows no younger.
WorkerMoves(w) ==
    /\ task' \in [Worker -> Rivals!Task]
    /\ \A v \in Worker \ {w} : task'[v] = task[v]
    /\ NowSweeps(w) => Rivals!InSweep(w) /\ task'[w].age = task[w].age

LEMMA SweepBounds ==
  /\ Hard \in Nat /\ Slack \in Nat /\ Debounce \in Nat /\ Cooldown \in Nat
  /\ MaxEdits \in Nat /\ MaxFaults \in Nat
  BY SweepAssumptions DEF Rivals!SweepAssumption

LEMMA NoCopyType == Rivals!NoCopy \in Rivals!Copy
  <1>1. \E a \in Asset, u \in Way : TRUE
    BY SweepAssumptions DEF Rivals!SweepAssumption
  <1>2. \E c : c \in Rivals!Copy
    <2>1. PICK a \in Asset, u \in Way : TRUE
      BY <1>1
    <2>2. [of |-> a, way |-> u] \in Rivals!Copy
      BY DEF Rivals!Copy
    <2>3. QED
      BY <2>2
  <1>3. QED
    BY <1>2 DEF Rivals!NoCopy

LEMMA NewTaskType ==
  ASSUME NEW k \in {"sweep", "recheck"}, NEW p \in Rivals!PC,
         NEW c \in Rivals!Copy
  PROVE  /\ Rivals!NewTask(k, p, c) \in Rivals!Task
         /\ Rivals!NewTask(k, p, c).kind = k /\ Rivals!NewTask(k, p, c).pc = p
  BY SweepBounds DEF Rivals!NewTask, Rivals!Task

LEMMA IdleType ==
  /\ Rivals!Idle \in Rivals!Task
  /\ Rivals!Idle.kind = "sweep" /\ Rivals!Idle.pc = "idle"
  BY NoCopyType, NewTaskType DEF Rivals!Idle, Rivals!PC

LEMMA EndsMoves ==
  ASSUME Rivals!TypeOK, NEW w \in Worker, Rivals!Ends(w)
  PROVE  WorkerMoves(w)
  BY IdleType
  DEF Rivals!TypeOK, Rivals!Ends, WorkerMoves, NowSweeps, Rivals!Sweeping

\* A task that stays in the sweep, or is none.
LEMMA StaysMoves ==
  ASSUME Rivals!TypeOK, NEW w \in Worker, NEW t \in Rivals!Task,
         task' = [task EXCEPT ![w] = t],
         \/ t.kind # "sweep"
         \/ Rivals!InSweep(w) /\ t.age = task[w].age
  PROVE  WorkerMoves(w)
  BY DEF Rivals!TypeOK, WorkerMoves, NowSweeps

LEMMA MovesKeepLock ==
  ASSUME SweepInv, NEW w \in Worker, WorkerMoves(w), lock' = lock
  PROVE  LockCoversSweep'
  <1>1. ASSUME NEW v \in Worker, NowSweeps(v), task'[v].age < Hard
        PROVE  Rivals!InSweep(v) /\ task'[v].age = task[v].age
    BY <1>1 DEF WorkerMoves, NowSweeps, Rivals!InSweep
  <1>2. QED
    BY <1>1 DEF SweepInv, LockCoversSweep, Rivals!InSweep, NowSweeps

\* The sweep and the recheck between the two ends of the lock.
LEMMA WorkMoves ==
  ASSUME Rivals!TypeOK, NEW w \in Worker,
         \/ Rivals!ReadRows(w) \/ Rivals!NextRow(w) \/ Rivals!GetRow(w)
         \/ Rivals!PassGate(w) \/ Rivals!Probe(w) \/ Rivals!Write(w)
  PROVE  WorkerMoves(w)
  <1>0. task[w] \in Rivals!Task /\ task \in [Worker -> Rivals!Task]
    BY DEF Rivals!TypeOK
  <1>1. CASE Rivals!ReadRows(w)
    <2> DEFINE on == {x \in Asset : row[x].state = "on"}
               copies == {[of |-> a, way |-> row[a].way] : a \in on}
    <2>1. copies \in SUBSET Rivals!Copy
      BY DEF Rivals!TypeOK, Rivals!Row, Rivals!Copy
    <2>2. task' = [task EXCEPT ![w].pc = "next", ![w].todo = copies]
      BY <1>1 DEF Rivals!ReadRows
    <2> HIDE DEF copies
    <2>3. Rivals!InSweep(w)
      BY <1>1 DEF Rivals!ReadRows, Rivals!Runs, Rivals!InSweep, Rivals!Sweeping
    <2>4. [task[w] EXCEPT !.pc = "next", !.todo = copies] \in Rivals!Task
      BY <1>0, <2>1 DEF Rivals!Task, Rivals!PC
    <2>5. task'[w].age = task[w].age
      BY <1>0, <2>2 DEF Rivals!Task
    <2>6. QED
      BY <1>0, <2>2, <2>3, <2>4, <2>5 DEF WorkerMoves
  <1>2. CASE Rivals!NextRow(w)
    <2>1. Rivals!InSweep(w)
      BY <1>2 DEF Rivals!NextRow, Rivals!Runs, Rivals!InSweep, Rivals!Sweeping
    <2>2. CASE Rivals!GoTo(w, "release")
      BY <1>0, <2>1, <2>2
      DEF Rivals!GoTo, Rivals!Task, Rivals!PC, WorkerMoves
    <2>3. ASSUME NEW c \in task[w].todo,
                 task' = [task EXCEPT ![w].at = c, ![w].pc = "probe",
                                      ![w].todo = @ \ {c}]
          PROVE  WorkerMoves(w)
      <3>1. c \in Rivals!Copy /\ task[w].todo \ {c} \in SUBSET Rivals!Copy
        BY <1>0 DEF Rivals!Task
      <3>2. QED
        BY <1>0, <2>1, <2>3, <3>1 DEF Rivals!Task, Rivals!PC, WorkerMoves
    <2>4. QED
      BY <1>2, <2>2, <2>3 DEF Rivals!NextRow
  <1>3. CASE Rivals!GetRow(w)
    <2>1. CASE Rivals!Ends(w)
      BY <2>1, EndsMoves
    <2>2. CASE task' = [task EXCEPT ![w].pc = "gate",
                                    ![w].at.way = row[task[w].at.of].way]
      <3>1. row[task[w].at.of].way \in Way
        BY <1>0 DEF Rivals!TypeOK, Rivals!Task, Rivals!Copy, Rivals!Row
      <3>2. QED
        BY <1>0, <1>3, <2>2, <3>1
        DEF Rivals!GetRow, Rivals!Runs, Rivals!Task, Rivals!PC, Rivals!Copy,
            WorkerMoves, NowSweeps
    <2>3. QED
      BY <1>3, <2>1, <2>2 DEF Rivals!GetRow
  <1>4. CASE Rivals!PassGate(w)
    <2>1. CASE Rivals!Ends(w)
      BY <2>1, EndsMoves
    <2>2. CASE Rivals!GoTo(w, "probe")
      BY <1>0, <1>4, <2>2
      DEF Rivals!PassGate, Rivals!Runs, Rivals!GoTo, Rivals!Task, Rivals!PC,
          WorkerMoves, NowSweeps
    <2>3. QED
      BY <1>4, <2>1, <2>2 DEF Rivals!PassGate
  <1>5. ASSUME Rivals!RowDone(w), task[w].pc \in {"probe", "write"}
        PROVE  WorkerMoves(w)
    BY <1>0, <1>5, IdleType, NoCopyType
    DEF Rivals!RowDone, Rivals!Task, Rivals!PC, WorkerMoves, NowSweeps,
        Rivals!InSweep, Rivals!Sweeping
  <1>6. CASE Rivals!Probe(w)
    <2>1. CASE Rivals!RowDone(w)
      BY <1>5, <1>6, <2>1 DEF Rivals!Probe
    <2>2. CASE task' = [task EXCEPT ![w].found = web[task[w].at.way],
                                    ![w].pc = "write"]
      <3>1. web[task[w].at.way] \in BOOLEAN
        BY <1>0 DEF Rivals!TypeOK, Rivals!Task, Rivals!Copy
      <3>2. QED
        BY <1>0, <1>6, <2>2, <3>1
        DEF Rivals!Probe, Rivals!Task, Rivals!PC, WorkerMoves, NowSweeps,
            Rivals!InSweep, Rivals!Sweeping
    <2>3. QED
      BY <1>6, <2>1, <2>2 DEF Rivals!Probe
  <1>7. CASE Rivals!Write(w)
    BY <1>5, <1>7 DEF Rivals!Write
  <1>8. QED
    BY <1>1, <1>2, <1>3, <1>4, <1>6, <1>7

\* Tasks begin outside the sweep; limits and kills end them, or send the sweep
\* to its finally block.
LEMMA TakenOrCutShortMoves ==
  ASSUME Rivals!TypeOK, NEW w \in Worker,
         \/ Rivals!TakeSweep(w) \/ (\E a \in Asset : Rivals!TakeRecheck(w, a))
         \/ Rivals!SoftLimit(w) \/ Rivals!RecheckLimit(w) \/ Rivals!Kill(w)
  PROVE  WorkerMoves(w)
  <1>0. task[w] \in Rivals!Task /\ task \in [Worker -> Rivals!Task]
    BY DEF Rivals!TypeOK
  <1>1. CASE Rivals!TakeSweep(w)
    <2>1. /\ Rivals!NewTask("sweep", "lock", Rivals!NoCopy) \in Rivals!Task
          /\ Rivals!NewTask("sweep", "lock", Rivals!NoCopy).pc = "lock"
      BY NoCopyType, NewTaskType DEF Rivals!PC
    <2>2. QED
      BY <1>0, <1>1, <2>1
      DEF Rivals!TakeSweep, WorkerMoves, NowSweeps, Rivals!Sweeping
  <1>2. ASSUME NEW a \in Asset, Rivals!TakeRecheck(w, a) PROVE WorkerMoves(w)
    <2> DEFINE c == [Rivals!NoCopy EXCEPT !.of = a]
    <2>1. c \in Rivals!Copy
      BY NoCopyType DEF Rivals!Copy
    <2> HIDE DEF c
    <2>2. /\ Rivals!NewTask("recheck", "get", c) \in Rivals!Task
          /\ Rivals!NewTask("recheck", "get", c).kind = "recheck"
      BY <2>1, NewTaskType DEF Rivals!PC
    <2>3. task' = [task EXCEPT ![w] = Rivals!NewTask("recheck", "get", c)]
      BY <1>2 DEF Rivals!TakeRecheck, c
    <2>4. QED
      BY <2>2, <2>3, StaysMoves
  <1>3. CASE Rivals!SoftLimit(w)
    <2>1. CASE Rivals!Ends(w)
      BY <2>1, EndsMoves
    <2>2. CASE /\ task[w].pc \in Rivals!Sweeping \ {"release"}
               /\ task' = [task EXCEPT ![w].pc = "release", ![w].warned = TRUE]
      BY <1>0, <1>3, <2>2
      DEF Rivals!SoftLimit, Rivals!Sweeps, Rivals!Task, Rivals!PC, WorkerMoves,
          NowSweeps, Rivals!InSweep, Rivals!Sweeping
    <2>3. QED
      BY <1>3, <2>1, <2>2 DEF Rivals!SoftLimit
  <1>4. CASE Rivals!RecheckLimit(w)
    <2>1. CASE Rivals!Ends(w)
      BY <2>1, EndsMoves
    <2>2. CASE task' = [task EXCEPT ![w].pc = "write", ![w].found = FALSE,
                                    ![w].warned = TRUE]
      BY <1>0, <1>4, <2>2
      DEF Rivals!RecheckLimit, Rivals!Task, Rivals!PC, WorkerMoves, NowSweeps
    <2>3. QED
      BY <1>4, <2>1, <2>2 DEF Rivals!RecheckLimit
  <1>5. CASE Rivals!Kill(w)
    BY <1>5, EndsMoves DEF Rivals!Kill
  <1>6. QED
    BY <1>1, <1>2, <1>3, <1>4, <1>5

\* What the types say of everything but the tasks.
RestType ==
    /\ row \in [Asset -> Rivals!Row] /\ verdicts \in [Asset -> BOOLEAN]
    /\ web \in [Way -> BOOLEAN]
    /\ form \in [busy : BOOLEAN, of : Asset, verdict : BOOLEAN]
    /\ queue \subseteq Asset
    /\ lock \in [by : Worker, ttl : 0..Hard]
    /\ debounce \in [Asset -> 0..Debounce]
    /\ cooldown \in [Asset -> 0..Cooldown]
    /\ edits \in 0..MaxEdits /\ faults \in 0..MaxFaults

LEMMA SweepTypes ==
  Rivals!TypeOK <=> RestType /\ task \in [Worker -> Rivals!Task]
  BY DEF Rivals!TypeOK, RestType

\* Someone edits or deletes a row, the web changes, or the viewer asks.
LEMMA OutsideKeeps ==
  ASSUME SweepInv,
         \/ \E a \in Asset : \/ Rivals!EditReads(a) \/ Rivals!Delete(a)
                             \/ Rivals!ViewerAsks(a)
         \/ Rivals!EditSaves
         \/ \E u \in Way : Rivals!WebChanges(u)
  PROVE  SweepInv'
  <1>0. RestType /\ task \in [Worker -> Rivals!Task]
    BY SweepTypes DEF SweepInv
  <1>1. task' = task /\ lock' = lock
    BY DEF Rivals!EditReads, Rivals!Delete, Rivals!ViewerAsks,
           Rivals!EditSaves, Rivals!WebChanges, Rivals!keys, Rivals!rows
  <1>2. LockCoversSweep'
    BY <1>1 DEF SweepInv, LockCoversSweep, Rivals!InSweep
  <1>3. ASSUME NEW a \in Asset, Rivals!EditReads(a) PROVE RestType'
    <2>1. verdicts[a] \in BOOLEAN /\ edits' \in 0..MaxEdits
      BY <1>0, <1>3, SweepBounds DEF Rivals!EditReads, RestType
    <2>2. QED
      BY <1>0, <1>3, <2>1 DEF Rivals!EditReads, Rivals!keys, RestType
  <1>4. ASSUME NEW a \in Asset, Rivals!Delete(a) PROVE RestType'
    <2>1. edits' \in 0..MaxEdits
      BY <1>0, <1>4, SweepBounds DEF Rivals!Delete, RestType
    <2>2. row' \in [Asset -> Rivals!Row]
      BY <1>0, <1>4 DEF Rivals!Delete, RestType, Rivals!Row, Rivals!RowState
    <2>3. QED
      BY <1>0, <1>4, <2>1, <2>2 DEF Rivals!Delete, Rivals!keys, RestType
  <1>5. ASSUME NEW a \in Asset, Rivals!ViewerAsks(a) PROVE RestType'
    <2>1. edits' \in 0..MaxEdits /\ faults' \in 0..MaxFaults
      BY <1>0, <1>5, SweepBounds
      DEF Rivals!ViewerAsks, Rivals!Fault, Rivals!bounds, RestType
    <2>2. debounce' \in [Asset -> 0..Debounce] /\ queue' \subseteq Asset
      BY <1>0, <1>5, SweepBounds DEF Rivals!ViewerAsks, RestType
    <2>3. QED
      BY <1>0, <1>5, <2>1, <2>2 DEF Rivals!ViewerAsks, Rivals!rows, RestType
  <1>6. ASSUME Rivals!EditSaves PROVE RestType'
    <2>1. verdicts' \in [Asset -> BOOLEAN] /\ row' \in [Asset -> Rivals!Row]
      BY <1>0, <1>6 DEF Rivals!EditSaves, RestType
    <2>2. form' \in [busy : BOOLEAN, of : Asset, verdict : BOOLEAN]
      <3>1. \E a : a \in Asset
        BY SweepAssumptions DEF Rivals!SweepAssumption
      <3>2. (CHOOSE a \in Asset : TRUE) \in Asset
        BY <3>1
      <3>3. QED
        BY <1>6, <3>2 DEF Rivals!EditSaves, Rivals!NoForm
    <2>3. UNCHANGED <<web, queue, lock, debounce, cooldown, edits, faults>>
      BY <1>6 DEF Rivals!EditSaves, Rivals!keys, Rivals!bounds
    <2>4. QED
      BY <1>0, <2>1, <2>2, <2>3 DEF RestType
  <1>7. ASSUME NEW u \in Way, Rivals!WebChanges(u) PROVE RestType'
    <2>1. web' \in [Way -> BOOLEAN] /\ edits' \in 0..MaxEdits
      BY <1>0, <1>7, SweepBounds DEF Rivals!WebChanges, RestType
    <2>2. QED
      BY <1>0, <1>7, <2>1 DEF Rivals!WebChanges, Rivals!keys, RestType
  <1>8. RestType'
    <2>1. CASE \E a \in Asset : \/ Rivals!EditReads(a) \/ Rivals!Delete(a)
                               \/ Rivals!ViewerAsks(a)
      BY <1>3, <1>4, <1>5, <2>1
    <2>2. CASE \E u \in Way : Rivals!WebChanges(u)
      BY <1>7, <2>2
    <2>3. QED
      BY <1>6, <2>1, <2>2
  <1>9. Rivals!TypeOK'
    BY <1>0, <1>1, <1>8 DEF Rivals!TypeOK, RestType
  <1>10. QED
    BY <1>2, <1>9 DEF SweepInv

\* A second is a second for the sweep and for its lock.
LEMMA TickKeeps ==
  ASSUME SweepInv, Rivals!Tick
  PROVE  SweepInv'
  <1>0. RestType /\ task \in [Worker -> Rivals!Task]
    BY SweepTypes DEF SweepInv
  <1>1. ASSUME NEW w \in Worker
        PROVE  /\ task[w] \in Rivals!Task /\ task'[w] \in Rivals!Task
               /\ task'[w].kind = task[w].kind /\ task'[w].pc = task[w].pc
               /\ Rivals!InSweep(w) => task'[w].age = task[w].age + 1
    <2>1. task[w] \in Rivals!Task
      BY <1>0
    <2>2. CASE Rivals!Sweeps(w)
      <3>1. task[w].age + 1 \in 0..(Hard + Slack)
        BY <2>1, <2>2, SweepBounds DEF Rivals!Tick, Rivals!MayAge, Rivals!Task
      <3>2. task'[w] = [task[w] EXCEPT !.age = task[w].age + 1]
        BY <2>2 DEF Rivals!Tick
      <3>3. QED
        BY <2>1, <3>1, <3>2 DEF Rivals!Task
    <2>3. CASE ~Rivals!Sweeps(w)
      BY <2>1, <2>3
      DEF Rivals!Tick, Rivals!Sweeps, Rivals!InSweep, Rivals!Sweeping
    <2>4. QED
      BY <2>2, <2>3
  <1>2. task' \in [Worker -> Rivals!Task]
    BY <1>1 DEF Rivals!Tick
  <1>3. /\ lock' \in [by : Worker, ttl : 0..Hard] /\ lock'.by = lock.by
        /\ lock.ttl \in Nat /\ lock'.ttl = Rivals!OneLess(lock.ttl)
    BY <1>0, SweepBounds DEF Rivals!Tick, Rivals!OneLess, RestType
  <1>4. LockCoversSweep'
    <2> SUFFICES ASSUME NEW w \in Worker, Rivals!InSweep(w)',
                        task'[w].age < Hard
                 PROVE  lock'.by = w /\ lock'.ttl + task'[w].age >= Hard
      BY DEF LockCoversSweep
    <2>1. Rivals!InSweep(w) /\ task[w].age \in Nat
          /\ task'[w].age = task[w].age + 1
      BY <1>1, SweepBounds DEF Rivals!InSweep, Rivals!Task
    <2>2. lock.by = w /\ lock.ttl + task[w].age >= Hard
      BY <2>1, SweepBounds DEF SweepInv, LockCoversSweep
    <2>3. QED
      BY <1>3, <2>1, <2>2, SweepBounds DEF Rivals!OneLess
  <1>5. /\ debounce' \in [Asset -> 0..Debounce]
        /\ cooldown' \in [Asset -> 0..Cooldown]
    <2>1. ASSUME NEW n \in Nat, NEW t \in 0..n
          PROVE  Rivals!OneLess(t) \in 0..n
      BY DEF Rivals!OneLess
    <2>2. \A a \in Asset : /\ Rivals!OneLess(debounce[a]) \in 0..Debounce
                          /\ Rivals!OneLess(cooldown[a]) \in 0..Cooldown
      BY <1>0, <2>1, SweepBounds DEF RestType
    <2>3. QED
      BY <2>2 DEF Rivals!Tick
  <1>6. RestType'
    BY <1>0, <1>3, <1>5 DEF Rivals!Tick, Rivals!rows, Rivals!bounds, RestType
  <1>7. Rivals!TypeOK'
    BY <1>2, <1>6 DEF Rivals!TypeOK, RestType
  <1>8. QED
    BY <1>4, <1>7 DEF SweepInv

\* The lock is taken once it has run out, by when nobody sweeps within the
\* limit.
LEMMA AcquireKeeps ==
  ASSUME SweepInv, NEW w \in Worker, Rivals!Acquire(w)
  PROVE  SweepInv'
  <1>0. RestType /\ task \in [Worker -> Rivals!Task]
    BY SweepTypes DEF SweepInv
  <1>1. RestType' /\ UNCHANGED <<row, verdicts, web, form, queue>>
    BY <1>0, SweepBounds
    DEF Rivals!Acquire, Rivals!rows, Rivals!bounds, RestType
  <1>2. CASE lock.ttl = 0
    <2>1. lock' = [by |-> w, ttl |-> Hard] /\ Rivals!GoTo(w, "read")
      BY <1>2 DEF Rivals!Acquire
    <2>2. /\ task' \in [Worker -> Rivals!Task]
          /\ \A v \in Worker \ {w} : task'[v] = task[v]
          /\ task'[w].age \in Nat
      BY <1>0, <2>1, SweepBounds DEF Rivals!GoTo, Rivals!Task, Rivals!PC
    <2>3. ASSUME NEW v \in Worker \ {w}, Rivals!InSweep(v)
          PROVE  ~(task[v].age < Hard)
      <3>1. task[v].age \in Nat
        BY <1>0, SweepBounds DEF Rivals!Task
      <3>2. QED
        BY <1>2, <2>3, <3>1, SweepBounds DEF SweepInv, LockCoversSweep
    <2>4. LockCoversSweep'
      BY <2>1, <2>2, <2>3, SweepBounds DEF LockCoversSweep, Rivals!InSweep
    <2>5. QED
      BY <1>1, <2>2, <2>4 DEF SweepInv, Rivals!TypeOK, RestType
  <1>3. CASE lock.ttl # 0
    <2>1. lock' = lock /\ WorkerMoves(w)
      BY <1>3, EndsMoves DEF Rivals!Acquire, SweepInv
    <2>2. LockCoversSweep'
      BY <2>1, MovesKeepLock
    <2>3. QED
      BY <1>1, <2>1, <2>2 DEF SweepInv, Rivals!TypeOK, RestType, WorkerMoves
  <1>4. QED
    BY <1>2, <1>3

\* Compare and delete: the lock of another sweep stays.
LEMMA ReleaseKeeps ==
  ASSUME SweepInv, NEW w \in Worker, Rivals!Release(w)
  PROVE  SweepInv'
  <1>0. RestType /\ task \in [Worker -> Rivals!Task]
    BY SweepTypes DEF SweepInv
  <1>1. WorkerMoves(w) /\ ~NowSweeps(w)
    <2>1. Rivals!Ends(w)
      BY DEF Rivals!Release
    <2>2. task'[w] = Rivals!Idle
      BY <1>0, <2>1 DEF Rivals!Ends
    <2>3. QED
      BY <2>1, <2>2, EndsMoves, IdleType
      DEF SweepInv, NowSweeps, Rivals!Sweeping
  <1>2. /\ lock' \in [by : Worker, ttl : 0..Hard]
        /\ lock.by # w => lock' = lock
    BY <1>0, SweepBounds DEF Rivals!Release, RestType
  <1>3. LockCoversSweep'
    <2> SUFFICES ASSUME NEW v \in Worker, Rivals!InSweep(v)',
                        task'[v].age < Hard
                 PROVE  lock'.by = v /\ lock'.ttl + task'[v].age >= Hard
      BY DEF LockCoversSweep
    <2>1. v # w
      BY <1>1 DEF NowSweeps, Rivals!InSweep
    <2>2. task'[v] = task[v]
      BY <1>1, <2>1 DEF WorkerMoves
    <2>3. lock.by = v /\ lock.ttl + task[v].age >= Hard
      BY <2>2 DEF SweepInv, LockCoversSweep, Rivals!InSweep
    <2>4. QED
      BY <1>2, <2>1, <2>2, <2>3
  <1>4. RestType'
    BY <1>0, <1>2 DEF Rivals!Release, Rivals!rows, Rivals!bounds, RestType
  <1>5. QED
    BY <1>1, <1>3, <1>4 DEF SweepInv, Rivals!TypeOK, RestType, WorkerMoves

\* Every other step of a worker leaves the lock alone.
LEMMA WorkerKeeps ==
  ASSUME SweepInv, NEW w \in Worker,
         \/ Rivals!TakeSweep(w) \/ (\E a \in Asset : Rivals!TakeRecheck(w, a))
         \/ Rivals!Work(w) \/ Rivals!SoftLimit(w) \/ Rivals!RecheckLimit(w)
         \/ Rivals!Kill(w)
  PROVE  SweepInv'
  <1>0. RestType /\ task \in [Worker -> Rivals!Task]
    BY SweepTypes DEF SweepInv
  <1>1. ASSUME WorkerMoves(w), lock' = lock, RestType' PROVE SweepInv'
    <2>1. LockCoversSweep'
      BY <1>1, MovesKeepLock
    <2>2. QED
      BY <1>1, <2>1 DEF SweepInv, Rivals!TypeOK, RestType, WorkerMoves
  <1>2. ASSUME Rivals!Fault PROVE edits' \in 0..MaxEdits /\ faults' \in 0..MaxFaults
    BY <1>0, <1>2, SweepBounds DEF Rivals!Fault, RestType
  <1>3. CASE \/ Rivals!TakeSweep(w) \/ Rivals!ReadRows(w) \/ Rivals!NextRow(w)
             \/ Rivals!GetRow(w)
    <2>1. WorkerMoves(w)
      BY <1>3, TakenOrCutShortMoves, WorkMoves DEF SweepInv
    <2>2. UNCHANGED <<row, verdicts, web, form, queue, lock, debounce,
                      cooldown, edits, faults>>
      BY <1>3 DEF Rivals!TakeSweep, Rivals!ReadRows, Rivals!NextRow,
                  Rivals!GetRow, Rivals!rows, Rivals!keys, Rivals!bounds
    <2>3. QED
      BY <1>0, <1>1, <2>1, <2>2 DEF RestType
  <1>4. CASE \/ Rivals!SoftLimit(w) \/ Rivals!RecheckLimit(w)
             \/ Rivals!Kill(w)
    <2>1. WorkerMoves(w)
      BY <1>4, TakenOrCutShortMoves DEF SweepInv
    <2>2. /\ UNCHANGED <<row, verdicts, web, form, queue, lock, debounce,
                         cooldown>>
          /\ Rivals!Fault
      BY <1>4 DEF Rivals!SoftLimit, Rivals!RecheckLimit, Rivals!Kill,
                  Rivals!rows, Rivals!keys
    <2>3. QED
      BY <1>0, <1>1, <1>2, <2>1, <2>2 DEF RestType
  <1>5. CASE \E a \in Asset : Rivals!TakeRecheck(w, a)
    <2>1. WorkerMoves(w)
      BY <1>5, TakenOrCutShortMoves DEF SweepInv
    <2>2. /\ UNCHANGED <<row, verdicts, web, form, lock, debounce, cooldown,
                         edits, faults>>
          /\ queue' \subseteq Asset
      BY <1>0, <1>5 DEF Rivals!TakeRecheck, Rivals!rows, Rivals!keys,
                        Rivals!bounds, RestType
    <2>3. QED
      BY <1>0, <1>1, <2>1, <2>2 DEF RestType
  <1>6. CASE Rivals!PassGate(w)
    <2>1. WorkerMoves(w)
      BY <1>6, WorkMoves DEF SweepInv
    <2>2. /\ UNCHANGED <<row, verdicts, web, form, queue, lock, debounce,
                         edits, faults>>
          /\ cooldown' \in [Asset -> 0..Cooldown]
      BY <1>0, <1>6, SweepBounds
      DEF Rivals!PassGate, Rivals!rows, Rivals!bounds, RestType
    <2>3. QED
      BY <1>0, <1>1, <2>1, <2>2 DEF RestType
  <1>7. CASE Rivals!Probe(w)
    <2>1. WorkerMoves(w)
      BY <1>7, WorkMoves DEF SweepInv
    <2>2. /\ UNCHANGED <<row, verdicts, web, form, queue, lock, debounce,
                         cooldown>>
          /\ Rivals!Fault \/ UNCHANGED <<edits, faults>>
      BY <1>7 DEF Rivals!Probe, Rivals!rows, Rivals!keys, Rivals!bounds
    <2>3. QED
      BY <1>0, <1>1, <1>2, <2>1, <2>2 DEF RestType
  <1>8. CASE Rivals!Write(w)
    <2>1. WorkerMoves(w)
      BY <1>8, WorkMoves DEF SweepInv
    <2>2. UNCHANGED <<row, web, form, queue, lock, debounce, cooldown, edits,
                      faults>>
      BY <1>8 DEF Rivals!Write, Rivals!keys, Rivals!bounds
    <2>3. task[w].found \in BOOLEAN
      BY <1>0 DEF Rivals!Task
    <2>4. verdicts' \in [Asset -> BOOLEAN]
      BY <1>0, <1>8, <2>3 DEF Rivals!Write, RestType
    <2>5. QED
      BY <1>0, <1>1, <2>1, <2>2, <2>4 DEF RestType
  <1>9. QED
    BY <1>3, <1>4, <1>5, <1>6, <1>7, <1>8, AcquireKeeps, ReleaseKeeps
    DEF Rivals!Work

LEMMA SweepStep == SweepInv /\ [Rivals!Next]_Rivals!vars => SweepInv'
  <1>1. ASSUME SweepInv, UNCHANGED Rivals!vars PROVE SweepInv'
    BY <1>1 DEF Rivals!vars, SweepInv, Rivals!TypeOK, LockCoversSweep,
                Rivals!InSweep
  <1>2. QED
    BY <1>1, OutsideKeeps, TickKeeps, WorkerKeeps DEF Rivals!Next

LEMMA SweepInit == Rivals!Init => SweepInv
  <1> SUFFICES ASSUME Rivals!Init PROVE SweepInv
    OBVIOUS
  <1>1. /\ \E a : a \in Asset
        /\ \E u : u \in Way
        /\ \E w : w \in Worker
    BY SweepAssumptions DEF Rivals!SweepAssumption
  <1>2. /\ (CHOOSE a \in Asset : TRUE) \in Asset
        /\ (CHOOSE u \in Way : TRUE) \in Way
        /\ (CHOOSE w \in Worker : TRUE) \in Worker
    BY <1>1
  <1>3. row \in [Asset -> Rivals!Row] /\ verdicts \in [Asset -> BOOLEAN]
    BY <1>2 DEF Rivals!Init, Rivals!Row, Rivals!RowState
  <1>4. /\ form \in [busy : BOOLEAN, of : Asset, verdict : BOOLEAN]
        /\ lock \in [by : Worker, ttl : 0..Hard]
    BY <1>2, SweepBounds DEF Rivals!Init, Rivals!NoForm
  <1>5. /\ debounce \in [Asset -> 0..Debounce]
        /\ cooldown \in [Asset -> 0..Cooldown]
        /\ edits \in 0..MaxEdits /\ faults \in 0..MaxFaults
    BY SweepBounds DEF Rivals!Init
  <1>6. task \in [Worker -> Rivals!Task]
    BY IdleType DEF Rivals!Init
  <1>7. Rivals!TypeOK
    BY <1>3, <1>4, <1>5, <1>6 DEF Rivals!Init, Rivals!TypeOK
  <1>8. \A w \in Worker : ~Rivals!InSweep(w)
    BY IdleType DEF Rivals!Init, Rivals!InSweep, Rivals!Sweeping
  <1>9. QED
    BY <1>7, <1>8 DEF SweepInv, LockCoversSweep

\* Two sweeps never probe side by side while both are within the hard limit,
\* for any number of workers, any limits and any lateness of the pool's kill.
THEOREM SweepsHaveNoRival == MCSpec => []NoRivalSweep
  <1> DEFINE Inv == part = "rivals" => SweepInv
  <1>1. MCInit => Inv
    BY SweepInit DEF MCInit
  <1>2. Inv /\ [MCNext]_allVars => Inv'
    <2>1. [MCNext]_allVars =>
            part' = part /\ (part = "rivals" => [Rivals!Next]_Rivals!vars)
      BY DEF MCNext, allVars, sweepVars, Rivals!vars
    <2>2. QED
      BY <2>1, SweepStep
  <1>3. Inv => NoRivalSweep
    <2> SUFFICES ASSUME SweepInv PROVE Rivals!NoRivalSweep
      BY DEF NoRivalSweep
    <2>1. \A w \in Worker : task[w].age \in Nat
      BY SweepBounds DEF SweepInv, Rivals!TypeOK, Rivals!Task
    <2>2. QED
      BY <2>1, SweepBounds
      DEF SweepInv, LockCoversSweep, Rivals!NoRivalSweep
  <1>4. QED
    BY <1>1, <1>2, <1>3, PTL DEF MCSpec

-----------------------------------------------------------------------------
(* The verdict on the storage.  The watcher is a thread of the worker. *)

CONSTANT MaxErrors

VARIABLES worn, ssd, fact, viewerUp, watcher, checkDue, facts, copy, blows

Storage == INSTANCE StorageHealth WITH
    pc <- watcher, due <- checkDue, faults <- blows

Histories ==
    [baseline : Int, write : {"none", "ok", "full", "failed"}, failed : BOOLEAN]

\* A history that holds nothing against the card: no failed write, and no error
\* since the baseline.
Clean(h) ==
    h.write # "failed" /\ h.failed = FALSE
      /\ h.baseline \in {Storage!Unset, errors}

StorageTypes ==
    /\ health \in {"good", "full", "bad", "ro", "missing"}
    /\ mounted \in BOOLEAN /\ hurt \in BOOLEAN
    /\ errors \in Nat /\ boot \in Nat
    /\ latch \in [boot : Nat, of : Histories] /\ latch.boot <= boot
    /\ copy \in Histories
    /\ facts \in [supported : BOOLEAN, errors : Nat]

\* As long as nothing has gone wrong in this boot, the card takes writes and
\* nobody holds anything against it; a latch of another boot may.
CleanUnlessHurt ==
    ~hurt => /\ health \notin {"bad", "ro"}
             /\ latch.boot = boot => Clean(latch.of)
             /\ Clean(copy)
             /\ facts.supported => facts.errors = errors

StorageInv == StorageTypes /\ CleanUnlessHurt

LEMMA BlankIsClean == Storage!Blank \in Histories /\ Clean(Storage!Blank)
  BY DEF Clean, Storage!Blank, Storage!Unset, Histories

\* What record_check() makes of a latch is a latch, and a clean one is clean as
\* long as the card is well.
LEMMA BaselineKeeps ==
    ASSUME StorageTypes, NEW h \in Histories
    PROVE  /\ Storage!WithBaseline(h) \in Histories
           /\ Clean(h) /\ (facts.supported => facts.errors = errors)
                => Clean(Storage!WithBaseline(h))
  BY DEF Storage!WithBaseline, Histories, Clean, StorageTypes, Storage!Unset

LEMMA FoldKeeps ==
    ASSUME NEW h \in Histories
    PROVE  /\ Storage!Fold(h) \in Histories
           /\ Clean(h) /\ health \in {"good", "full", "missing"}
                => Clean(Storage!Fold(h))
  <1>1. Storage!WriteCheck \in {"none", "ok", "full", "failed"}
    BY DEF Storage!WriteCheck
  <1>2. PICK b \in BOOLEAN : b = (h.failed \/ Storage!WriteCheck = "failed")
    OBVIOUS
  <1>3. Storage!Fold(h) = [h EXCEPT !.write = Storage!WriteCheck, !.failed = b]
    BY <1>2, Zenon DEF Storage!Fold
  <1>4. Storage!Fold(h) \in Histories
    BY <1>1, <1>3 DEF Histories
  <1>5. ASSUME Clean(h), health \in {"good", "full", "missing"}
        PROVE  Clean(Storage!Fold(h))
    <2>1. Storage!WriteCheck # "failed"
      BY <1>5 DEF Storage!WriteCheck
    <2>2. b = FALSE
      BY <1>2, <1>5, <2>1 DEF Clean
    <2>3. QED
      BY <1>1, <1>3, <1>5, <2>1, <2>2 DEF Clean, Histories
  <1>6. QED
    BY <1>4, <1>5

LEMMA StorageInit == Storage!Init => StorageInv
  <1> SUFFICES ASSUME Storage!Init PROVE StorageInv
    OBVIOUS
  <1>1. StorageTypes
    <2>1. PICK b \in Histories : b = Storage!Blank
      BY BlankIsClean
    <2>2. health \in {"good", "missing"} /\ mounted \in BOOLEAN
      BY DEF Storage!Init
    <2>3. /\ errors = 0 /\ boot = 0 /\ hurt = FALSE
          /\ latch = [boot |-> 0, of |-> b]
          /\ copy = b /\ facts = [supported |-> FALSE, errors |-> 0]
      BY <2>1 DEF Storage!Init, Storage!NoFacts
    <2>4. latch \in [boot : Nat, of : Histories] /\ latch.boot <= boot
      BY <2>3
    <2>5. QED
      BY <2>2, <2>3, <2>4 DEF StorageTypes
  <1>2. CleanUnlessHurt
    BY BlankIsClean DEF Storage!Init, CleanUnlessHurt, Storage!NoFacts
  <1>3. QED
    BY <1>1, <1>2 DEF StorageInv

\* What happens to the card, to Redis and to the processes.
LEMMA DeviceKeeps ==
    ASSUME StorageInv,
           \/ \E h \in {"good", "full", "bad", "ro"} : Storage!HealthChanges(h)
           \/ Storage!CardErrs \/ Storage!WearsOut \/ Storage!MountChanges
           \/ Storage!RedisGoesDown \/ Storage!RedisComesUp
           \/ Storage!WorkerRestarts \/ Storage!Reboot
           \/ Storage!ClockIsSet
           \/ Storage!SmartPublishes \/ Storage!ViewerStops
           \/ Storage!SmartExpires \/ Storage!Elapses \/ Storage!Start
    PROVE  StorageInv'
  <1> USE DEF Storage!card, Storage!process
  <1>1. CASE Storage!Reboot
    <2>1. PICK b \in Histories : b = Storage!Blank
      BY BlankIsClean
    <2>2. /\ boot' = boot + 1
          /\ facts' = [supported |-> FALSE, errors |-> 0] /\ copy' = b
          /\ UNCHANGED <<health, mounted, errors, latch>>
      BY <1>1, <2>1 DEF Storage!Reboot, Storage!NoFacts
    <2>3. /\ hurt' \in BOOLEAN
          /\ ~hurt' => health \notin {"bad", "ro"}
      <3>1. hurt' \in BOOLEAN
        BY <1>1, Zenon DEF Storage!Reboot
      <3>2. ~hurt' => health # "bad" /\ health # "ro"
        BY <1>1, Zenon DEF Storage!Reboot, Storage!IsReadOnly
      <3>3. QED
        BY <3>1, <3>2
    <2>4. StorageTypes'
      BY <2>2, <2>3 DEF StorageInv, StorageTypes
    <2>5. Clean(copy)'
      BY <2>1, <2>2, BlankIsClean DEF Clean
    <2>6. latch'.boot # boot'
      BY <2>2 DEF StorageInv, StorageTypes
    <2>7. CleanUnlessHurt'
      BY <2>2, <2>3, <2>5, <2>6 DEF CleanUnlessHurt
    <2>8. QED
      BY <2>4, <2>7 DEF StorageInv
  <1>2. CASE Storage!WorkerRestarts
    <2>1. /\ facts' = Storage!NoFacts /\ copy' = Storage!Blank
          /\ UNCHANGED <<health, mounted, errors, latch, boot, hurt>>
      BY <1>2 DEF Storage!WorkerRestarts
    <2>2. StorageTypes'
      BY <2>1, BlankIsClean DEF StorageInv, StorageTypes, Storage!NoFacts
    <2>3. CleanUnlessHurt'
      BY <2>1, BlankIsClean DEF StorageInv, CleanUnlessHurt, Storage!NoFacts,
         Clean
    <2>4. QED
      BY <2>2, <2>3 DEF StorageInv
  <1>3. CASE Storage!CardErrs
    <2>1. /\ errors' = errors + 1 /\ hurt' = TRUE
          /\ UNCHANGED <<health, mounted, latch, boot, facts, copy>>
      BY <1>3 DEF Storage!CardErrs
    <2>2. QED
      BY <2>1 DEF StorageInv, StorageTypes, CleanUnlessHurt
  <1>4. ASSUME NEW h \in {"good", "full", "bad", "ro"}, Storage!HealthChanges(h)
        PROVE  StorageInv'
    <2>1. /\ health' = h
          /\ UNCHANGED <<mounted, errors, latch, boot, facts, copy>>
      BY <1>4 DEF Storage!HealthChanges
    <2>2. hurt' \in BOOLEAN /\ (~hurt' => ~hurt /\ h \notin {"bad", "ro"})
      BY <1>4, Zenon DEF Storage!HealthChanges
    <2>3. QED
      BY <2>1, <2>2 DEF StorageInv, StorageTypes, CleanUnlessHurt, Clean
  <1>5. CASE Storage!MountChanges
    <2>1. mounted' \in BOOLEAN
      BY <1>5, Zenon DEF Storage!MountChanges
    <2>2. UNCHANGED <<health, errors, latch, boot, facts, copy, hurt>>
      BY <1>5 DEF Storage!MountChanges
    <2>3. QED
      BY <2>1, <2>2 DEF StorageInv, StorageTypes, CleanUnlessHurt, Clean
  <1>6. CASE UNCHANGED <<health, mounted, errors, latch, boot, facts,
                         copy, hurt>>
    BY <1>6 DEF StorageInv, StorageTypes, CleanUnlessHurt, Clean
  <1>7. QED
    BY <1>1, <1>2, <1>3, <1>4, <1>5, <1>6
    DEF Storage!WearsOut, Storage!RedisGoesDown, Storage!RedisComesUp,
        Storage!SmartPublishes, Storage!ViewerStops, Storage!SmartExpires,
        Storage!ClockIsSet, Storage!Elapses, Storage!Start

\* record_check()
LEMMA RecordKeeps ==
    ASSUME StorageInv,
           Storage!Probe \/ Storage!LoadAndCheck \/ Storage!Save
    PROVE  StorageInv'
  <1> USE DEF Storage!card
  <1>1. CASE Storage!Probe
    <2>1. /\ facts' = [supported |-> mounted, errors |-> Storage!ReadExt4Errors]
          /\ UNCHANGED <<health, mounted, errors, latch, boot, copy, hurt>>
      BY <1>1 DEF Storage!Probe
    <2>2. facts' \in [supported : BOOLEAN, errors : Nat]
             /\ (facts'.supported => facts'.errors = errors)
      BY <2>1 DEF Storage!ReadExt4Errors, StorageInv, StorageTypes
    <2>3. QED
      BY <2>1, <2>2 DEF StorageInv, StorageTypes, CleanUnlessHurt, Clean
  <1>2. CASE Storage!LoadAndCheck
    <2>1. PICK h \in Histories : h = Storage!Loaded
      BY BlankIsClean DEF Storage!Loaded, StorageInv, StorageTypes
    <2>2. ~hurt => Clean(h)
      BY <2>1, BlankIsClean DEF Storage!Loaded, StorageInv, CleanUnlessHurt
    <2>3. PICK w \in Histories : w = Storage!WithBaseline(h)
      BY BaselineKeeps DEF StorageInv
    <2>4. ~hurt => Clean(w)
      BY <2>2, <2>3, BaselineKeeps DEF StorageInv, CleanUnlessHurt
    <2>5. copy' \in {w, Storage!Fold(w)}
      BY <1>2, <2>1, <2>3 DEF Storage!LoadAndCheck
    <2>6. copy' \in Histories /\ (~hurt => Clean(copy'))
      BY <2>4, <2>5, FoldKeeps DEF StorageInv, StorageTypes, CleanUnlessHurt
    <2>7. UNCHANGED <<health, mounted, errors, latch, boot, facts, hurt>>
      BY <1>2 DEF Storage!LoadAndCheck
    <2>8. QED
      BY <2>6, <2>7 DEF StorageInv, StorageTypes, CleanUnlessHurt, Clean
  <1>3. CASE Storage!Save
    <2>1. /\ latch' \in {latch, [boot |-> boot, of |-> copy]}
          /\ facts' = Storage!NoFacts /\ copy' = Storage!Blank
          /\ UNCHANGED <<health, mounted, errors, boot, hurt>>
      BY <1>3 DEF Storage!Save
    <2>2. StorageTypes'
      BY <2>1, BlankIsClean DEF StorageInv, StorageTypes, Storage!NoFacts
    <2>3. ~hurt => Clean(Storage!Blank)' /\ (latch'.boot = boot => Clean(latch.of)')
      BY <2>1, BlankIsClean DEF StorageInv, StorageTypes, CleanUnlessHurt, Clean
    <2>4. CleanUnlessHurt'
      BY <2>1, <2>3 DEF StorageInv, CleanUnlessHurt, Storage!NoFacts
    <2>5. QED
      BY <2>2, <2>4 DEF StorageInv
  <1>4. QED
    BY <1>1, <1>2, <1>3

\* "send an operator out to buy hardware they don't need": the verdict is
\* "failing" only when the card did fail in this boot or an error of an earlier
\* one is dated into it at the moment, for any number of errors and of faults,
\* with clocks that lag and are set and latches that cannot be written.
THEOREM FailingIsDeserved == Storage!Spec => []FailingOnlyIfHurt
  <1>1. StorageInv /\ [Storage!Next]_Storage!vars => StorageInv'
    <2> SUFFICES ASSUME StorageInv, [Storage!Next]_Storage!vars
                 PROVE  StorageInv'
      OBVIOUS
    <2>1. CASE UNCHANGED Storage!vars
      BY <2>1 DEF Storage!vars, Storage!card, Storage!process, StorageInv,
         StorageTypes, CleanUnlessHurt, Clean
    <2>2. CASE Storage!Next
      BY <2>2, DeviceKeeps, RecordKeeps DEF Storage!Next, Storage!Watch
    <2>3. QED
      BY <2>1, <2>2
  <1>2. ASSUME StorageInv PROVE FailingOnlyIfHurt
    <2>1. ~hurt => Clean(Loaded)
      BY <1>2, BlankIsClean
      DEF Loaded, Blank, Unset, Storage!Blank, Storage!Unset, StorageInv,
          CleanUnlessHurt
    <2>2. ASSUME ~hurt, ~recent, Failing(Loaded) PROVE FALSE
      <3>1. ~IsReadOnly
        BY <1>2, <2>2 DEF StorageInv, CleanUnlessHurt, IsReadOnly
      <3>2. ~ErrorsNew(Loaded)
        BY <1>2, <2>1, <2>2
        DEF Clean, ErrorsNew, Unset, Storage!Unset, StorageInv, StorageTypes
      <3>3. QED
        BY <1>2, <2>1, <2>2, <3>1, <3>2 DEF Failing, Clean
    <2>3. QED
      BY <2>2 DEF FailingOnlyIfHurt
  <1>3. StorageInv => FailingOnlyIfHurt
    BY <1>2
  <1>4. QED
    BY <1>1, <1>3, StorageInit, PTL DEF Storage!Spec

-----------------------------------------------------------------------------
(* The record of brown-outs, which a second thread of the worker keeps.  A    *)
(* Boolean field is compared with TRUE, as the provers take it for a value.   *)

CONSTANT MaxDips

VARIABLES
    alarm, path, changed, writers, live, drafts, watched, cached, dips, mishaps

Supply == INSTANCE Undervoltage WITH
    pc <- writers, copy <- drafts, faults <- mishaps

States == [active : BOOLEAN, seen : BOOLEAN, count : Nat]
Records == [boot : Nat, active : BOOLEAN, seen : BOOLEAN, count : Nat]
Drafts == [state : States, readable : BOOLEAN]

SupplyTypes ==
    /\ alarm \in BOOLEAN /\ dipped \in BOOLEAN
    /\ bootNo \in Nat
    /\ record \in Records /\ record.boot <= bootNo
    /\ live \in [Supply!Writer -> BOOLEAN]
    /\ drafts \in [Supply!Writer -> Drafts]

\* A state that knows of no more than this boot has shown.
Earned(s) ==
    /\ s.active = TRUE => s.seen = TRUE
    /\ s.seen = TRUE => dipped = TRUE

RecordEarned ==
    /\ record.active = TRUE => record.seen = TRUE
    /\ record.boot = bootNo /\ record.seen = TRUE => dipped = TRUE

WarningsEarned ==
    /\ alarm = TRUE => dipped = TRUE
    /\ \A w \in Supply!Writer :
            (live[w] = TRUE => dipped = TRUE) /\ Earned(drafts[w].state)
    /\ RecordEarned

SupplyInv == SupplyTypes /\ WarningsEarned

LEMMA EmptyIsEarned ==
  /\ Supply!Empty \in States /\ Earned(Supply!Empty)
  /\ Supply!NoCopy \in Drafts /\ Earned(Supply!NoCopy.state)
  <1>1. Supply!Empty \in States /\ Earned(Supply!Empty)
    BY DEF Supply!Empty, States, Earned
  <1>2. PICK e \in States : e = Supply!Empty
    BY <1>1
  <1>3. Supply!NoCopy = [state |-> e, readable |-> TRUE]
    BY <1>2 DEF Supply!NoCopy
  <1>4. QED
    BY <1>1, <1>2, <1>3 DEF Drafts

\* A latch of another boot is discarded.
LEMMA LoadedIsEarned ==
  ASSUME SupplyInv
  PROVE  Supply!Loaded \in Drafts /\ Earned(Supply!Loaded.state)
  <1>1. PICK e \in States : e = Supply!Empty
    BY EmptyIsEarned
  <1>2. PICK r \in Records : r = record
    BY DEF SupplyInv, SupplyTypes
  <1>3. PICK b \in BOOLEAN : b = (broker \/ ~bootKnown)
    OBVIOUS
  <1>4. PICK own \in BOOLEAN : own = (bootKnown /\ broker /\ r.boot = bootNo)
    OBVIOUS
  <1>5. PICK s \in States : s = IF own = TRUE
             THEN [active |-> r.active, seen |-> r.seen, count |-> r.count]
             ELSE e
    BY DEF States, Records
  <1>6. Supply!Loaded = [readable |-> b, state |-> s]
    BY <1>1, <1>2, <1>3, <1>4, <1>5, Zenon DEF Supply!Loaded, Supply!Remembered
  <1>7. own = TRUE => r.boot = bootNo
    BY <1>4
  <1>8. Earned(s)
    BY <1>1, <1>2, <1>5, <1>7, EmptyIsEarned
    DEF SupplyInv, WarningsEarned, RecordEarned, Earned, Records, States
  <1>9. QED
    BY <1>6, <1>8 DEF Drafts

\* A reading folded in is earned, and changes the state only with a brown-out.
LEMMA FoldedIsEarned ==
  ASSUME NEW s \in States, NEW b \in BOOLEAN,
         Earned(s), b = TRUE => dipped = TRUE
  PROVE  /\ Supply!Folded(s, b) \in States
         /\ Earned(Supply!Folded(s, b))
         /\ Supply!Folded(s, b) # s => Supply!Folded(s, b).seen = TRUE
  <1>1. PICK v \in BOOLEAN : v = (s.seen \/ b)
    OBVIOUS
  <1>2. PICK n \in Nat : n = IF b = TRUE /\ s.active = FALSE
                             THEN s.count + 1 ELSE s.count
    BY DEF States
  <1>3. Supply!Folded(s, b) = [active |-> b, seen |-> v, count |-> n]
    <2>1. s.active \in BOOLEAN
      BY DEF States
    <2>2. n = IF b /\ ~s.active THEN s.count + 1 ELSE s.count
      BY <1>2, <2>1
    <2>3. QED
      BY <1>1, <2>2, Zenon DEF Supply!Folded
  <1>4. v = TRUE <=> (s.seen = TRUE \/ b = TRUE)
    BY <1>1 DEF States
  <1>5. Supply!Folded(s, b) \in States /\ Earned(Supply!Folded(s, b))
    BY <1>3, <1>4 DEF States, Earned
  <1>6. ASSUME v # TRUE PROVE Supply!Folded(s, b) = s
    <2>1. b = FALSE /\ s.seen = FALSE /\ s.active = FALSE /\ v = FALSE
      BY <1>4, <1>6 DEF States, Earned
    <2>2. n = s.count
      BY <1>2, <2>1
    <2>3. QED
      BY <1>3, <2>1, <2>2 DEF States
  <1>7. Supply!Folded(s, b).seen = v
    BY <1>3
  <1>8. QED
    BY <1>5, <1>6, <1>7, Zenon

\* What the kernel, Redis and restarts do.
LEMMA SupplyChangesKeep ==
  ASSUME SupplyInv,
         \/ Supply!AlarmChanges \/ Supply!Rebind \/ Supply!Reboot
         \/ Supply!RedisGoesDown \/ Supply!RedisComesUp
         \/ Supply!WorkerRestarts
  PROVE  SupplyInv'
  <1>1. CASE Supply!AlarmChanges \/ Supply!Rebind
    <2>1. alarm' \in BOOLEAN
      BY <1>1, Zenon DEF Supply!AlarmChanges, Supply!Rebind
    <2>2. dipped' = (dipped \/ alarm')
      BY <1>1, Zenon DEF Supply!AlarmChanges, Supply!Rebind
    <2>3. /\ dipped' \in BOOLEAN /\ (dipped = TRUE => dipped' = TRUE)
          /\ alarm' = TRUE => dipped' = TRUE
      BY <2>2 DEF SupplyInv, SupplyTypes
    <2>4. UNCHANGED <<bootNo, record, live, drafts>>
      BY <1>1 DEF Supply!AlarmChanges, Supply!Rebind, Supply!process
    <2>5. QED
      BY <2>1, <2>3, <2>4
      DEF SupplyInv, SupplyTypes, WarningsEarned, RecordEarned, Earned
  <1>2. CASE Supply!Reboot
    <2>1. alarm' \in BOOLEAN /\ dipped' = alarm'
      BY <1>2 DEF Supply!Reboot
    <2>2. /\ bootNo' = bootNo + 1 /\ record' = record
          /\ live' = [w \in Supply!Writer |-> FALSE]
          /\ drafts' = [w \in Supply!Writer |-> Supply!NoCopy]
      BY <1>2 DEF Supply!Reboot
    <2>3. Supply!NoCopy.state.seen = FALSE /\ Supply!NoCopy.state.active = FALSE
      BY DEF Supply!NoCopy, Supply!Empty
    <2>4. record'.boot # bootNo'
      BY <2>2 DEF SupplyInv, SupplyTypes, Records
    <2>5. SupplyTypes'
      BY <2>1, <2>2, EmptyIsEarned DEF SupplyInv, SupplyTypes, Records
    <2>6. WarningsEarned'
      BY <2>1, <2>2, <2>3, <2>4
      DEF SupplyInv, WarningsEarned, RecordEarned, Earned
    <2>7. QED
      BY <2>5, <2>6 DEF SupplyInv
  <1>3. CASE Supply!WorkerRestarts
    <2>1. /\ live' = [live EXCEPT !["watcher"] = FALSE]
          /\ drafts' = [drafts EXCEPT !["watcher"] = Supply!NoCopy]
          /\ UNCHANGED <<alarm, dipped, bootNo, record>>
      BY <1>3 DEF Supply!WorkerRestarts, Supply!kernel
    <2>2. Supply!NoCopy.state.seen = FALSE /\ Supply!NoCopy.state.active = FALSE
      BY DEF Supply!NoCopy, Supply!Empty
    <2>3. SupplyTypes'
      BY <2>1, EmptyIsEarned DEF SupplyInv, SupplyTypes
    <2>4. WarningsEarned'
      BY <2>1, <2>2
      DEF SupplyInv, SupplyTypes, WarningsEarned, RecordEarned, Earned
    <2>5. QED
      BY <2>3, <2>4 DEF SupplyInv
  <1>4. CASE Supply!RedisGoesDown \/ Supply!RedisComesUp
    <2>1. UNCHANGED <<alarm, dipped, bootNo, record, live, drafts>>
      BY <1>4 DEF Supply!RedisGoesDown, Supply!RedisComesUp, Supply!kernel,
                  Supply!process
    <2>2. QED
      BY <2>1
      DEF SupplyInv, SupplyTypes, WarningsEarned, RecordEarned, Earned
  <1>5. QED
    BY <1>1, <1>2, <1>3, <1>4

\* A writer that takes a reading takes what the alarm shows.
LEMMA ReadingsAreEarned ==
  ASSUME SupplyInv,
         UNCHANGED <<alarm, dipped, bootNo, record>>,
         drafts' \in [Supply!Writer -> Drafts],
         live' \in [Supply!Writer -> BOOLEAN],
         \A w \in Supply!Writer : live'[w] \in {FALSE, live[w], alarm},
         \A w \in Supply!Writer : Earned(drafts'[w].state)
  PROVE  SupplyInv'
  <1>1. SupplyTypes'
    BY DEF SupplyInv, SupplyTypes
  <1>2. WarningsEarned'
    BY DEF SupplyInv, WarningsEarned, RecordEarned, Earned
  <1>3. QED
    BY <1>1, <1>2 DEF SupplyInv

LEMMA WatchingKeeps ==
  ASSUME SupplyInv,
         \/ Supply!Start \/ Supply!Open \/ Supply!Woken \/ Supply!Resamples
         \/ Supply!PollFails \/ Supply!Recover
  PROVE  SupplyInv'
  <1>1. /\ live' \in {live, [live EXCEPT !["watcher"] = alarm]}
        /\ UNCHANGED <<alarm, dipped, bootNo, record, drafts>>
    BY DEF Supply!Start, Supply!Open, Supply!Woken, Supply!Resamples,
           Supply!Reads, Supply!PollFails, Supply!Recover, Supply!kernel
  <1>2. /\ live' \in [Supply!Writer -> BOOLEAN]
        /\ \A w \in Supply!Writer : live'[w] \in {FALSE, live[w], alarm}
    BY <1>1 DEF SupplyInv, SupplyTypes
  <1>3. QED
    BY <1>1, <1>2, ReadingsAreEarned DEF SupplyInv, SupplyTypes, WarningsEarned

LEMMA LoadingKeeps ==
  ASSUME SupplyInv,
         \/ Supply!PageLoads \/ Supply!PageCompares
         \/ \E w \in Supply!Writer : Supply!Load(w)
  PROVE  SupplyInv'
  <1>1. PICK d \in Drafts : d = Supply!Loaded
    BY LoadedIsEarned
  <1>2. PICK n \in Drafts : n = Supply!NoCopy
    BY EmptyIsEarned
  <1>3. Earned(d.state) /\ Earned(n.state)
    BY <1>1, <1>2, LoadedIsEarned, EmptyIsEarned
  <1>4. UNCHANGED <<alarm, dipped, bootNo, record>>
    BY DEF Supply!PageLoads, Supply!PageCompares, Supply!Load, Supply!kernel
  <1>5. \E w \in Supply!Writer :
          \/ drafts' = [drafts EXCEPT ![w] = d]
          \/ drafts' = [drafts EXCEPT ![w] = n]
    BY <1>1, <1>2
    DEF Supply!PageLoads, Supply!PageCompares, Supply!Load, Supply!Writer
  <1>6. /\ drafts' \in [Supply!Writer -> Drafts]
        /\ \A w \in Supply!Writer : Earned(drafts'[w].state)
    BY <1>3, <1>5 DEF SupplyInv, SupplyTypes, WarningsEarned
  <1>7. \/ live' = live
        \/ \E b \in {FALSE, alarm} : live' = [live EXCEPT !["page"] = b]
    <2>1. CASE Supply!PageCompares
      <3>1. PICK b \in BOOLEAN : b = (Supply!WritesBack /\ alarm)
        OBVIOUS
      <3>2. b \in {FALSE, alarm}
        BY <3>1 DEF SupplyInv, SupplyTypes
      <3>3. live' = [live EXCEPT !["page"] = b]
        BY <2>1, <3>1, Zenon DEF Supply!PageCompares
      <3>4. QED
        BY <3>2, <3>3
    <2>2. CASE Supply!PageLoads \/ \E w \in Supply!Writer : Supply!Load(w)
      BY <2>2 DEF Supply!PageLoads, Supply!Load
    <2>3. QED
      BY <2>1, <2>2
  <1>8. /\ live' \in [Supply!Writer -> BOOLEAN]
        /\ \A w \in Supply!Writer : live'[w] \in {FALSE, live[w], alarm}
    BY <1>7 DEF SupplyInv, SupplyTypes
  <1>9. QED
    BY <1>4, <1>6, <1>8, ReadingsAreEarned

\* What is written is of this boot, has a brown-out in it, and is earned.
LEMMA WritesAreEarned ==
  ASSUME SupplyInv, NEW w \in Supply!Writer, Supply!Save(w)
  PROVE  /\ SupplyInv'
         /\ \/ record' = record
            \/ record'.boot = bootNo /\ record'.seen = TRUE
  <1>1. PICK s \in States : s = drafts[w].state
    BY DEF SupplyInv, SupplyTypes, Drafts
  <1>2. PICK b \in BOOLEAN : b = live[w]
    BY DEF SupplyInv, SupplyTypes
  <1>3. Earned(s) /\ (b = TRUE => dipped = TRUE)
    BY <1>1, <1>2 DEF SupplyInv, WarningsEarned
  <1>4. PICK f \in States : f = Supply!Folded(s, b)
    BY <1>3, FoldedIsEarned
  <1>5. Earned(f) /\ (f # s => f.seen = TRUE)
    BY <1>3, <1>4, FoldedIsEarned
  <1>6. \/ record' = record
        \/ /\ f # s
           /\ record' = [boot |-> bootNo, active |-> f.active,
                         seen |-> f.seen, count |-> f.count]
    BY <1>1, <1>2, <1>4 DEF Supply!Save, Supply!Saves
  <1>7. /\ live' = [live EXCEPT ![w] = FALSE]
        /\ drafts' = [drafts EXCEPT ![w] = Supply!NoCopy]
        /\ UNCHANGED <<alarm, dipped, bootNo>>
    BY DEF Supply!Save, Supply!kernel
  <1>8. /\ record' \in Records /\ record'.boot <= bootNo
        /\ \/ record' = record
           \/ /\ record'.boot = bootNo /\ record'.seen = TRUE
              /\ dipped = TRUE
    BY <1>5, <1>6 DEF SupplyInv, SupplyTypes, Records, States, Earned
  <1>9. PICK n \in Drafts : n = Supply!NoCopy /\ Earned(n.state)
    BY EmptyIsEarned
  <1>10. SupplyTypes'
    BY <1>7, <1>8, <1>9 DEF SupplyInv, SupplyTypes
  <1>11. WarningsEarned'
    BY <1>7, <1>8, <1>9
    DEF SupplyInv, SupplyTypes, WarningsEarned, RecordEarned, Earned
  <1>12. QED
    BY <1>8, <1>10, <1>11 DEF SupplyInv

LEMMA SupplyInit == Supply!Init => SupplyInv
  <1> SUFFICES ASSUME Supply!Init PROVE SupplyInv
    OBVIOUS
  <1>1. /\ alarm \in BOOLEAN /\ dipped = alarm /\ bootNo = 0
        /\ record = [boot |-> 0, active |-> FALSE, seen |-> FALSE, count |-> 0]
        /\ live = [w \in Supply!Writer |-> FALSE]
        /\ drafts = [w \in Supply!Writer |-> Supply!NoCopy]
    BY DEF Supply!Init
  <1>2. SupplyTypes
    BY <1>1, EmptyIsEarned DEF SupplyTypes, Records
  <1>3. WarningsEarned
    BY <1>1, EmptyIsEarned DEF WarningsEarned, RecordEarned
  <1>4. QED
    BY <1>2, <1>3 DEF SupplyInv

LEMMA SupplyStep ==
  ASSUME SupplyInv, [Supply!Next]_Supply!vars
  PROVE  /\ SupplyInv'
         /\ \/ record' = record
            \/ record'.boot = bootNo /\ record'.seen = TRUE
  <1>1. CASE UNCHANGED Supply!vars
    BY <1>1 DEF Supply!vars, Supply!kernel, Supply!process, SupplyInv,
                SupplyTypes, WarningsEarned, RecordEarned, Earned
  <1>2. CASE \E w \in Supply!Writer : Supply!Save(w)
    BY <1>2, WritesAreEarned
  <1>3. CASE \/ Supply!AlarmChanges \/ Supply!Rebind \/ Supply!Reboot
             \/ Supply!RedisGoesDown \/ Supply!RedisComesUp
             \/ Supply!WorkerRestarts
    <2>1. record' = record
      BY <1>3 DEF Supply!AlarmChanges, Supply!Rebind, Supply!Reboot,
                  Supply!RedisGoesDown, Supply!RedisComesUp,
                  Supply!WorkerRestarts
    <2>2. QED
      BY <1>3, <2>1, SupplyChangesKeep
  <1>4. CASE \/ Supply!Start \/ Supply!Open \/ Supply!Woken
             \/ Supply!Resamples \/ Supply!PollFails \/ Supply!Recover
    <2>1. record' = record
      BY <1>4 DEF Supply!Start, Supply!Open, Supply!Woken, Supply!Resamples,
                  Supply!Reads, Supply!PollFails, Supply!Recover
    <2>2. QED
      BY <1>4, <2>1, WatchingKeeps
  <1>5. CASE \/ Supply!PageLoads \/ Supply!PageCompares
             \/ \E w \in Supply!Writer : Supply!Load(w)
    <2>1. record' = record
      BY <1>5 DEF Supply!PageLoads, Supply!PageCompares, Supply!Load
    <2>2. QED
      BY <1>5, <2>1, LoadingKeeps
  <1>6. "watcher" \in Supply!Writer /\ "page" \in Supply!Writer
    BY DEF Supply!Writer
  <1>7. QED
    BY <1>1, <1>2, <1>3, <1>4, <1>5, <1>6
    DEF Supply!Next, Supply!Watch, Supply!RenderGoesOn

\* A page warns of a brown-out only in a boot that had one (WarningIsDeserved),
\* whatever record is left over and wherever the driver is; and what is on
\* record stays on record for the rest of the boot (WarningIsKept), though two
\* writers overwrite each other's: for any number of dips and faults.
THEOREM WarningsAreHonest == Supply!Spec => WarningIsHonest
  <1> DEFINE Kept == (record.boot = bootNo /\ record.seen /\ bootNo' = bootNo)
                        => record'.boot = bootNo /\ record'.seen
  <1>1. SupplyInv => WarningIsDeserved
    <2> SUFFICES ASSUME SupplyInv PROVE WarningIsDeserved
      OBVIOUS
    <2>1. Remembered = Supply!Loaded.state
      BY DEF Remembered, Empty, Supply!Loaded, Supply!Remembered, Supply!Empty
    <2>2. QED
      BY <2>1, LoadedIsEarned DEF WarningIsDeserved, Earned, Drafts, States
  <1>2. SupplyInv /\ [Supply!Next]_Supply!vars => SupplyInv'
    BY SupplyStep
  <1>3. SupplyInv /\ [Supply!Next]_Supply!vars => [Kept]_<<bootNo, record>>
    <2> SUFFICES ASSUME SupplyInv, [Supply!Next]_Supply!vars PROVE Kept
      OBVIOUS
    <2>1. CASE record' = record
      BY <2>1
    <2>2. CASE record'.boot = bootNo /\ record'.seen = TRUE
      BY <2>2
    <2>3. QED
      BY <2>1, <2>2, SupplyStep
  <1>4. QED
    BY <1>1, <1>2, <1>3, SupplyInit, PTL
    DEF Supply!Spec, WarningIsHonest, WarningIsKept
=============================================================================

------------------------------ MODULE UrlSweep ------------------------------
(***************************************************************************)
(* Revalidation of assets (src/src/anthias_server/celery_tasks.py): the    *)
(* periodic sweep behind a Redis lock that expires, and the recheck of one *)
(* asset that the viewer asks for behind a debounce key and a cooldown     *)
(* key.                                                                    *)
(*                                                                         *)
(* A task is a Celery job on one of the workers.  Its age is counted from  *)
(* the moment the job is taken, which is when Celery starts its time       *)
(* limits; the lock's time to live starts a little later, when Redis       *)
(* executes the SET.  The soft limit is a signal that may land on any      *)
(* statement, the hard limit a kill that may come up to Slack late.        *)
(* The same lock pattern guards reconcile_stuck_processing().              *)
(***************************************************************************)
EXTENDS Integers, FiniteSets

CONSTANTS
    Asset,
    Way,            \* what a probe asks: a URI, with or without TLS checks
    Worker,         \* the pool's children
    Soft, Hard,     \* soft_time_limit and time_limit of the sweep
    Slack,          \* how late the pool's kill may be
    Debounce,       \* ASSET_RECHECK_QUEUE_DEBOUNCE_S
    Cooldown,       \* RECHECK_COOLDOWN_S
    MaxEdits,       \* bound: edits by operators and outages of the web
    MaxFaults       \* bound: kills, limits that are hit and lost messages

SweepAssumption ==
    /\ Asset # {} /\ Way # {} /\ Worker # {}
    /\ Soft \in Nat /\ Hard \in Nat /\ Soft < Hard
    /\ Slack \in Nat
    /\ Debounce \in Nat \ {0} /\ Cooldown \in Nat \ {0}
    /\ MaxEdits \in Nat /\ MaxFaults \in Nat

VARIABLES
    row,            \* what the probe reads of a row of the assets table
    verdict,        \* Asset.is_reachable
    web,            \* whether the asset's server answers a probe of that way
    form,           \* the row a request has read and not saved yet
    queue,          \* the assets whose recheck waits in the Celery queue
    task,           \* what each worker runs
    lock,           \* ASSET_REVALIDATION_LOCK_KEY: whose token, time left
    debounce, cooldown,         \* time left of the two keys of an asset
    edits, faults

vars == <<row, verdict, web, form, queue, task, lock,
          debounce, cooldown, edits, faults>>

\* "off" stands for a row that is disabled, being processed or not to be checked.
RowState == {"on", "off", "gone"}
Row == [way : Way, state : RowState]

PC == {"idle", "lock", "read", "next", "probe", "write", "release",
       "get", "gate"}
\* Where a sweep is between its SET and the end of its finally block.
Sweeping == {"read", "next", "probe", "write", "release"}

\* What a task knows of a row it has read.
Copy == [of : Asset, way : Way]

\* A request's copy of a row has every column, the verdict included.
NoForm == [busy |-> FALSE, of |-> CHOOSE a \in Asset : TRUE, verdict |-> TRUE]

Task == [kind : {"sweep", "recheck"}, pc : PC, age : 0..(Hard + Slack),
         warned : BOOLEAN, todo : SUBSET Copy, at : Copy, found : BOOLEAN]

TypeOK ==
    /\ row \in [Asset -> Row]
    /\ verdict \in [Asset -> BOOLEAN]
    /\ web \in [Way -> BOOLEAN]
    /\ form \in [busy : BOOLEAN, of : Asset, verdict : BOOLEAN]
    /\ queue \subseteq Asset
    /\ task \in [Worker -> Task]
    /\ lock \in [by : Worker, ttl : 0..Hard]
    /\ debounce \in [Asset -> 0..Debounce]
    /\ cooldown \in [Asset -> 0..Cooldown]
    /\ edits \in 0..MaxEdits
    /\ faults \in 0..MaxFaults

NoCopy == CHOOSE c \in Copy : TRUE
NewTask(k, p, c) ==
    [kind |-> k, pc |-> p, age |-> 0, warned |-> FALSE, todo |-> {},
     at |-> c, found |-> FALSE]
Idle == NewTask("sweep", "idle", NoCopy)

Init ==
    /\ row = [a \in Asset |-> [way |-> CHOOSE u \in Way : TRUE, state |-> "on"]]
    /\ verdict = [a \in Asset |-> TRUE]
    /\ web \in [Way -> BOOLEAN]
    /\ form = NoForm
    /\ queue = {}
    /\ task = [w \in Worker |-> Idle]
    /\ lock = [by |-> CHOOSE w \in Worker : TRUE, ttl |-> 0]
    /\ debounce = [a \in Asset |-> 0] /\ cooldown = [a \in Asset |-> 0]
    /\ edits = 0 /\ faults = 0

Runs(w, k, p) == task[w].kind = k /\ task[w].pc = p
GoTo(w, p) == task' = [task EXCEPT ![w].pc = p]
Ends(w) == task' = [task EXCEPT ![w] = Idle]

keys == <<lock, debounce, cooldown>>
rows == <<row, verdict, web, form>>
bounds == <<edits, faults>>

Fault == faults < MaxFaults /\ faults' = faults + 1 /\ UNCHANGED edits

-----------------------------------------------------------------------------
(* Operators, the web and the clock. *)

\* assets_update() and the API's update() read a row, set some fields and save
\* every column: what a task wrote in between is overwritten, and a row that
\* was deleted in between is inserted again.
EditReads(a) ==
    /\ edits < MaxEdits /\ edits' = edits + 1
    /\ row[a].state # "gone" /\ ~form.busy
    /\ form' = [busy |-> TRUE, of |-> a, verdict |-> verdict[a]]
    /\ UNCHANGED <<row, verdict, web, queue, task, keys, faults>>

EditSaves ==
    /\ form.busy /\ form' = NoForm
    /\ verdict' = [verdict EXCEPT ![form.of] = form.verdict]
    /\ \E r \in Row : r.state # "gone" /\ row' = [row EXCEPT ![form.of] = r]
    /\ UNCHANGED <<web, queue, task, keys, bounds>>

Delete(a) ==
    /\ edits < MaxEdits /\ edits' = edits + 1
    /\ row' = [row EXCEPT ![a].state = "gone"]
    /\ UNCHANGED <<verdict, web, form, queue, task, keys, faults>>

WebChanges(u) ==
    /\ edits < MaxEdits /\ edits' = edits + 1
    /\ web' = [web EXCEPT ![u] = ~@]
    /\ UNCHANGED <<row, verdict, form, queue, task, keys, faults>>

OneLess(t) == IF t = 0 THEN 0 ELSE t - 1
Sweeps(w) == task[w].kind = "sweep" /\ task[w].pc # "idle"

\* The kill is never later than Slack; and once the faults are used up the
\* sweeps stay within the limit.
MayAge(w) ==
    Sweeps(w) => task[w].age < IF faults < MaxFaults THEN Hard + Slack ELSE Hard

\* Mutant: the SET has no expiry.
TickKeepsLock ==
    /\ \A w \in Worker : MayAge(w)
    /\ task' = [w \in Worker |->
                  IF Sweeps(w) THEN [task[w] EXCEPT !.age = @ + 1]
                  ELSE task[w]]
    /\ debounce' = [a \in Asset |-> OneLess(debounce[a])]
    /\ cooldown' = [a \in Asset |-> OneLess(cooldown[a])]
    /\ UNCHANGED <<rows, queue, lock, bounds>>

Tick ==
    /\ \A w \in Worker : MayAge(w)
    /\ task' = [w \in Worker |->
                  IF Sweeps(w) THEN [task[w] EXCEPT !.age = @ + 1]
                  ELSE task[w]]
    /\ lock' = [lock EXCEPT !.ttl = OneLess(@)]
    /\ debounce' = [a \in Asset |-> OneLess(debounce[a])]
    /\ cooldown' = [a \in Asset |-> OneLess(cooldown[a])]
    /\ UNCHANGED <<rows, queue, bounds>>

-----------------------------------------------------------------------------
(* The sweep: revalidate_asset_urls(). *)

\* Beat queues a sweep every interval and an interval may be shorter than a
\* sweep, so one may be waiting whenever a worker is idle.
TakeSweep(w) ==
    /\ task[w].pc = "idle"
    /\ task' = [task EXCEPT ![w] = NewTask("sweep", "lock", NoCopy)]
    /\ UNCHANGED <<rows, queue, keys, bounds>>

Acquire(w) ==
    /\ Runs(w, "sweep", "lock")
    /\ IF lock.ttl = 0
       THEN lock' = [by |-> w, ttl |-> Hard] /\ GoTo(w, "read")
       ELSE UNCHANGED lock /\ Ends(w)
    /\ UNCHANGED <<rows, queue, debounce, cooldown, bounds>>

\* Rows are read once; what is probed later is what this query saw.
ReadRows(w) ==
    /\ Runs(w, "sweep", "read")
    /\ task' = [task EXCEPT
                  ![w].pc = "next",
                  ![w].todo = {[of |-> a, way |-> row[a].way] :
                                 a \in {x \in Asset : row[x].state = "on"}}]
    /\ UNCHANGED <<rows, queue, keys, bounds>>

NextRow(w) ==
    /\ Runs(w, "sweep", "next")
    /\ \/ /\ task[w].todo = {}
          /\ GoTo(w, "release")
       \/ \E c \in task[w].todo :
             task' = [task EXCEPT ![w].at = c, ![w].pc = "probe",
                                  ![w].todo = @ \ {c}]
    /\ UNCHANGED <<rows, queue, keys, bounds>>

\* Mutant: the finally block deletes the key without comparing the token.
ReleaseAny(w) ==
    /\ Runs(w, "sweep", "release")
    /\ lock' = [lock EXCEPT !.ttl = 0]
    /\ Ends(w)
    /\ UNCHANGED <<rows, queue, debounce, cooldown, bounds>>

\* _LOCK_RELEASE_LUA: compare and delete.
Release(w) ==
    /\ Runs(w, "sweep", "release")
    /\ lock' = IF lock.by = w THEN [lock EXCEPT !.ttl = 0] ELSE lock
    /\ Ends(w)
    /\ UNCHANGED <<rows, queue, debounce, cooldown, bounds>>

\* SoftTimeLimitExceeded, once per task: inside the try block the sweep goes
\* to its finally block; before it and inside the finally block the task fails
\* and the key, if it is set, is left to expire.
SoftLimit(w) ==
    /\ Sweeps(w) /\ ~task[w].warned /\ task[w].age >= Soft
    /\ Fault
    /\ \/ /\ task[w].pc \in Sweeping \ {"release"}
          /\ task' = [task EXCEPT ![w].pc = "release", ![w].warned = TRUE]
       \/ /\ task[w].pc \in {"lock", "read", "release"}
          /\ Ends(w)
    /\ UNCHANGED <<rows, queue, keys>>

\* The hard limit, or the kernel, kills the child.
Kill(w) ==
    /\ task[w].pc # "idle"
    /\ Fault
    /\ Ends(w)
    /\ UNCHANGED <<rows, queue, keys>>

-----------------------------------------------------------------------------
(* The recheck of one asset. *)

\* asset_loop() finds the asset undisplayable and posts to
\* AssetRecheckViewV2, which queue at most one task per debounce window.  The
\* queue may lose it after the key is set.
ViewerAsks(a) ==
    /\ row[a].state = "on" /\ ~verdict[a]
    /\ debounce[a] = 0
    /\ debounce' = [debounce EXCEPT ![a] = Debounce]
    /\ \/ queue' = queue \cup {a} /\ UNCHANGED bounds
       \/ UNCHANGED queue /\ Fault
    /\ UNCHANGED <<rows, task, lock, cooldown>>

TakeRecheck(w, a) ==
    /\ task[w].pc = "idle" /\ a \in queue
    /\ queue' = queue \ {a}
    /\ task' = [task EXCEPT ![w] = NewTask("recheck", "get",
                                          [NoCopy EXCEPT !.of = a])]
    /\ UNCHANGED <<rows, keys, bounds>>

GetRow(w) ==
    LET a == task[w].at.of IN
    /\ Runs(w, "recheck", "get")
    /\ IF row[a].state = "on"
       THEN task' = [task EXCEPT ![w].pc = "gate", ![w].at.way = row[a].way]
       ELSE Ends(w)
    /\ UNCHANGED <<rows, queue, keys, bounds>>

PassGate(w) ==
    LET a == task[w].at.of IN
    /\ Runs(w, "recheck", "gate")
    /\ IF cooldown[a] = 0
       THEN cooldown' = [cooldown EXCEPT ![a] = Cooldown] /\ GoTo(w, "probe")
       ELSE UNCHANGED cooldown /\ Ends(w)
    /\ UNCHANGED <<rows, queue, lock, debounce, bounds>>

\* In a recheck the soft limit counts as "unreachable" while the probe runs and
\* drops the tick anywhere else.
RecheckLimit(w) ==
    /\ task[w].kind = "recheck" /\ task[w].pc # "idle" /\ ~task[w].warned
    /\ Fault
    /\ IF task[w].pc = "probe"
       THEN task' = [task EXCEPT ![w].pc = "write", ![w].found = FALSE,
                                 ![w].warned = TRUE]
       ELSE Ends(w)
    /\ UNCHANGED <<rows, queue, keys>>

-----------------------------------------------------------------------------
(* What both tasks do with a row. *)

RowDone(w) ==
    task' = [task EXCEPT ![w] =
               IF @.kind = "sweep"
               THEN [@ EXCEPT !.pc = "next", !.at = NoCopy, !.found = FALSE]
               ELSE Idle]

\* _check_asset_reachability() of the row that was read, url_fails() included;
\* or it raises, and the row is passed over.
Probe(w) ==
    LET t == task[w] IN
    /\ t.pc = "probe"
    /\ \/ /\ task' = [task EXCEPT ![w].found = web[t.at.way],
                                  ![w].pc = "write"]
          /\ UNCHANGED bounds
       \/ RowDone(w) /\ Fault
    /\ UNCHANGED <<rows, queue, keys>>

\* The UPDATE names the row by its id only.
Write(w) ==
    LET t == task[w] IN
    /\ t.pc = "write"
    /\ verdict' = IF row[t.at.of].state = "gone" THEN verdict
                  ELSE [verdict EXCEPT ![t.at.of] = t.found]
    /\ RowDone(w)
    /\ UNCHANGED <<row, web, form, queue, keys, bounds>>

Work(w) ==
    \/ Acquire(w) \/ ReadRows(w) \/ NextRow(w) \/ Release(w)
    \/ GetRow(w) \/ PassGate(w) \/ Probe(w) \/ Write(w)

Next ==
    \/ \E a \in Asset : EditReads(a) \/ Delete(a) \/ ViewerAsks(a)
    \/ EditSaves \/ (\E u \in Way : WebChanges(u))
    \/ Tick
    \/ \E w \in Worker :
          \/ TakeSweep(w) \/ (\E a \in Asset : TakeRecheck(w, a))
          \/ Work(w) \/ SoftLimit(w) \/ RecheckLimit(w) \/ Kill(w)

Spec == Init /\ [][Next]_vars

\* Time passes, Celery beat ticks and the viewer comes round to the asset
\* again; a worker that has a task goes on with it, and the queue is served in
\* order, so a waiting task is taken although workers are busy in between.
Fairness ==
    /\ WF_vars(Tick) /\ WF_vars(EditSaves)
    /\ \A a \in Asset : WF_vars(ViewerAsks(a))
    /\ \A w \in Worker : WF_vars(Work(w))
    /\ SF_vars(\E w \in Worker : TakeSweep(w))
    /\ \A a \in Asset : SF_vars(\E w \in Worker : TakeRecheck(w, a))

FairSpec == Spec /\ Fairness

-----------------------------------------------------------------------------
(* Properties *)

InSweep(w) == task[w].kind = "sweep" /\ task[w].pc \in Sweeping

\* Two sweeps never probe side by side while both are within the hard limit:
\* neither an expired lock, nor a killed sweep, nor the finally block of a
\* sweep whose kill is late opens the door to a third one.
NoRivalSweep ==
    \A v, w \in Worker :
        (v # w /\ InSweep(v) /\ InSweep(w))
            => (task[v].age >= Hard \/ task[w].age >= Hard)

\* Whatever was killed while it held the lock, whatever a task wrote of a row
\* that has changed since, and whatever verdict a form put back: once edits and
\* faults end, a row that is checked comes to say what the web says, and keeps
\* saying so.
VerdictSettles ==
    \A a \in Asset :
        <>[](row[a].state = "on" => verdict[a] = web[row[a].way])
=============================================================================

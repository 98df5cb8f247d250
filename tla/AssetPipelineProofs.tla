------------------------ MODULE AssetPipelineProofs ------------------------
(***************************************************************************)
(* What the pipeline promises of the files, for any number of workers,     *)
(* messages and faults, and any age of a sweep or a stuck row.             *)
(*                                                                         *)
(* The argument: as long as no form has saved a row that changed under it, *)
(* a row is created once and never comes back, names the original while it *)
(* is being processed, and so does every task that runs.  While only one   *)
(* task runs at a time, the row stays on "processing" until that task ends *)
(* it: a row ready to play has no task that could touch its file.  The     *)
(* sweep acts on names it read earlier.  It spares a file the row came to  *)
(* name meanwhile only because that file is young: no tick falls within a  *)
(* sweep, or between the encoding of a file and the update of the row.     *)
(***************************************************************************)
EXTENDS AssetPipeline, FiniteSetTheorems, TLAPS

\* A form saves once, so that a history without a stale save has none before.
StaleIsLast == stale => form = Saved

FetchSteps == {"fetch", "fetching", "land", "chain", "restamp", "send", "refetch"}

\* What a task does depends on what the asset needs.
StepsFitKind ==
    \A w \in Worker :
        /\ job[w].pc = "unlink" => kind = "convert"
        /\ job[w].pc = "encoding" => kind \in {"convert", "downscale"}

\* Before there is a row there is the original at most, and nobody at work.
BeforeRow ==
    web \in {"filing", "filed"} =>
        /\ row = NoRow /\ removing = "nothing" /\ form \in {<<>>, Saved}
        /\ \A w \in Worker : ~Busy(w)
        /\ age["original"] = 0
        /\ disk["original"] = IF web = "filed" THEN "whole" ELSE "absent"

\* What a task has written since it opened its file is younger than a tick.
WrittenIsYoung ==
    \A w \in Worker :
        /\ job[w].pc \in {"encoding", "replace"} => age["staging"] = 0
        /\ job[w].pc \in {"unlink", "update"} /\ kind = "convert"
               => age["webp"] = 0

\* The row, and what is known of it elsewhere.
RowIsOriginal ==
    ~stale =>
        /\ removing # "nothing" => ~Exists
        /\ Exists => /\ row.processing => row.uri = "original" /\ ~row.failed
                     /\ row.uri = "webp" => kind = "convert"
        /\ \A w \in Worker : Busy(w) => job[w].seen.uri = "original"

\* What a sweep would remove and the row names is too young for it.
SweepIsLate ==
    ~stale /\ Exists /\ sweep # <<>> => row.uri \in sweep[1] \/ age[row.uri] = 0

OneAtATime ==
    ~overlap => \A v, w \in Worker : Busy(v) /\ Busy(w) => v = w

\* While one task runs at a time.
TaskOwnsRow ==
    Clean => \A w \in Worker : Busy(w) /\ Exists => row.processing

NoHalfFiles ==
    Clean => /\ disk["original"] # "partial"
             /\ \A w \in Worker :
                    job[w].pc = "replace" => disk["staging"] # "partial"

ResultIsThere ==
    Clean /\ Exists =>
        \A w \in Worker : job[w].pc \in {"unlink", "update"}
                              => disk[FinalOf("original")] = "whole"

FailureIsKept ==
    Clean /\ Exists /\ form \notin {<<>>, Saved} => (form[1].failed => row.failed)

IInv ==
    /\ TypeOK
    /\ StaleIsLast /\ StepsFitKind /\ BeforeRow /\ WrittenIsYoung
    /\ RowIsOriginal /\ SweepIsLate /\ OneAtATime
    /\ TaskOwnsRow /\ NoHalfFiles /\ ResultIsThere /\ FailureIsKept
    /\ ReadyRowHasItsFile /\ UploadOutlivesCrashes

-----------------------------------------------------------------------------
Steps ==
    {"open", "encoding", "replace", "unlink", "update", "raise", "retry"}
        \cup FetchSteps
Task == [pc : Steps, seen : Row]

\* A worker is idle or has a task: the two record sets of Job are one.
LEMMA JobIsTask == Job = {Idle} \cup Task
  BY DEF Job, Task, Steps, FetchSteps

\* What it is to be at work, and what only workers at work are at.
LEMMA BusyType ==
  ASSUME TypeOK, NEW w \in Worker
  PROVE  /\ Busy(w) <=> job[w] \in Task
         /\ job[w].pc # "idle" <=> Busy(w)
         /\ ~Busy(w) => job[w].pc = "idle"
  <1>1. job[w] \in {Idle} \cup Task
    BY JobIsTask DEF TypeOK
  <1>2. Idle.pc = "idle" /\ \A x \in Task : x.pc # "idle"
    BY DEF Idle, Task, Steps, FetchSteps
  <1>3. QED
    BY <1>1, <1>2 DEF Busy

\* A row there is, is one of the table.
LEMMA RowType ==
  ASSUME TypeOK
  PROVE  Exists <=> row \in Row
  BY DEF TypeOK, Exists, Row, NoRow

\* A worker goes on with the task it has.
GoesOn(w, pc) ==
    /\ job' \in [Worker -> Job]
    /\ job'[w] \in Task /\ job'[w].pc = pc /\ job'[w].seen = job[w].seen
    /\ \A v \in Worker \ {w} : job'[v] = job[v]

LEMMA GotoType ==
  ASSUME TypeOK, NEW w \in Worker, job[w].pc \in Steps, NEW pc \in Steps,
         Goto(w, pc)
  PROVE  GoesOn(w, pc)
  <1>1. job[w] \in Task /\ job \in [Worker -> Job]
    BY BusyType DEF TypeOK, Steps, FetchSteps
  <1>2. [job[w] EXCEPT !.pc = pc] \in Task
    BY <1>1 DEF Task
  <1>3. job' = [job EXCEPT ![w] = [job[w] EXCEPT !.pc = pc]]
    BY DEF Goto
  <1>4. [job[w] EXCEPT !.pc = pc].pc = pc
            /\ [job[w] EXCEPT !.pc = pc].seen = job[w].seen
    BY <1>1 DEF Task
  <1>5. QED
    BY <1>1, <1>2, <1>3, <1>4, JobIsTask DEF GoesOn

\* A worker is given a task or left idle.
LEMMA GivenType ==
  ASSUME TypeOK, NEW w \in Worker, NEW x \in {Idle} \cup Task,
         job' = [job EXCEPT ![w] = x]
  PROVE  /\ job' \in [Worker -> Job] /\ job'[w] = x
         /\ \A v \in Worker \ {w} : job'[v] = job[v]
  BY JobIsTask DEF TypeOK

-----------------------------------------------------------------------------
\* What the operators on files, messages and rows keep.
Content == {"absent", "partial", "whole"}

LEMMA WriteType ==
  ASSUME TypeOK, NEW f \in File, NEW c \in Content, Write(f, c)
  PROVE  /\ disk' \in [File -> Content] /\ age' \in [File -> 0..SweepAge]
         /\ disk'[f] = c /\ age'[f] = 0
         /\ \A g \in File \ {f} : disk'[g] = disk[g] /\ age'[g] = age[g]
  <1>1. 0 \in 0..SweepAge
    BY PipelineAssumption
  <1>2. QED
    BY <1>1 DEF TypeOK, Write, Content

LEMMA RemoveType ==
  ASSUME TypeOK, NEW fs, Remove(fs)
  PROVE  /\ disk' \in [File -> Content] /\ age' \in [File -> 0..SweepAge]
         /\ \A g \in File : IF g \in fs THEN disk'[g] = "absent" /\ age'[g] = 0
                            ELSE disk'[g] = disk[g] /\ age'[g] = age[g]
  <1>1. 0 \in 0..SweepAge
    BY PipelineAssumption
  <1>2. QED
    BY <1>1 DEF TypeOK, Remove, Content

LEMMA EnqueueType ==
  ASSUME TypeOK, Enqueue
  PROVE  queued' \in 0..MaxQueue /\ fetching' \in BOOLEAN
  BY PipelineAssumption DEF TypeOK, Enqueue

LEMMA StampType ==
  ASSUME TypeOK, StampRow
  PROVE  /\ row' \in {NoRow} \cup Row
         /\ Exists' <=> Exists
         /\ Exists => /\ row'.uri = row.uri /\ row'.processing = row.processing
                      /\ row'.failed = row.failed
  <1>1. CASE Exists
    <2>1. row \in Row
      BY <1>1, RowType
    <2>2. row' = [row EXCEPT !.stamp = 0]
      BY <1>1 DEF StampRow, UpdateRow
    <2>3. 0 \in {Unstamped} \cup 0..Threshold
      BY PipelineAssumption
    <2>4. row' \in Row
      BY <2>1, <2>2, <2>3 DEF Row
    <2>5. row'.uri = row.uri /\ row'.processing = row.processing /\ row'.failed = row.failed
      BY <2>1, <2>2 DEF Row
    <2>6. QED
      BY <1>1, <2>4, <2>5 DEF Exists, NoRow, Row
  <1>2. CASE ~Exists
    BY <1>2 DEF Exists, StampRow, UpdateRow
  <1>3. QED
    BY <1>1, <1>2

LEMMA UploadType ==
  ASSUME TypeOK, Upload \/ UploadDies
  PROVE  TypeOK'
  <1> USE DEF files, tasks, requests, beat
  <1>1. CASE StoreFile
    BY <1>1, WriteType DEF StoreFile, TypeOK, File, Content
  <1>2. CASE CreateRow
    BY <1>2 DEF CreateRow, TypeOK, Row, Unstamped
  <1>3. CASE StampUpload
    BY <1>3, StampType DEF StampUpload, TypeOK
  <1>4. CASE SendUpload
    BY <1>4, EnqueueType DEF SendUpload, TypeOK
  <1>5. CASE UploadDies
    BY <1>5, PipelineAssumption DEF UploadDies, Fault, TypeOK
  <1>6. QED
    BY <1>1, <1>2, <1>3, <1>4, <1>5 DEF Upload

LEMMA RequestType ==
  ASSUME TypeOK, DeleteRow \/ DeleteFile \/ DeleteDies \/ FormRead \/ FormSave
  PROVE  TypeOK'
  <1> USE DEF files, tasks, requests, beat
  <1>1. CASE DeleteRow
    BY <1>1, RowType DEF DeleteRow, TypeOK, Row, File
  <1>2. CASE DeleteFile
    BY <1>2, RemoveType DEF DeleteFile, TypeOK, Content
  <1>3. CASE DeleteDies
    BY <1>3, PipelineAssumption DEF DeleteDies, Fault, TypeOK
  <1>4. CASE FormRead
    BY <1>4, RowType DEF FormRead, TypeOK
  <1>5. CASE FormSave
    BY <1>5 DEF FormSave, TypeOK
  <1>6. QED
    BY <1>1, <1>2, <1>3, <1>4, <1>5

\* A worker takes a message: it is given the row, or drops the message.
Takes(w, pc) ==
    job' = IF Exists /\ row.processing
           THEN [job EXCEPT ![w] = [pc |-> pc, seen |-> row]] ELSE job

LEMMA TakesType ==
  ASSUME TypeOK, NEW w \in Worker, ~Busy(w), NEW pc \in {"open", "fetch"},
         Takes(w, pc)
  PROVE  /\ job' \in [Worker -> Job]
         /\ \A v \in Worker \ {w} : job'[v] = job[v]
         /\ \/ /\ Exists /\ row.processing
               /\ job'[w] \in Task /\ job'[w].pc = pc /\ job'[w].seen = row
            \/ job' = job
  <1>1. CASE Exists /\ row.processing
    <2>1. [pc |-> pc, seen |-> row] \in Task
      BY <1>1, RowType DEF Task, Steps, FetchSteps
    <2>2. job' = [job EXCEPT ![w] = [pc |-> pc, seen |-> row]]
      BY <1>1 DEF Takes
    <2>3. QED
      BY <1>1, <2>1, <2>2, GivenType
  <1>2. CASE ~(Exists /\ row.processing)
    BY <1>2 DEF Takes, TypeOK
  <1>3. QED
    BY <1>1, <1>2

\* The row after an update of its outcome.
LEMMA UpdateType ==
  ASSUME TypeOK, NEW new \in Row, UpdateRow(new)
  PROVE  /\ row' \in {NoRow} \cup Row
         /\ Exists' <=> Exists
         /\ Exists => row' = new
         /\ ~Exists => row' = row
  BY DEF UpdateRow, Exists, NoRow, Row

\* Steps of the workers leave the requests and the beat alone.
WorkerFrame == <<kind, web, removing, form, recon, sweep, stale>>

\* What a step of a worker has to show for its types.
LEMMA WorkerStepType ==
  ASSUME TypeOK, UNCHANGED WorkerFrame,
         row' \in {NoRow} \cup Row,
         disk' \in [File -> {"absent", "partial", "whole"}],
         age' \in [File -> 0..SweepAge],
         queued' \in 0..MaxQueue, fetching' \in BOOLEAN,
         job' \in [Worker -> Job], faults' \in 0..MaxFaults,
         overlap' \in BOOLEAN
  PROVE  TypeOK'
  <1>1. /\ kind' \in Kinds
        /\ web' \in {"filing", "filed", "created", "stamped", "done"}
        /\ removing' \in {"nothing"} \cup File
    BY DEF TypeOK, WorkerFrame
  <1>2. /\ form' \in {<<>>, Saved} \cup {<<r>> : r \in Row}
        /\ recon' \in {"idle", "mark", "stamp", "send"}
        /\ sweep' \in {<<>>} \cup {<<s>> : s \in SUBSET File}
        /\ stale' \in BOOLEAN
    BY DEF TypeOK, WorkerFrame
  <1>3. QED
    BY <1>1, <1>2 DEF TypeOK

LEMMA OpenStep ==
  ASSUME TypeOK, NEW w \in Worker, Open(w)
  PROVE  /\ TypeOK' /\ UNCHANGED <<WorkerFrame, row, overlap>>
         /\ job[w] \in Task /\ job[w].pc = "open"
         /\ \/ GoesOn(w, "raise") /\ UNCHANGED files
            \/ /\ GoesOn(w, "update") /\ UNCHANGED files
               /\ kind \in {"probe", "download"}
               /\ disk[job[w].seen.uri] # "absent"
            \/ /\ GoesOn(w, "encoding") /\ kind \in {"convert", "downscale"}
               /\ Write("staging", "partial")
  <1> USE DEF files, tasks, requests, beat, WorkerFrame
  <1>1. job[w] \in Task /\ job[w].pc \in Steps
    BY BusyType DEF Open, Steps
  <1>2. CASE Goto(w, "raise") /\ UNCHANGED files
    <2>1. GoesOn(w, "raise")
      BY <1>1, <1>2, GotoType DEF Steps
    <2>2. QED
      BY <1>1, <1>2, <2>1 DEF Open, GoesOn, TypeOK
  <1>3. CASE /\ Goto(w, "update") /\ UNCHANGED files
             /\ kind \in {"probe", "download"}
             /\ disk[job[w].seen.uri] # "absent"
    <2>1. GoesOn(w, "update")
      BY <1>1, <1>3, GotoType DEF Steps
    <2>2. QED
      BY <1>1, <1>3, <2>1 DEF Open, GoesOn, TypeOK
  <1>4. CASE /\ Goto(w, "encoding") /\ Write("staging", "partial")
             /\ kind \notin {"probe", "download"}
    <2>1. GoesOn(w, "encoding")
      BY <1>1, <1>4, GotoType DEF Steps
    <2>2. disk' \in [File -> Content] /\ age' \in [File -> 0..SweepAge]
      BY <1>4, WriteType DEF File, Content
    <2>3. kind \in {"convert", "downscale"}
      BY <1>4, PipelineAssumption DEF TypeOK
    <2>4. QED
      BY <1>1, <1>4, <2>1, <2>2, <2>3 DEF Open, GoesOn, TypeOK, Content
  <1>5. QED
    BY <1>2, <1>3, <1>4 DEF Open

LEMMA EncodeEndsStep ==
  ASSUME TypeOK, NEW w \in Worker, EncodeEnds(w)
  PROVE  /\ TypeOK' /\ UNCHANGED <<WorkerFrame, row, overlap>>
         /\ job[w] \in Task /\ job[w].pc = "encoding" /\ GoesOn(w, "replace")
         /\ \/ disk["staging"] = "absent" /\ Write(FinalOf(job[w].seen.uri), "whole")
            \/ disk["staging"] # "absent" /\ Write("staging", "whole")
  <1> USE DEF files, tasks, requests, beat, WorkerFrame
  <1>1. job[w] \in Task /\ job[w].pc \in Steps
    BY BusyType DEF EncodeEnds, Steps
  <1>2. GoesOn(w, "replace")
    BY <1>1, GotoType DEF EncodeEnds, Steps
  <1>3. FinalOf(job[w].seen.uri) \in File
    BY <1>1 DEF FinalOf, Task, Row, File
  <1>4. disk' \in [File -> Content] /\ age' \in [File -> 0..SweepAge]
    BY <1>3, WriteType DEF EncodeEnds, File, Content
  <1>5. QED
    BY <1>1, <1>2, <1>4 DEF EncodeEnds, GoesOn, TypeOK, Content

\* A file takes the place of another.
Moves(from, to) ==
    /\ disk' = [disk EXCEPT ![to] = disk[from], ![from] = "absent"]
    /\ age' = [age EXCEPT ![to] = age[from], ![from] = 0]

LEMMA MovesType ==
  ASSUME TypeOK, NEW from \in File, NEW to \in File \ {from}, Moves(from, to)
  PROVE  /\ disk' \in [File -> Content] /\ age' \in [File -> 0..SweepAge]
         /\ disk'[to] = disk[from] /\ age'[to] = age[from]
         /\ disk'[from] = "absent" /\ age'[from] = 0
         /\ \A g \in File \ {from, to} : disk'[g] = disk[g] /\ age'[g] = age[g]
  <1>1. 0 \in 0..SweepAge
    BY PipelineAssumption
  <1>2. QED
    BY <1>1 DEF TypeOK, Moves, Content

LEMMA ReplaceStep ==
  ASSUME TypeOK, NEW w \in Worker, Replace(w)
  PROVE  /\ TypeOK' /\ UNCHANGED <<WorkerFrame, row, overlap>>
         /\ job[w] \in Task /\ job[w].pc = "replace"
         /\ \/ GoesOn(w, "raise") /\ UNCHANGED files
            \/ /\ disk["staging"] # "absent"
               /\ Moves("staging", FinalOf(job[w].seen.uri))
               /\ \/ /\ GoesOn(w, "update")
                     /\ FinalOf(job[w].seen.uri) = job[w].seen.uri
                  \/ GoesOn(w, "unlink") /\ kind = "convert"
  <1> USE DEF files, tasks, requests, beat, WorkerFrame
  <1>1. job[w] \in Task /\ job[w].pc \in Steps
    BY BusyType DEF Replace, Steps
  <1>2. CASE Goto(w, "raise") /\ UNCHANGED files
    <2>1. GoesOn(w, "raise")
      BY <1>1, <1>2, GotoType DEF Steps
    <2>2. QED
      BY <1>1, <1>2, <2>1 DEF Replace, GoesOn, TypeOK
  <1>3. CASE /\ disk["staging"] # "absent"
             /\ Goto(w, IF FinalOf(job[w].seen.uri) = job[w].seen.uri
                        THEN "update" ELSE "unlink")
             /\ Moves("staging", FinalOf(job[w].seen.uri))
    <2>1. FinalOf(job[w].seen.uri) \in File \ {"staging"}
      BY <1>1 DEF FinalOf, Task, Row, File
    <2>2. disk' \in [File -> Content] /\ age' \in [File -> 0..SweepAge]
      BY <1>3, <2>1, MovesType DEF File
    <2>3. CASE FinalOf(job[w].seen.uri) = job[w].seen.uri
      <3>1. GoesOn(w, "update")
        BY <1>1, <1>3, <2>3, GotoType DEF Steps
      <3>2. QED
        BY <1>1, <1>3, <2>2, <2>3, <3>1 DEF Replace, GoesOn, TypeOK, Content
    <2>4. CASE FinalOf(job[w].seen.uri) # job[w].seen.uri
      <3>1. GoesOn(w, "unlink")
        BY <1>1, <1>3, <2>4, GotoType DEF Steps
      <3>2. kind = "convert"
        BY <2>4 DEF FinalOf
      <3>3. QED
        BY <1>1, <1>3, <2>2, <3>1, <3>2 DEF Replace, GoesOn, TypeOK, Content
    <2>5. QED
      BY <2>3, <2>4
  <1>4. QED
    BY <1>2, <1>3 DEF Replace, Moves

LEMMA UnlinkStep ==
  ASSUME TypeOK, NEW w \in Worker, Unlink(w)
  PROVE  /\ TypeOK' /\ UNCHANGED <<WorkerFrame, row, overlap>>
         /\ job[w] \in Task /\ job[w].pc = "unlink" /\ GoesOn(w, "update")
         /\ Remove({job[w].seen.uri})
  <1> USE DEF files, tasks, requests, beat, WorkerFrame
  <1>1. job[w] \in Task /\ job[w].pc \in Steps
    BY BusyType DEF Unlink, Steps
  <1>2. GoesOn(w, "update")
    BY <1>1, GotoType DEF Unlink, Steps
  <1>3. disk' \in [File -> Content] /\ age' \in [File -> 0..SweepAge]
    BY RemoveType DEF Unlink
  <1>4. QED
    BY <1>1, <1>2, <1>3 DEF Unlink, GoesOn, TypeOK, Content

\* A worker is done with its task.
Ends(w) ==
    /\ job' \in [Worker -> Job] /\ job'[w] = Idle
    /\ \A v \in Worker \ {w} : job'[v] = job[v]

LEMMA UpdateStep ==
  ASSUME TypeOK, NEW w \in Worker, Update(w)
  PROVE  /\ TypeOK' /\ UNCHANGED <<WorkerFrame, files, overlap>>
         /\ job[w] \in Task /\ job[w].pc = "update" /\ Ends(w)
         /\ IF Exists THEN /\ row' \in Row
                           /\ row'.uri = FinalOf(job[w].seen.uri)
                           /\ ~row'.processing /\ ~row'.failed
            ELSE row' = NoRow
  <1> USE DEF files, tasks, requests, beat, WorkerFrame
  <1>1. job[w] \in Task /\ job[w].pc \in Steps
    BY BusyType DEF Update, Steps
  <1>2. Ends(w)
    BY GivenType DEF Update, Ends
  <1>3. CASE Exists
    <2>1. row \in Row /\ job[w].seen \in Row
      BY <1>1, <1>3, RowType DEF Task
    <2>2. row' = [row EXCEPT !.uri = FinalOf(job[w].seen.uri),
                             !.processing = FALSE, !.failed = FALSE,
                             !.stamp = job[w].seen.stamp]
      BY <1>3 DEF Update, UpdateRow
    <2>3. FinalOf(job[w].seen.uri) \in {"original", "webp"}
      BY <2>1 DEF FinalOf, Row
    <2>4. /\ row' \in Row /\ row'.uri = FinalOf(job[w].seen.uri)
          /\ ~row'.processing /\ ~row'.failed
      BY <2>1, <2>2, <2>3 DEF Row
    <2>5. QED
      BY <1>1, <1>2, <1>3, <2>4 DEF Update, Ends, TypeOK
  <1>4. CASE ~Exists
    BY <1>1, <1>2, <1>4 DEF Update, UpdateRow, Ends, TypeOK
  <1>5. QED
    BY <1>3, <1>4

LEMMA TakeStep ==
  ASSUME TypeOK, NEW w \in Worker, Take(w) \/ TakeFetch(w)
  PROVE  /\ TypeOK' /\ UNCHANGED <<WorkerFrame, row, files>>
         /\ ~Busy(w) /\ \A v \in Worker \ {w} : job'[v] = job[v]
         /\ overlap' = (overlap \/ Cardinality({v \in Worker : job'[v] # Idle}) > 1)
         /\ \/ /\ Exists /\ row.processing
               /\ job'[w] \in Task /\ job'[w].pc \in {"open", "fetch"}
               /\ job'[w].seen = row
            \/ job' = job
  <1> USE DEF files, tasks, requests, beat, WorkerFrame
  <1>0. overlap' \in BOOLEAN /\ faults' \in 0..MaxFaults
    BY DEF Take, TakeFetch, TypeOK
  <1>1. CASE Take(w)
    <2>1. Takes(w, "open") /\ ~Busy(w)
      BY <1>1 DEF Take, Takes
    <2>2. queued' \in 0..MaxQueue
      <3>1. MaxQueue \in Nat /\ queued \in 0..MaxQueue
        BY PipelineAssumption DEF TypeOK
      <3>2. queued > 0 /\ queued' = queued - 1
        BY <1>1 DEF Take
      <3>3. QED
        BY <3>1, <3>2
    <2>3. UNCHANGED <<WorkerFrame, row, files, fetching>>
      BY <1>1 DEF Take
    <2>4. TypeOK'
      <3>1. /\ row' \in {NoRow} \cup Row /\ fetching' \in BOOLEAN
            /\ disk' \in [File -> {"absent", "partial", "whole"}]
            /\ age' \in [File -> 0..SweepAge]
        BY <2>3 DEF TypeOK
      <3>2. job' \in [Worker -> Job]
        BY <2>1, TakesType
      <3>3. QED
        BY <1>0, <2>2, <2>3, <3>1, <3>2, WorkerStepType
    <2>5. overlap' = (overlap \/ Cardinality({v \in Worker : job'[v] # Idle}) > 1)
      BY <1>1 DEF Take
    <2>6. QED
      BY <2>1, <2>3, <2>4, <2>5, TakesType
  <1>2. CASE TakeFetch(w)
    <2>1. Takes(w, "fetch") /\ ~Busy(w)
      BY <1>2 DEF TakeFetch, Takes
    <2>2. UNCHANGED <<WorkerFrame, row, files, queued>> /\ fetching' = FALSE
      BY <1>2 DEF TakeFetch
    <2>3. TypeOK'
      <3>1. /\ row' \in {NoRow} \cup Row /\ queued' \in 0..MaxQueue
            /\ disk' \in [File -> {"absent", "partial", "whole"}]
            /\ age' \in [File -> 0..SweepAge]
        BY <2>2 DEF TypeOK
      <3>2. job' \in [Worker -> Job]
        BY <2>1, TakesType
      <3>3. QED
        BY <1>0, <2>2, <3>1, <3>2, WorkerStepType
    <2>4. overlap' = (overlap \/ Cardinality({v \in Worker : job'[v] # Idle}) > 1)
      BY <1>2 DEF TakeFetch
    <2>5. QED
      BY <2>1, <2>2, <2>3, <2>4, TakesType
  <1>3. QED
    BY <1>1, <1>2

\* A download writes its staging file.
LEMMA FetchStep ==
  ASSUME TypeOK, NEW w \in Worker, FetchBegins(w) \/ FetchEnds(w)
  PROVE  /\ TypeOK' /\ UNCHANGED <<WorkerFrame, row, overlap>>
         /\ job[w] \in Task
         /\ \E pc \in {"fetching", "land"} : GoesOn(w, pc)
         /\ \E c \in Content : Write("staging", c)
  <1> USE DEF files, tasks, requests, beat, WorkerFrame
  <1>1. job[w] \in Task /\ job[w].pc \in Steps
    BY BusyType DEF FetchBegins, FetchEnds, Steps, FetchSteps
  <1>2. PICK pc \in {"fetching", "land"} : GoesOn(w, pc)
    BY <1>1, GotoType DEF FetchBegins, FetchEnds, Steps, FetchSteps
  <1>3. PICK c \in Content : Write("staging", c)
    BY DEF FetchBegins, FetchEnds, Content
  <1>4. disk' \in [File -> Content] /\ age' \in [File -> 0..SweepAge]
    BY <1>3, WriteType DEF File
  <1>5. QED
    BY <1>1, <1>2, <1>3, <1>4
    DEF FetchBegins, FetchEnds, GoesOn, TypeOK, Content

LEMMA LandStep ==
  ASSUME TypeOK, NEW w \in Worker, Land(w)
  PROVE  /\ TypeOK' /\ UNCHANGED <<WorkerFrame, row, overlap>>
         /\ job[w] \in Task /\ job[w].pc = "land" /\ GoesOn(w, "chain")
         /\ disk'["original"] = "whole" /\ age'["original"] = 0
         /\ disk'["staging"] = "absent" /\ age'["staging"] = 0
         /\ disk'["webp"] = disk["webp"] /\ age'["webp"] = age["webp"]
  <1> USE DEF files, tasks, requests, beat, WorkerFrame
  <1>1. job[w] \in Task /\ job[w].pc \in Steps
    BY BusyType DEF Land, Steps, FetchSteps
  <1>2. GoesOn(w, "chain")
    BY <1>1, GotoType DEF Land, Steps, FetchSteps
  <1>3. 0 \in 0..SweepAge
    BY PipelineAssumption
  <1>4. /\ disk' \in [File -> {"absent", "partial", "whole"}]
        /\ age' \in [File -> 0..SweepAge]
        /\ disk'["original"] = "whole" /\ age'["original"] = 0
        /\ disk'["staging"] = "absent" /\ age'["staging"] = 0
        /\ disk'["webp"] = disk["webp"] /\ age'["webp"] = age["webp"]
    BY <1>3 DEF Land, TypeOK, File
  <1>5. TypeOK'
    <2>1. UNCHANGED <<WorkerFrame, row, queued, fetching, faults, overlap>>
      BY DEF Land
    <2>2. /\ row' \in {NoRow} \cup Row /\ queued' \in 0..MaxQueue
          /\ fetching' \in BOOLEAN /\ faults' \in 0..MaxFaults
          /\ overlap' \in BOOLEAN
      BY <2>1 DEF TypeOK
    <2>3. job' \in [Worker -> Job]
      BY <1>2 DEF GoesOn
    <2>4. QED
      BY <1>4, <2>1, <2>2, <2>3, WorkerStepType
  <1>6. QED
    BY <1>1, <1>2, <1>4, <1>5 DEF Land

\* The two updates of a download leave its row as it is but for the stamp.
LEMMA ChainStep ==
  ASSUME TypeOK, NEW w \in Worker, Chain(w) \/ Restamp(w)
  PROVE  /\ TypeOK' /\ UNCHANGED <<WorkerFrame, files, overlap>>
         /\ job[w] \in Task
         /\ \E pc \in {"restamp", "send"} : GoesOn(w, pc)
         /\ Exists' <=> Exists
         /\ Exists => /\ row'.uri = row.uri /\ row'.processing = row.processing
                      /\ row'.failed => row.failed
                      /\ job[w].pc = "restamp" => row'.failed = row.failed
  <1> USE DEF files, tasks, requests, beat, WorkerFrame
  <1>1. job[w] \in Task /\ job[w].pc \in Steps
    BY BusyType DEF Chain, Restamp, Steps, FetchSteps
  <1>2. CASE Chain(w)
    <2>1. GoesOn(w, "restamp")
      BY <1>1, <1>2, GotoType DEF Chain, Steps, FetchSteps
    <2>2. CASE Exists
      <3>1. row \in Row /\ job[w].seen \in Row
        BY <1>1, <2>2, RowType DEF Task
      <3>2. row' = [row EXCEPT !.failed = FALSE, !.stamp = job[w].seen.stamp]
        BY <1>2, <2>2 DEF Chain, UpdateRow
      <3>3. /\ row' \in Row /\ row'.uri = row.uri
            /\ row'.processing = row.processing /\ ~row'.failed
        BY <3>1, <3>2 DEF Row
      <3>4. Exists'
        BY <3>3 DEF Exists, NoRow, Row
      <3>5. QED
        BY <1>1, <1>2, <2>1, <2>2, <3>3, <3>4 DEF Chain, GoesOn, TypeOK
    <2>3. CASE ~Exists
      BY <1>1, <1>2, <2>1, <2>3 DEF Chain, UpdateRow, Exists, GoesOn, TypeOK
    <2>4. QED
      BY <2>2, <2>3
  <1>3. CASE Restamp(w)
    <2>1. GoesOn(w, "send")
      BY <1>1, <1>3, GotoType DEF Restamp, Steps, FetchSteps
    <2>2. QED
      BY <1>1, <1>3, <2>1, StampType DEF Restamp, GoesOn, TypeOK
  <1>4. QED
    BY <1>2, <1>3

\* A task ends, or is ended, without touching the row or the files.
LEMMA EndsStep ==
  ASSUME TypeOK, NEW w \in Worker, SendChained(w) \/ Refetches(w) \/ Killed(w)
  PROVE  /\ TypeOK' /\ UNCHANGED <<WorkerFrame, row, files, overlap>>
         /\ job[w] \in Task /\ Ends(w)
  <1> USE DEF files, tasks, requests, beat, WorkerFrame
  <1>1. job[w] \in Task
    BY BusyType DEF SendChained, Refetches, Killed
  <1>2. Ends(w)
    BY GivenType DEF SendChained, Refetches, Killed, Ends
  <1>3. faults' \in 0..MaxFaults
    BY PipelineAssumption DEF SendChained, Refetches, Killed, Fault, TypeOK
  <1>4. queued' \in 0..MaxQueue /\ fetching' \in BOOLEAN
    BY EnqueueType DEF SendChained, Refetches, Killed, TypeOK
  <1>5. UNCHANGED <<WorkerFrame, row, files, overlap>>
    BY DEF SendChained, Refetches, Killed, Fault
  <1>6. QED
    BY <1>1, <1>2, <1>3, <1>4, <1>5 DEF Ends, TypeOK

LEMMA RaisesStep ==
  ASSUME TypeOK, NEW w \in Worker, Raises(w)
  PROVE  /\ TypeOK' /\ UNCHANGED <<WorkerFrame, files, overlap>>
         /\ job[w] \in Task /\ Ends(w)
         /\ \/ row' = row
            \/ /\ Exists /\ row' \in Row /\ row'.uri = row.uri
               /\ ~row'.processing /\ row'.failed
  <1> USE DEF files, tasks, requests, beat, WorkerFrame
  <1>1. job[w] \in Task
    BY BusyType DEF Raises
  <1>2. Ends(w)
    BY GivenType DEF Raises, Ends
  <1>3. queued' \in 0..MaxQueue /\ fetching' \in BOOLEAN
    BY EnqueueType DEF Raises, TypeOK
  <1>4. \/ row' = row
        \/ /\ Exists /\ row' \in Row /\ row'.uri = row.uri
           /\ ~row'.processing /\ row'.failed
    <2>1. CASE row' # row
      <3>1. UpdateRow([row EXCEPT !.processing = FALSE, !.failed = TRUE])
        BY <2>1 DEF Raises
      <3>2. Exists /\ row' = [row EXCEPT !.processing = FALSE, !.failed = TRUE]
        BY <2>1, <3>1 DEF UpdateRow, Exists
      <3>3. row \in Row
        BY <3>2, RowType
      <3>4. row' \in Row /\ row'.uri = row.uri /\ ~row'.processing /\ row'.failed
        BY <3>2, <3>3 DEF Row
      <3>5. QED
        BY <3>2, <3>4
    <2>2. QED
      BY <2>1
  <1>5. QED
    BY <1>1, <1>2, <1>3, <1>4 DEF Raises, Ends, TypeOK

LEMMA FailsStep ==
  ASSUME TypeOK, NEW w \in Worker, Fails(w)
  PROVE  /\ TypeOK' /\ UNCHANGED <<WorkerFrame, row, overlap>>
         /\ job[w] \in Task
         /\ \E pc \in {"raise", "retry", "refetch"} : GoesOn(w, pc)
         /\ UNCHANGED files \/ Remove({"staging"})
  <1> USE DEF files, tasks, requests, beat, WorkerFrame
  <1>1. job[w] \in Task /\ job[w].pc \in Steps
    BY BusyType DEF Fails, Steps, FetchSteps
  <1>2. PICK pc \in {"raise", "retry", "refetch"} : Goto(w, pc)
    BY DEF Fails
  <1>3. GoesOn(w, pc)
    BY <1>1, <1>2, GotoType DEF Steps, FetchSteps
  <1>4. UNCHANGED files \/ Remove({"staging"})
    BY DEF Fails
  <1>5. disk' \in [File -> Content] /\ age' \in [File -> 0..SweepAge]
    BY <1>4, RemoveType DEF TypeOK, Content
  <1>6. faults' \in 0..MaxFaults
    BY PipelineAssumption DEF Fails, Fault, TypeOK
  <1>7. QED
    BY <1>1, <1>3, <1>4, <1>5, <1>6 DEF Fails, Fault, GoesOn, TypeOK, Content

LEMMA BeatType ==
  ASSUME TypeOK, Reconcile \/ ReconcileDies \/ Sweep \/ Tick
  PROVE  TypeOK'
  <1> USE DEF files, tasks, requests, beat
  <1>1. CASE ReconcileReads
    BY <1>1 DEF ReconcileReads, TypeOK
  <1>2. CASE ReconcileStamps
    BY <1>2, StampType DEF ReconcileStamps, TypeOK
  <1>3. CASE ReconcileSends
    BY <1>3, EnqueueType DEF ReconcileSends, TypeOK
  <1>4. CASE ReconcileDies
    BY <1>4, PipelineAssumption DEF ReconcileDies, Fault, TypeOK
  <1>5. CASE SweepReads
    <2>1. (IF Exists THEN {row.uri} ELSE {}) \in SUBSET File
      BY RowType DEF Row, File
    <2>2. sweep' \in {<<s>> : s \in SUBSET File}
      BY <1>5, <2>1 DEF SweepReads
    <2>3. disk' \in [File -> Content] /\ age' \in [File -> 0..SweepAge]
      BY <1>5, RemoveType DEF SweepReads
    <2>4. UNCHANGED <<kind, row, queued, fetching, job, web, removing, form,
                      recon, faults, stale, overlap>>
      BY <1>5 DEF SweepReads
    <2>5. sweep' \in {<<>>} \cup {<<s>> : s \in SUBSET File}
      BY <2>2
    <2>6. QED
      BY <2>3, <2>4, <2>5 DEF TypeOK, Content
  <1>6. CASE SweepRemoves
    BY <1>6, RemoveType DEF SweepRemoves, TypeOK, Content
  <1>7. CASE Tick
    <2>1. age' \in [File -> 0..SweepAge]
      BY <1>7, PipelineAssumption DEF Tick, TypeOK
    <2>2. row' \in {NoRow} \cup Row
      <3>1. CASE Exists /\ row.stamp \in 0..(Threshold - 1)
        <4>1. row \in Row /\ row.stamp + 1 \in 0..Threshold
          BY <3>1, RowType, PipelineAssumption
        <4>2. row' = [row EXCEPT !.stamp = row.stamp + 1]
          BY <1>7, <3>1 DEF Tick
        <4>3. QED
          BY <4>1, <4>2 DEF Row
      <3>2. QED
        BY <1>7, <3>1 DEF Tick, TypeOK
    <2>3. QED
      BY <1>7, <2>1, <2>2 DEF Tick, TypeOK
  <1>8. QED
    BY <1>1, <1>2, <1>3, <1>4, <1>5, <1>6, <1>7 DEF Reconcile, Sweep

-----------------------------------------------------------------------------
LEMMA InitIInv == Init => IInv
  <1> SUFFICES ASSUME Init PROVE IInv
    OBVIOUS
  <1>1. 0 \in 0..SweepAge /\ 0 \in 0..MaxQueue /\ 0 \in 0..MaxFaults
    BY PipelineAssumption DEF Init
  <1>2. TypeOK
    BY <1>1 DEF Init, TypeOK, Job
  <1>3. \A w \in Worker : ~Busy(w) /\ job[w].pc = "idle"
    BY DEF Init, Busy, Idle
  <1>4. BeforeRow
    BY <1>3 DEF Init, BeforeRow, File
  <1>5. ~Exists /\ ~Ready
    BY DEF Init, Exists, Ready
  <1>6. StaleIsLast /\ StepsFitKind /\ WrittenIsYoung
    BY <1>3 DEF Init, StaleIsLast, StepsFitKind, WrittenIsYoung
  <1>7. RowIsOriginal /\ SweepIsLate
    BY <1>3, <1>5 DEF Init, RowIsOriginal, SweepIsLate
  <1>8. OneAtATime /\ TaskOwnsRow /\ ResultIsThere /\ FailureIsKept
    BY <1>3, <1>5 DEF OneAtATime, TaskOwnsRow, ResultIsThere, FailureIsKept
  <1>9. NoHalfFiles
    BY <1>3 DEF Init, NoHalfFiles, File
  <1>10. ReadyRowHasItsFile /\ UploadOutlivesCrashes
    BY <1>5 DEF ReadyRowHasItsFile, UploadOutlivesCrashes
  <1>11. QED
    BY <1>2, <1>4, <1>6, <1>7, <1>8, <1>9, <1>10 DEF IInv

-----------------------------------------------------------------------------
\* A worker that has a task goes on with it or ends it.
Works(w) ==
    /\ UNCHANGED <<WorkerFrame, overlap>>
    /\ job[w] \in Task
    /\ (\E pc \in Steps : GoesOn(w, pc)) \/ Ends(w)

\* There was a row, and as long as one task runs at a time it is this one.
LEMMA WorksAlone ==
  ASSUME IInv, TypeOK', NEW w \in Worker, Works(w)
  PROVE  /\ StaleIsLast' /\ BeforeRow' /\ OneAtATime'
         /\ Clean' <=> Clean
         /\ Busy(w) /\ job[w].pc # "idle"
         /\ \A v \in Worker \ {w} : job'[v] = job[v] /\ (Busy(v)' <=> Busy(v))
         /\ \A v \in Worker : job'[v].pc # "idle" => Busy(v)'
         /\ Clean => \A v \in Worker : Busy(v)' => v = w
         /\ ~stale => /\ job[w].seen.uri = "original"
                      /\ \A v \in Worker : Busy(v)' => job'[v].seen.uri = "original"
  <1> USE DEF WorkerFrame
  <1>0. TypeOK
    BY DEF IInv
  <1>1. \A v \in Worker \ {w} : job'[v] = job[v] /\ (Busy(v)' <=> Busy(v))
    BY DEF Works, GoesOn, Ends, Busy
  <1>2. Busy(w) /\ job[w].pc # "idle"
    BY <1>0, BusyType DEF Works
  <1>3. Busy(w)' => job'[w].seen = job[w].seen
    BY DEF Works, GoesOn, Ends, Busy
  <1>4. StaleIsLast' /\ BeforeRow'
    BY <1>2 DEF Works, IInv, StaleIsLast, BeforeRow
  <1>5. (Clean' <=> Clean) /\ (overlap' <=> overlap) /\ (stale' <=> stale)
    BY DEF Works, Clean
  <1>6. Clean => \A v \in Worker : Busy(v)' => v = w
    BY <1>1, <1>2 DEF IInv, OneAtATime, Clean
  <1>7. OneAtATime'
    BY <1>1, <1>2, <1>5 DEF IInv, OneAtATime
  <1>8. ~stale => /\ job[w].seen.uri = "original"
                  /\ \A v \in Worker : Busy(v)' => job'[v].seen.uri = "original"
    BY <1>1, <1>2, <1>3 DEF IInv, RowIsOriginal
  <1>9. \A v \in Worker : job'[v].pc # "idle" => Busy(v)'
    BY DEF Busy, Idle
  <1>10. QED
    BY <1>1, <1>2, <1>4, <1>5, <1>6, <1>7, <1>8, <1>9

\* The parts about the row, and a sweep, which a step on files leaves alone.
LEMMA WorksOnFiles ==
  ASSUME IInv, TypeOK', NEW w \in Worker, Works(w), UNCHANGED row,
         \A f \in File : age'[f] \in {age[f], 0}
  PROVE  /\ RowIsOriginal' /\ TaskOwnsRow' /\ FailureIsKept'
         /\ ReadyRowHasItsFile' /\ SweepIsLate'
  <1> USE DEF WorkerFrame
  <1>1. Exists' <=> Exists
    BY DEF Exists
  <1>2. UNCHANGED WorkerFrame
    BY DEF Works
  <1>3. RowIsOriginal'
    BY <1>1, <1>2, WorksAlone DEF IInv, RowIsOriginal
  <1>4. TaskOwnsRow'
    BY <1>1, WorksAlone DEF IInv, TaskOwnsRow
  <1>5. FailureIsKept'
    BY <1>1, <1>2, WorksAlone DEF IInv, FailureIsKept
  <1>6. ReadyRowHasItsFile'
    BY <1>1, WorksAlone DEF IInv, TaskOwnsRow, ReadyRowHasItsFile, Ready
  <1>7. Exists => row.uri \in File
    BY RowType DEF IInv, Row, File
  <1>8. SweepIsLate'
    BY <1>1, <1>2, <1>7 DEF IInv, SweepIsLate
  <1>9. QED
    BY <1>3, <1>4, <1>5, <1>6, <1>8

\* What a task has written stays young through any step of the others.
LEMMA WorksStayYoung ==
  ASSUME IInv, TypeOK', NEW w \in Worker, Works(w),
         \A f \in File : age'[f] \in {age[f], 0},
         job'[w].pc \in {"encoding", "replace"} => age'["staging"] = 0,
         job'[w].pc \in {"unlink", "update"} /\ kind = "convert"
             => age'["webp"] = 0,
         job'[w].pc = "unlink" => kind = "convert",
         job'[w].pc = "encoding" => kind \in {"convert", "downscale"}
  PROVE  WrittenIsYoung' /\ StepsFitKind'
  <1>1. kind' = kind
    BY DEF Works, WorkerFrame
  <1>2. \A v \in Worker \ {w} : job'[v] = job[v]
    BY WorksAlone
  <1>3. WrittenIsYoung'
    BY <1>1, <1>2 DEF IInv, WrittenIsYoung, File
  <1>4. StepsFitKind'
    BY <1>1, <1>2 DEF IInv, StepsFitKind
  <1>5. QED
    BY <1>3, <1>4

LEMMA OpenKeeps ==
  ASSUME IInv, NEW w \in Worker, Open(w)
  PROVE  IInv'
  <1> USE DEF WorkerFrame, files
  <1>0. TypeOK
    BY DEF IInv
  <1>1. TypeOK' /\ UNCHANGED <<WorkerFrame, row>> /\ Works(w)
    BY <1>0, OpenStep DEF Works, Steps
  <1>2. \/ UNCHANGED files
        \/ /\ kind \in {"convert", "downscale"}
           /\ disk'["staging"] = "partial" /\ age'["staging"] = 0
           /\ \A f \in File \ {"staging"} : disk'[f] = disk[f] /\ age'[f] = age[f]
    BY <1>0, OpenStep, WriteType DEF File, Content
  <1>3. /\ job'[w].pc \in {"raise", "update", "encoding"}
        /\ job'[w].pc = "encoding" => /\ kind \in {"convert", "downscale"}
                                      /\ age'["staging"] = 0
        /\ job'[w].pc = "update" => /\ kind \in {"probe", "download"}
                                    /\ disk[job[w].seen.uri] # "absent"
                                    /\ UNCHANGED files
    BY <1>0, OpenStep, WriteType DEF GoesOn, File, Content
  <1>4. \A f \in File : age'[f] \in {age[f], 0}
    BY <1>2
  <1>5. WrittenIsYoung' /\ StepsFitKind'
    BY <1>1, <1>3, <1>4, WorksStayYoung
  <1>6. /\ RowIsOriginal' /\ TaskOwnsRow' /\ FailureIsKept'
        /\ ReadyRowHasItsFile' /\ SweepIsLate'
    BY <1>1, <1>4, WorksOnFiles
  <1>7. NoHalfFiles'
    BY <1>1, <1>2, <1>3, WorksAlone DEF IInv, NoHalfFiles, File
  <1>8. ResultIsThere'
    <2>1. SUFFICES ASSUME Clean', Exists', NEW v \in Worker,
                          job'[v].pc \in {"unlink", "update"}
                   PROVE  disk'[FinalOf("original")'] = "whole"
      BY DEF ResultIsThere
    <2>2. v = w /\ Clean /\ job[w].seen.uri = "original" /\ Exists
      BY <1>1, <2>1, WorksAlone DEF Clean, Exists
    <2>3. /\ FinalOf("original")' = "original" /\ disk["original"] # "absent"
          /\ UNCHANGED disk
      BY <1>1, <1>3, <2>1, <2>2 DEF FinalOf
    <2>4. disk["original"] = "whole"
      BY <1>0, <2>2, <2>3 DEF IInv, NoHalfFiles, TypeOK, File
    <2>5. QED
      BY <2>3, <2>4
  <1>9. UploadOutlivesCrashes'
    BY <1>1, <1>2, WorksAlone DEF IInv, UploadOutlivesCrashes, Exists, File
  <1>10. QED
    BY <1>1, <1>5, <1>6, <1>7, <1>8, <1>9, WorksAlone DEF IInv

LEMMA EncodeEndsKeeps ==
  ASSUME IInv, NEW w \in Worker, EncodeEnds(w)
  PROVE  IInv'
  <1> USE DEF WorkerFrame, files
  <1>0. TypeOK
    BY DEF IInv
  <1>1. TypeOK' /\ UNCHANGED <<WorkerFrame, row>> /\ Works(w)
    BY <1>0, EncodeEndsStep DEF Works, Steps
  <1>2. /\ job[w] \in Task /\ job'[w].pc = "replace"
        /\ kind \in {"convert", "downscale"}
    BY <1>0, EncodeEndsStep DEF GoesOn, IInv, StepsFitKind
  <1>3. PICK f \in File :
          /\ f = "staging" \/ f = FinalOf(job[w].seen.uri)
          /\ disk'[f] = "whole" /\ age'[f] = 0
          /\ \A g \in File \ {f} : disk'[g] = disk[g] /\ age'[g] = age[g]
          /\ disk["staging"] # "absent" => f = "staging"
    <2>1. FinalOf(job[w].seen.uri) \in File
      BY <1>2 DEF FinalOf, Task, Row, File
    <2>2. QED
      BY <1>0, <2>1, EncodeEndsStep, WriteType DEF File, Content
  <1>4. \A g \in File : age'[g] \in {age[g], 0}
    BY <1>3
  <1>5. age'["staging"] = 0
    <2>1. age["staging"] = 0
      BY EncodeEndsStep, <1>0 DEF IInv, WrittenIsYoung
    <2>2. QED
      BY <1>4, <2>1 DEF File
  <1>6. WrittenIsYoung' /\ StepsFitKind'
    BY <1>1, <1>2, <1>4, <1>5, WorksStayYoung
  <1>7. /\ RowIsOriginal' /\ TaskOwnsRow' /\ FailureIsKept'
        /\ ReadyRowHasItsFile' /\ SweepIsLate'
    BY <1>1, <1>4, WorksOnFiles
  <1>8. NoHalfFiles'
    <2>1. SUFFICES ASSUME Clean
                   PROVE  disk'["original"] # "partial" /\ disk'["staging"] # "partial"
      BY <1>1, WorksAlone DEF NoHalfFiles
    <2>2. disk["original"] # "partial"
      BY <2>1 DEF IInv, NoHalfFiles
    <2>3. QED
      BY <1>0, <1>3, <2>2 DEF TypeOK, File
  <1>9. ResultIsThere'
    BY <1>1, <1>2, WorksAlone DEF ResultIsThere
  <1>10. UploadOutlivesCrashes'
    BY <1>1, <1>3, WorksAlone DEF IInv, UploadOutlivesCrashes, Exists, File
  <1>11. QED
    BY <1>1, <1>6, <1>7, <1>8, <1>9, <1>10, WorksAlone DEF IInv

LEMMA ReplaceKeeps ==
  ASSUME IInv, NEW w \in Worker, Replace(w)
  PROVE  IInv'
  <1> USE DEF WorkerFrame, files
  <1> DEFINE final == FinalOf(job[w].seen.uri)
  <1>0. TypeOK
    BY DEF IInv
  <1>1. TypeOK' /\ UNCHANGED <<WorkerFrame, row>> /\ Works(w)
    BY <1>0, ReplaceStep DEF Works, Steps
  <1>2. job[w] \in Task /\ job[w].pc = "replace" /\ age["staging"] = 0
    BY <1>0, ReplaceStep DEF IInv, WrittenIsYoung
  <1>3. final \in File \ {"staging"} /\ (kind = "convert" => final = "webp")
    BY <1>2 DEF FinalOf, Task, Row, File
  <1>4. \/ UNCHANGED files /\ job'[w].pc = "raise"
        \/ /\ job'[w].pc \in {"update", "unlink"}
           /\ job'[w].pc = "unlink" => kind = "convert"
           /\ disk'[final] = disk["staging"] /\ disk["staging"] # "absent"
           /\ age'[final] = 0
           /\ disk'["staging"] = "absent" /\ age'["staging"] = 0
           /\ \A g \in File \ {"staging", final} :
                  disk'[g] = disk[g] /\ age'[g] = age[g]
    <2>1. "staging" \in File
      BY DEF File
    <2>2. CASE Moves("staging", final)
      <3>1. /\ disk'[final] = disk["staging"] /\ age'[final] = age["staging"]
            /\ disk'["staging"] = "absent" /\ age'["staging"] = 0
            /\ \A g \in File \ {"staging", final} :
                   disk'[g] = disk[g] /\ age'[g] = age[g]
        BY <1>0, <1>3, <2>1, <2>2, MovesType
      <3>2. QED
        BY <1>0, <1>2, <3>1, ReplaceStep DEF GoesOn
    <2>3. CASE ~Moves("staging", final)
      BY <1>0, <2>3, ReplaceStep DEF GoesOn
    <2>4. QED
      BY <2>2, <2>3
  <1>5. \A g \in File : age'[g] \in {age[g], 0}
    BY <1>4
  <1>6. WrittenIsYoung' /\ StepsFitKind'
    BY <1>1, <1>3, <1>4, <1>5, WorksStayYoung
  <1>7. /\ RowIsOriginal' /\ TaskOwnsRow' /\ FailureIsKept'
        /\ ReadyRowHasItsFile' /\ SweepIsLate'
    BY <1>1, <1>5, WorksOnFiles
  <1>8. Clean => /\ disk["staging"] \in {"absent", "whole"} /\ disk["original"] # "partial"
                 /\ final = FinalOf("original")'
    <2>1. Clean => disk["staging"] # "partial" /\ disk["original"] # "partial"
      BY <1>2 DEF IInv, NoHalfFiles
    <2>2. Clean => job[w].seen.uri = "original"
      BY <1>1, WorksAlone DEF Clean
    <2>3. QED
      BY <1>0, <1>1, <2>1, <2>2 DEF FinalOf, TypeOK, File
  <1>9. NoHalfFiles'
    <2>1. Clean => disk'["original"] # "partial"
      BY <1>3, <1>4, <1>8 DEF File
    <2>2. QED
      BY <1>1, <1>4, <2>1, WorksAlone DEF NoHalfFiles
  <1>10. ResultIsThere'
    BY <1>1, <1>4, <1>8, WorksAlone DEF ResultIsThere
  <1>11. UploadOutlivesCrashes'
    BY <1>1, <1>3, <1>4, <1>8, WorksAlone
    DEF IInv, UploadOutlivesCrashes, Exists, File
  <1>12. QED
    BY <1>1, <1>6, <1>7, <1>9, <1>10, <1>11, WorksAlone DEF IInv

LEMMA UnlinkKeeps ==
  ASSUME IInv, NEW w \in Worker, Unlink(w)
  PROVE  IInv'
  <1> USE DEF WorkerFrame, files
  <1>0. TypeOK
    BY DEF IInv
  <1>1. TypeOK' /\ UNCHANGED <<WorkerFrame, row>> /\ Works(w)
    BY <1>0, UnlinkStep DEF Works, Steps
  <1>2. /\ job'[w].pc = "update" /\ job[w].pc = "unlink" /\ kind = "convert"
    BY <1>0, UnlinkStep DEF GoesOn, IInv, StepsFitKind
  <1>3. \A g \in File :
            /\ g = job[w].seen.uri => disk'[g] = "absent" /\ age'[g] = 0
            /\ g # job[w].seen.uri => disk'[g] = disk[g] /\ age'[g] = age[g]
    <2>1. Remove({job[w].seen.uri})
      BY <1>0, UnlinkStep
    <2>2. \A g \in File : IF g \in {job[w].seen.uri}
                          THEN disk'[g] = "absent" /\ age'[g] = 0
                          ELSE disk'[g] = disk[g] /\ age'[g] = age[g]
      BY <1>0, <2>1, RemoveType
    <2>3. QED
      BY <2>2
  <1>4. \A g \in File : age'[g] \in {age[g], 0}
    BY <1>3
  <1>5. age'["webp"] = 0
    BY <1>2, <1>4 DEF IInv, WrittenIsYoung, File
  <1>6. WrittenIsYoung' /\ StepsFitKind'
    BY <1>1, <1>2, <1>4, <1>5, WorksStayYoung
  <1>7. /\ RowIsOriginal' /\ TaskOwnsRow' /\ FailureIsKept'
        /\ ReadyRowHasItsFile' /\ SweepIsLate'
    BY <1>1, <1>4, WorksOnFiles
  <1>8. NoHalfFiles'
    BY <1>1, <1>2, <1>3, WorksAlone DEF IInv, NoHalfFiles, File
  <1>9. ResultIsThere'
    <2>1. FinalOf("original") = "webp" /\ FinalOf("original")' = "webp"
      BY <1>1, <1>2 DEF FinalOf
    <2>2. Clean /\ Exists => disk["webp"] = "whole"
      BY <1>2, <2>1 DEF IInv, ResultIsThere
    <2>3. Clean => job[w].seen.uri = "original"
      BY <1>1, WorksAlone DEF Clean
    <2>4. Clean /\ Exists => disk'["webp"] = "whole"
      BY <1>3, <2>2, <2>3 DEF File
    <2>5. QED
      BY <1>1, <2>1, <2>4, WorksAlone DEF ResultIsThere, Exists
  <1>10. UploadOutlivesCrashes'
    BY <1>1, <1>2 DEF UploadOutlivesCrashes
  <1>11. QED
    BY <1>1, <1>6, <1>7, <1>8, <1>9, <1>10, WorksAlone DEF IInv

\* The steps of a download on files, and those that end a task where it is.
LEMMA FilesKeep ==
  ASSUME IInv, NEW w \in Worker,
         \/ FetchBegins(w) \/ FetchEnds(w) \/ Land(w) \/ Fails(w)
         \/ SendChained(w) \/ Refetches(w) \/ Killed(w)
  PROVE  IInv'
  <1> USE DEF WorkerFrame, files
  <1>0. TypeOK
    BY DEF IInv
  <1>1. TypeOK' /\ UNCHANGED <<WorkerFrame, row>> /\ Works(w)
    <2>1. CASE FetchBegins(w) \/ FetchEnds(w)
      BY <1>0, <2>1, FetchStep DEF Works, Steps, FetchSteps
    <2>2. CASE Land(w)
      BY <1>0, <2>2, LandStep DEF Works, Steps, FetchSteps
    <2>3. CASE Fails(w)
      BY <1>0, <2>3, FailsStep DEF Works, Steps, FetchSteps
    <2>4. CASE SendChained(w) \/ Refetches(w) \/ Killed(w)
      BY <1>0, <2>4, EndsStep DEF Works
    <2>5. QED
      BY <2>1, <2>2, <2>3, <2>4
  <1>2. job'[w].pc \in FetchSteps \cup {"raise", "retry", "idle"}
    BY <1>0, FetchStep, LandStep, FailsStep, EndsStep
    DEF GoesOn, Ends, Idle, FetchSteps
  <1>3. /\ \A g \in File : age'[g] \in {age[g], 0}
        /\ disk'["original"] \in {disk["original"], "whole"}
    <2>1. CASE FetchBegins(w) \/ FetchEnds(w)
      BY <1>0, <2>1, FetchStep, WriteType DEF File
    <2>2. CASE Land(w)
      BY <1>0, <2>2, LandStep DEF File
    <2>3. CASE Fails(w)
      BY <1>0, <2>3, FailsStep, RemoveType DEF File
    <2>4. CASE SendChained(w) \/ Refetches(w) \/ Killed(w)
      BY <1>0, <2>4, EndsStep
    <2>5. QED
      BY <2>1, <2>2, <2>3, <2>4
  <1>4. WrittenIsYoung' /\ StepsFitKind'
    BY <1>1, <1>2, <1>3, WorksStayYoung DEF FetchSteps
  <1>5. /\ RowIsOriginal' /\ TaskOwnsRow' /\ FailureIsKept'
        /\ ReadyRowHasItsFile' /\ SweepIsLate'
    BY <1>1, <1>3, WorksOnFiles
  <1>6. NoHalfFiles' /\ ResultIsThere'
    BY <1>1, <1>2, <1>3, WorksAlone
    DEF IInv, NoHalfFiles, ResultIsThere, FetchSteps
  <1>7. UploadOutlivesCrashes'
    BY <1>1, <1>3, WorksAlone DEF IInv, UploadOutlivesCrashes, Exists
  <1>8. QED
    BY <1>1, <1>4, <1>5, <1>6, <1>7, WorksAlone DEF IInv

-----------------------------------------------------------------------------
\* A task's row changes and the files do not: it has failed, or is as it was.
LEMMA OutcomeKeeps ==
  ASSUME IInv, TypeOK', NEW w \in Worker, Works(w), UNCHANGED files,
         job'[w].pc \in FetchSteps \cup {"idle"},
         Exists, Exists', row'.uri = row.uri,
         \/ row'.processing = row.processing /\ (row'.failed => row.failed)
         \/ Ends(w) /\ ~row'.processing /\ row'.failed
  PROVE  IInv'
  <1> USE DEF WorkerFrame, files
  <1>0. TypeOK /\ UNCHANGED WorkerFrame
    BY DEF IInv, Works
  <1>1. WrittenIsYoung' /\ StepsFitKind'
    BY WorksStayYoung DEF FetchSteps
  <1>2. row' \in Row /\ row \in Row /\ row.uri \in File
    BY <1>0, RowType DEF TypeOK, Exists, Row, File
  <1>3. RowIsOriginal'
    BY <1>0, <1>2, WorksAlone DEF IInv, RowIsOriginal, Row
  <1>4. Clean => row.processing /\ ~row.failed
    BY WorksAlone DEF IInv, TaskOwnsRow, RowIsOriginal, Clean
  <1>5. Ends(w) => ~Busy(w)'
    BY DEF Ends, Busy
  <1>6. TaskOwnsRow'
    BY <1>2, <1>4, <1>5, WorksAlone DEF TaskOwnsRow, Row
  <1>7. FailureIsKept'
    BY <1>0, <1>4, WorksAlone DEF IInv, FailureIsKept
  <1>8. ReadyRowHasItsFile'
    BY <1>2, <1>4, WorksAlone DEF ReadyRowHasItsFile, Ready, Row
  <1>9. SweepIsLate'
    BY <1>0 DEF IInv, SweepIsLate
  <1>10. NoHalfFiles' /\ ResultIsThere'
    BY <1>0, WorksAlone DEF IInv, NoHalfFiles, ResultIsThere, FetchSteps
  <1>11. UploadOutlivesCrashes'
    BY <1>0, WorksAlone DEF IInv, UploadOutlivesCrashes
  <1>12. QED
    BY <1>1, <1>3, <1>6, <1>7, <1>8, <1>9, <1>10, <1>11, WorksAlone DEF IInv

\* The row has gone, or its update makes no difference.
LEMMA NoRowKeeps ==
  ASSUME IInv, TypeOK', NEW w \in Worker, Works(w), UNCHANGED <<files, row>>,
         job'[w].pc \in FetchSteps \cup {"idle"}
  PROVE  IInv'
  <1> USE DEF WorkerFrame, files
  <1>0. TypeOK /\ UNCHANGED WorkerFrame
    BY DEF IInv, Works
  <1>1. WrittenIsYoung' /\ StepsFitKind'
    BY WorksStayYoung DEF FetchSteps
  <1>2. /\ RowIsOriginal' /\ TaskOwnsRow' /\ FailureIsKept'
        /\ ReadyRowHasItsFile' /\ SweepIsLate'
    BY WorksOnFiles
  <1>3. NoHalfFiles' /\ ResultIsThere'
    BY <1>0, WorksAlone DEF IInv, NoHalfFiles, ResultIsThere, FetchSteps
  <1>4. UploadOutlivesCrashes'
    BY <1>0, WorksAlone DEF IInv, UploadOutlivesCrashes, Exists
  <1>5. QED
    BY <1>1, <1>2, <1>3, <1>4, WorksAlone DEF IInv

LEMMA RaisesKeeps ==
  ASSUME IInv, NEW w \in Worker, Raises(w)
  PROVE  IInv'
  <1>0. TypeOK
    BY DEF IInv
  <1>1. TypeOK' /\ Works(w) /\ UNCHANGED files /\ Ends(w)
    BY <1>0, RaisesStep DEF Works
  <1>2. job'[w].pc = "idle"
    BY <1>1 DEF Ends, Idle
  <1>3. CASE row' = row
    BY <1>1, <1>2, <1>3, NoRowKeeps DEF FetchSteps
  <1>4. CASE row' # row
    <2>1. /\ Exists /\ row' \in Row /\ row'.uri = row.uri
          /\ ~row'.processing /\ row'.failed
      BY <1>0, <1>4, RaisesStep
    <2>2. Exists'
      BY <2>1 DEF Exists, NoRow, Row
    <2>3. QED
      BY <1>1, <1>2, <2>1, <2>2, OutcomeKeeps
  <1>5. QED
    BY <1>3, <1>4

LEMMA ChainKeeps ==
  ASSUME IInv, NEW w \in Worker, Chain(w) \/ Restamp(w)
  PROVE  IInv'
  <1>0. TypeOK
    BY DEF IInv
  <1>1. /\ TypeOK' /\ Works(w) /\ UNCHANGED files
        /\ job'[w].pc \in {"restamp", "send"}
    BY <1>0, ChainStep DEF Works, GoesOn, Steps, FetchSteps
  <1>2. CASE Exists
    BY <1>0, <1>1, <1>2, ChainStep, OutcomeKeeps DEF FetchSteps
  <1>3. CASE ~Exists
    <2>1. UNCHANGED row
      BY <1>0, <1>3, ChainStep DEF Exists
    <2>2. QED
      BY <1>1, <2>1, NoRowKeeps DEF FetchSteps
  <1>4. QED
    BY <1>2, <1>3

LEMMA UpdateKeeps ==
  ASSUME IInv, NEW w \in Worker, Update(w)
  PROVE  IInv'
  <1> USE DEF WorkerFrame, files
  <1>0. TypeOK
    BY DEF IInv
  <1>1. TypeOK' /\ Works(w) /\ UNCHANGED <<WorkerFrame, files>> /\ Ends(w)
    BY <1>0, UpdateStep DEF Works
  <1>2. job'[w].pc = "idle" /\ ~Busy(w)' /\ job[w].pc = "update"
    BY <1>0, UpdateStep DEF Ends, Idle, Busy
  <1>3. CASE ~Exists
    <2>1. UNCHANGED row
      BY <1>0, <1>3, UpdateStep DEF Exists
    <2>2. QED
      BY <1>1, <1>2, <2>1, NoRowKeeps
  <1>4. CASE Exists
    <2>1. /\ row' \in Row /\ row'.uri = FinalOf(job[w].seen.uri)
          /\ ~row'.processing /\ ~row'.failed /\ row \in Row
      BY <1>0, <1>4, UpdateStep, RowType
    <2>2. ~stale => row'.uri = FinalOf("original")
      BY <1>1, <2>1, WorksAlone
    <2>3. WrittenIsYoung' /\ StepsFitKind'
      BY <1>1, <1>2, WorksStayYoung
    <2>4. RowIsOriginal'
      BY <1>1, <1>4, <2>1, <2>2, WorksAlone DEF IInv, RowIsOriginal, FinalOf
    <2>5. SweepIsLate'
      <3>1. CASE kind = "convert"
        <4>1. age["webp"] = 0
          BY <1>2, <3>1 DEF IInv, WrittenIsYoung
        <4>2. QED
          BY <1>1, <2>2, <3>1, <4>1 DEF SweepIsLate, FinalOf
      <3>2. CASE kind # "convert"
        <4>1. ~stale => row'.uri = row.uri
          BY <1>4, <2>1, <2>2, <3>2 DEF IInv, RowIsOriginal, FinalOf, Row
        <4>2. QED
          BY <1>1, <1>4, <4>1 DEF IInv, SweepIsLate
      <3>3. QED
        BY <3>1, <3>2
    <2>6. TaskOwnsRow'
      BY <1>1, <1>2, WorksAlone DEF TaskOwnsRow
    <2>7. FailureIsKept'
      <3>1. Clean => row.processing /\ ~row.failed
        BY <1>1, <1>4, WorksAlone DEF IInv, TaskOwnsRow, RowIsOriginal, Clean
      <3>2. QED
        BY <1>1, <1>4, <3>1, WorksAlone DEF IInv, FailureIsKept
    <2>8. ReadyRowHasItsFile'
      <3>1. Clean => disk[FinalOf("original")] = "whole"
        BY <1>2, <1>4 DEF IInv, ResultIsThere
      <3>2. QED
        BY <1>1, <2>2, <3>1, WorksAlone DEF ReadyRowHasItsFile, Clean
    <2>9. NoHalfFiles' /\ ResultIsThere'
      BY <1>1, <1>2, WorksAlone DEF IInv, NoHalfFiles, ResultIsThere
    <2>10. UploadOutlivesCrashes'
      BY <1>1, <1>4, WorksAlone DEF IInv, UploadOutlivesCrashes
    <2>11. QED
      BY <1>1, <2>3, <2>4, <2>5, <2>6, <2>7, <2>8, <2>9, <2>10, WorksAlone
      DEF IInv
  <1>5. QED
    BY <1>3, <1>4

-----------------------------------------------------------------------------
\* Two workers at work make the set of those more than one.
LEMMA TwoAtWork ==
  ASSUME NEW S, NEW u, NEW v, u # v, S \subseteq {u, v}, u \in S, v \in S
  PROVE  Cardinality(S) = 2
  <1>1. S = {u} \cup {v}
    OBVIOUS
  <1>2. IsFiniteSet({u}) /\ Cardinality({u}) = 1
    BY FS_Singleton
  <1>3. Cardinality({u} \cup {v}) = IF v \in {u} THEN Cardinality({u})
                                    ELSE Cardinality({u}) + 1
    BY <1>2, FS_AddElement
  <1>4. QED
    BY <1>1, <1>2, <1>3

LEMMA TakeKeeps ==
  ASSUME IInv, NEW w \in Worker, Take(w) \/ TakeFetch(w)
  PROVE  IInv'
  <1> USE DEF WorkerFrame, files
  <1>0. TypeOK
    BY DEF IInv
  <1>1. /\ TypeOK' /\ UNCHANGED <<WorkerFrame, row, files>>
        /\ ~Busy(w) /\ \A v \in Worker \ {w} : job'[v] = job[v]
        /\ \/ /\ Exists /\ row.processing
              /\ job'[w].pc \in {"open", "fetch"} /\ job'[w].seen = row
           \/ job' = job
    BY <1>0, TakeStep
  <1>2. overlap' = (overlap \/ Cardinality({v \in Worker : job'[v] # Idle}) > 1)
    BY <1>0, TakeStep
  <1>3. (Exists' <=> Exists) /\ (~overlap' => ~overlap) /\ (Clean' => Clean)
    BY <1>1, <1>2 DEF Exists, Clean
  <1>4. StaleIsLast' /\ BeforeRow'
    BY <1>1 DEF IInv, StaleIsLast, BeforeRow, Busy, Exists
  <1>5. WrittenIsYoung' /\ StepsFitKind'
    BY <1>1 DEF IInv, WrittenIsYoung, StepsFitKind
  <1>6. RowIsOriginal'
    BY <1>1, <1>3 DEF IInv, RowIsOriginal, Busy
  <1>7. SweepIsLate'
    BY <1>1, <1>3 DEF IInv, SweepIsLate
  <1>8. OneAtATime'
    <2>1. SUFFICES ASSUME ~overlap', NEW u \in Worker, NEW v \in Worker,
                          Busy(u)', Busy(v)', u # v
                   PROVE  FALSE
      BY DEF OneAtATime
    <2>2. \A x \in Worker \ {w} : Busy(x)' <=> Busy(x)
      BY <1>1 DEF Busy
    <2>3. \A x, y \in Worker \ {w} : Busy(x)' /\ Busy(y)' => x = y
      BY <1>3, <2>1, <2>2 DEF IInv, OneAtATime
    <2>4. {x \in Worker : job'[x] # Idle} \subseteq {u, v}
      <3>1. u = w \/ v = w
        BY <2>1, <2>3
      <3>2. \A x \in Worker : Busy(x)' => x \in {u, v}
        BY <2>1, <2>3, <3>1
      <3>3. QED
        BY <3>2 DEF Busy
    <2>5. /\ u \in {x \in Worker : job'[x] # Idle}
          /\ v \in {x \in Worker : job'[x] # Idle}
      BY <2>1 DEF Busy
    <2>6. Cardinality({x \in Worker : job'[x] # Idle}) = 2
      BY <2>1, <2>4, <2>5, TwoAtWork
    <2>7. Cardinality({x \in Worker : job'[x] # Idle}) > 1
      BY <2>6
    <2>8. QED
      BY <1>2, <2>1, <2>7, Zenon
  <1>9. TaskOwnsRow'
    BY <1>1, <1>3 DEF IInv, TaskOwnsRow, Busy
  <1>10. NoHalfFiles' /\ ResultIsThere'
    BY <1>1, <1>3 DEF IInv, NoHalfFiles, ResultIsThere, FinalOf
  <1>11. FailureIsKept' /\ ReadyRowHasItsFile' /\ UploadOutlivesCrashes'
    BY <1>1, <1>3
    DEF IInv, FailureIsKept, ReadyRowHasItsFile, UploadOutlivesCrashes, Ready
  <1>12. QED
    BY <1>1, <1>4, <1>5, <1>6, <1>7, <1>8, <1>9, <1>10, <1>11 DEF IInv

\* Every other step of a worker is one of a task it has.
LEMMA WorkerWorks ==
  ASSUME TypeOK, NEW w \in Worker, WorkerStep(w) \/ Fails(w) \/ Killed(w)
  PROVE  Works(w) \/ Take(w) \/ TakeFetch(w)
  <1>1. CASE Open(w) \/ EncodeEnds(w) \/ Replace(w) \/ Unlink(w)
    BY <1>1, OpenStep, EncodeEndsStep, ReplaceStep, UnlinkStep DEF Works, Steps
  <1>2. CASE Update(w) \/ Raises(w)
    BY <1>2, UpdateStep, RaisesStep DEF Works
  <1>3. CASE FetchBegins(w) \/ FetchEnds(w)
    BY <1>3, FetchStep DEF Works, Steps, FetchSteps
  <1>4. CASE Land(w)
    BY <1>4, LandStep DEF Works, Steps, FetchSteps
  <1>5. CASE Chain(w) \/ Restamp(w)
    BY <1>5, ChainStep DEF Works, Steps, FetchSteps
  <1>6. CASE SendChained(w) \/ Refetches(w) \/ Killed(w)
    BY <1>6, EndsStep DEF Works
  <1>7. CASE Fails(w)
    BY <1>7, FailsStep DEF Works, Steps, FetchSteps
  <1>8. QED
    BY <1>1, <1>2, <1>3, <1>4, <1>5, <1>6, <1>7 DEF WorkerStep

LEMMA WorkerKeeps ==
  ASSUME IInv, NEW w \in Worker, WorkerStep(w) \/ Fails(w) \/ Killed(w)
  PROVE  IInv'
  BY OpenKeeps, EncodeEndsKeeps, ReplaceKeeps, UnlinkKeeps, UpdateKeeps,
     FilesKeep, RaisesKeeps, ChainKeeps, TakeKeeps DEF WorkerStep

-----------------------------------------------------------------------------
\* A step that does no more to the row than stamp it.
LEMMA StampKeeps ==
  ASSUME IInv, TypeOK',
         UNCHANGED <<kind, files, job, removing, form, sweep, stale, overlap>>,
         web' = web \/ web' \notin {"filing", "filed"},
         Exists' <=> Exists,
         Exists => /\ row'.uri = row.uri /\ row'.processing = row.processing
                   /\ row'.failed = row.failed
  PROVE  IInv'
  <1> USE DEF files
  <1>1. StaleIsLast' /\ StepsFitKind' /\ WrittenIsYoung'
    BY DEF IInv, StaleIsLast, StepsFitKind, WrittenIsYoung
  <1>2. BeforeRow'
    <2>1. ~Exists => row' = row
      BY DEF Exists
    <2>2. web \in {"filing", "filed"} => ~Exists
      BY DEF IInv, BeforeRow, Exists
    <2>3. QED
      BY <2>1, <2>2 DEF IInv, BeforeRow, Busy
  <1>3. (\A w \in Worker : Busy(w)' <=> Busy(w)) /\ (Clean' <=> Clean)
    BY DEF Busy, Clean
  <1>4. RowIsOriginal' /\ OneAtATime' /\ TaskOwnsRow'
    BY <1>3 DEF IInv, RowIsOriginal, OneAtATime, TaskOwnsRow
  <1>5. SweepIsLate' /\ FailureIsKept'
    BY <1>3 DEF IInv, SweepIsLate, FailureIsKept
  <1>6. NoHalfFiles' /\ ResultIsThere'
    BY <1>3 DEF IInv, NoHalfFiles, ResultIsThere, FinalOf
  <1>7. ReadyRowHasItsFile' /\ UploadOutlivesCrashes'
    BY <1>3 DEF IInv, ReadyRowHasItsFile, UploadOutlivesCrashes, Ready
  <1>8. QED
    BY <1>1, <1>2, <1>4, <1>5, <1>6, <1>7 DEF IInv

\* The parts that ask for a row, when there is none.
NoRowParts ==
    SweepIsLate /\ TaskOwnsRow /\ ResultIsThere /\ FailureIsKept
        /\ ReadyRowHasItsFile /\ UploadOutlivesCrashes

LEMMA NoRowNoParts ==
  ~Exists => NoRowParts
  BY DEF NoRowParts, SweepIsLate, TaskOwnsRow, ResultIsThere, FailureIsKept,
         ReadyRowHasItsFile, UploadOutlivesCrashes, Ready

LEMMA NoRowNoPartsNext ==
  ASSUME ~Exists' PROVE NoRowParts'
  BY DEF NoRowParts, SweepIsLate, TaskOwnsRow, ResultIsThere, FailureIsKept,
         ReadyRowHasItsFile, UploadOutlivesCrashes, Ready

LEMMA UploadKeeps ==
  ASSUME IInv, Upload \/ UploadDies
  PROVE  IInv'
  <1> USE DEF files, tasks, requests, beat
  <1>0. TypeOK /\ TypeOK'
    BY UploadType DEF IInv
  <1>1. CASE StoreFile
    <2>1. /\ web = "filing" /\ web' = "filed" /\ job' = job
          /\ UNCHANGED <<kind, row, removing, form, sweep, stale, overlap>>
          /\ row = NoRow /\ removing = "nothing" /\ form \in {<<>>, Saved}
          /\ \A w \in Worker : ~Busy(w)
      BY <1>1 DEF StoreFile, IInv, BeforeRow
    <2>2. disk'["original"] = "whole" /\ age'["original"] = 0
      BY <1>0, <1>1, WriteType DEF StoreFile, File, Content
    <2>3. \A w \in Worker : ~Busy(w)' /\ job'[w].pc = "idle"
      BY <2>1 DEF Busy, Idle
    <2>4. BeforeRow'
      BY <2>1, <2>2, <2>3 DEF BeforeRow
    <2>5. NoRowParts'
      BY <2>1, NoRowNoPartsNext DEF Exists
    <2>6. StaleIsLast' /\ StepsFitKind' /\ WrittenIsYoung' /\ NoHalfFiles'
      BY <2>1, <2>2, <2>3
      DEF IInv, StaleIsLast, StepsFitKind, WrittenIsYoung, NoHalfFiles
    <2>7. RowIsOriginal' /\ OneAtATime'
      BY <2>1, <2>3 DEF RowIsOriginal, OneAtATime, Exists
    <2>8. QED
      BY <1>0, <2>4, <2>5, <2>6, <2>7 DEF IInv, NoRowParts
  <1>2. CASE CreateRow
    <2>1. /\ web' = "created" /\ job' = job
          /\ UNCHANGED <<kind, files, removing, form, sweep, stale, overlap>>
          /\ row' = [uri |-> "original", processing |-> TRUE, failed |-> FALSE,
                     stamp |-> Unstamped]
          /\ kind = "download" \/ web = "filed"
          /\ web \in {"filing", "filed"}
      BY <1>2 DEF CreateRow
    <2>2. /\ removing = "nothing" /\ form \in {<<>>, Saved}
          /\ \A w \in Worker : ~Busy(w)
          /\ age["original"] = 0
          /\ kind # "download" => disk["original"] = "whole"
          /\ disk["original"] # "partial"
      BY <2>1 DEF IInv, BeforeRow
    <2>3. \A w \in Worker : ~Busy(w)' /\ job'[w].pc = "idle"
      BY <2>1, <2>2 DEF Busy, Idle
    <2>4. /\ row'.uri = "original" /\ row'.processing /\ ~row'.failed
      BY <2>1
    <2>5. StaleIsLast' /\ BeforeRow' /\ StepsFitKind' /\ WrittenIsYoung'
      BY <2>1, <2>3 DEF IInv, StaleIsLast, BeforeRow, StepsFitKind, WrittenIsYoung
    <2>6. RowIsOriginal' /\ OneAtATime' /\ SweepIsLate'
      BY <2>1, <2>2, <2>3, <2>4 DEF RowIsOriginal, OneAtATime, SweepIsLate
    <2>7. TaskOwnsRow' /\ ResultIsThere' /\ NoHalfFiles'
      BY <2>1, <2>2, <2>3 DEF TaskOwnsRow, ResultIsThere, NoHalfFiles
    <2>8. FailureIsKept' /\ ReadyRowHasItsFile' /\ UploadOutlivesCrashes'
      BY <2>1, <2>2, <2>4
      DEF FailureIsKept, ReadyRowHasItsFile, Ready, UploadOutlivesCrashes
    <2>9. QED
      BY <1>0, <2>5, <2>6, <2>7, <2>8 DEF IInv
  <1>3. CASE StampUpload
    BY <1>0, <1>3, StampType, StampKeeps DEF StampUpload
  <1>4. CASE SendUpload
    BY <1>0, <1>4, StampKeeps DEF SendUpload, Exists
  <1>5. CASE UploadDies
    BY <1>0, <1>5, StampKeeps DEF UploadDies, Exists
  <1>6. QED
    BY <1>1, <1>2, <1>3, <1>4, <1>5 DEF Upload

LEMMA RequestKeeps ==
  ASSUME IInv, DeleteRow \/ DeleteFile \/ DeleteDies \/ FormRead \/ FormSave
  PROVE  IInv'
  <1> USE DEF files, tasks, requests, beat
  <1>0. TypeOK /\ TypeOK'
    BY RequestType DEF IInv
  <1>1. UNCHANGED <<kind, job, web, sweep, overlap>>
    BY DEF DeleteRow, DeleteFile, DeleteDies, FormRead, FormSave
  <1>2. /\ \A w \in Worker : Busy(w)' <=> Busy(w)
        /\ StepsFitKind' /\ OneAtATime'
    BY <1>1 DEF Busy, IInv, StepsFitKind, OneAtATime
  <1>3. BeforeRow'
    BY <1>1 DEF IInv, BeforeRow, Exists,
                DeleteRow, DeleteFile, DeleteDies, FormRead, FormSave
  <1>4. CASE DeleteRow
    <2>1. ~Exists' /\ UNCHANGED <<files, form, stale>>
      BY <1>4 DEF DeleteRow, Exists
    <2>2. NoRowParts'
      BY <2>1, NoRowNoPartsNext
    <2>3. StaleIsLast' /\ WrittenIsYoung' /\ NoHalfFiles'
      BY <1>1, <2>1 DEF IInv, StaleIsLast, WrittenIsYoung, NoHalfFiles, Clean
    <2>4. RowIsOriginal'
      BY <1>1, <1>2, <2>1 DEF IInv, RowIsOriginal
    <2>5. QED
      BY <1>0, <1>2, <1>3, <2>2, <2>3, <2>4 DEF IInv, NoRowParts
  <1>5. CASE DeleteFile
    <2>1. removing # "nothing" /\ removing' = "nothing" /\ UNCHANGED <<row, form, stale>>
      BY <1>5 DEF DeleteFile
    <2>2. \A f \in File : age'[f] \in {age[f], 0} /\ disk'[f] \in {disk[f], "absent"}
      BY <1>0, <1>5, RemoveType DEF DeleteFile
    <2>3. ~stale => ~Exists'
      BY <2>1 DEF IInv, RowIsOriginal, Exists
    <2>4. SweepIsLate' /\ TaskOwnsRow' /\ ResultIsThere' /\ FailureIsKept'
      BY <2>1, <2>3 DEF SweepIsLate, TaskOwnsRow, ResultIsThere, FailureIsKept, Clean
    <2>5. ReadyRowHasItsFile' /\ UploadOutlivesCrashes'
      BY <2>1, <2>3 DEF ReadyRowHasItsFile, UploadOutlivesCrashes, Ready, Clean
    <2>6. StaleIsLast' /\ WrittenIsYoung' /\ NoHalfFiles'
      BY <1>1, <2>1, <2>2
      DEF IInv, StaleIsLast, WrittenIsYoung, NoHalfFiles, Clean, File
    <2>7. RowIsOriginal'
      BY <1>1, <1>2, <2>1, <2>3 DEF IInv, RowIsOriginal, Exists
    <2>8. QED
      BY <1>0, <1>2, <1>3, <2>4, <2>5, <2>6, <2>7 DEF IInv
  <1>6. CASE DeleteDies
    <2>1. removing' = "nothing" /\ UNCHANGED <<row, files, form, stale>>
      BY <1>6 DEF DeleteDies
    <2>2. SweepIsLate' /\ TaskOwnsRow' /\ ResultIsThere' /\ FailureIsKept'
      BY <1>1, <1>2, <2>1
      DEF IInv, SweepIsLate, TaskOwnsRow, ResultIsThere, FailureIsKept, Clean,
          Exists, FinalOf
    <2>3. ReadyRowHasItsFile' /\ UploadOutlivesCrashes'
      BY <1>1, <2>1
      DEF IInv, ReadyRowHasItsFile, UploadOutlivesCrashes, Ready, Clean, Exists
    <2>4. StaleIsLast' /\ WrittenIsYoung' /\ NoHalfFiles'
      BY <1>1, <2>1 DEF IInv, StaleIsLast, WrittenIsYoung, NoHalfFiles, Clean
    <2>5. RowIsOriginal'
      BY <1>1, <1>2, <2>1 DEF IInv, RowIsOriginal, Exists
    <2>6. QED
      BY <1>0, <1>2, <1>3, <2>2, <2>3, <2>4, <2>5 DEF IInv
  <1>7. CASE FormRead
    <2>1. form = <<>> /\ form' = <<row>> /\ UNCHANGED <<row, files, removing, stale>>
      BY <1>7 DEF FormRead
    <2>2. SweepIsLate' /\ TaskOwnsRow' /\ ResultIsThere' /\ FailureIsKept'
      BY <1>1, <1>2, <2>1
      DEF IInv, SweepIsLate, TaskOwnsRow, ResultIsThere, FailureIsKept, Clean,
          Exists, FinalOf
    <2>3. ReadyRowHasItsFile' /\ UploadOutlivesCrashes'
      BY <1>1, <2>1
      DEF IInv, ReadyRowHasItsFile, UploadOutlivesCrashes, Ready, Clean, Exists
    <2>4. WrittenIsYoung' /\ NoHalfFiles'
      BY <1>1, <2>1 DEF IInv, WrittenIsYoung, NoHalfFiles, Clean
    <2>5. StaleIsLast'
      BY <2>1 DEF IInv, StaleIsLast, Saved
    <2>6. RowIsOriginal'
      BY <1>1, <1>2, <2>1 DEF IInv, RowIsOriginal, Exists
    <2>7. QED
      BY <1>0, <1>2, <1>3, <2>2, <2>3, <2>4, <2>5, <2>6 DEF IInv
  <1>8. CASE FormSave
    <2>1. /\ form \notin {<<>>, Saved} /\ form' = Saved /\ row' = form[1]
          /\ stale' = (row # form[1]) /\ UNCHANGED <<files, removing>>
      BY <1>8 DEF FormSave
    <2>2. ~stale /\ (~stale' => row' = row)
      BY <2>1 DEF IInv, StaleIsLast
    <2>3. SweepIsLate' /\ TaskOwnsRow' /\ ResultIsThere' /\ FailureIsKept'
      BY <1>1, <1>2, <2>1, <2>2
      DEF IInv, SweepIsLate, TaskOwnsRow, ResultIsThere, FailureIsKept, Clean,
          Exists, FinalOf
    <2>4. ReadyRowHasItsFile' /\ UploadOutlivesCrashes'
      BY <1>1, <2>1, <2>2
      DEF IInv, ReadyRowHasItsFile, UploadOutlivesCrashes, Ready, Clean, Exists
    <2>5. StaleIsLast' /\ WrittenIsYoung' /\ NoHalfFiles'
      BY <1>1, <2>1, <2>2 DEF IInv, StaleIsLast, WrittenIsYoung, NoHalfFiles, Clean
    <2>6. RowIsOriginal'
      BY <1>1, <1>2, <2>1, <2>2 DEF IInv, RowIsOriginal, Exists
    <2>7. QED
      BY <1>0, <1>2, <1>3, <2>3, <2>4, <2>5, <2>6 DEF IInv
  <1>9. QED
    BY <1>4, <1>5, <1>6, <1>7, <1>8

LEMMA ReconcileKeeps ==
  ASSUME IInv, Reconcile \/ ReconcileDies
  PROVE  IInv'
  <1> USE DEF files, tasks, requests, beat
  <1>0. TypeOK /\ TypeOK'
    BY BeatType DEF IInv
  <1>1. CASE ReconcileReads
    BY <1>0, <1>1, StampKeeps DEF ReconcileReads, Exists
  <1>2. CASE ReconcileStamps
    BY <1>0, <1>2, StampType, StampKeeps DEF ReconcileStamps
  <1>3. CASE ReconcileSends
    BY <1>0, <1>3, StampKeeps DEF ReconcileSends, Exists
  <1>4. CASE ReconcileDies
    BY <1>0, <1>4, StampKeeps DEF ReconcileDies, Exists
  <1>5. QED
    BY <1>1, <1>2, <1>3, <1>4 DEF Reconcile

\* A sweep removes files; the row's, and the result of a task, it leaves.
Swept(fs) ==
    /\ UNCHANGED <<kind, row, job, web, removing, form, stale, overlap>>
    /\ \A f \in fs : disk'[f] = disk[f] /\ age'[f] = age[f]
    /\ \A f \in File : age'[f] \in {age[f], 0} /\ disk'[f] \in {disk[f], "absent"}

LEMMA SweptKeeps ==
  ASSUME IInv, TypeOK', SweepIsLate', NEW fs \in SUBSET File, Swept(fs),
         web \in {"filing", "filed"} => "original" \in fs,
         Clean /\ Exists => row.uri \in fs,
         kind = "convert" /\ (\E w \in Worker : job[w].pc \in {"unlink", "update"})
             => "webp" \in fs
  PROVE  IInv'
  <1>0. TypeOK
    BY DEF IInv
  <1>1. UNCHANGED <<kind, row, job, web, removing, form, stale, overlap>>
    BY DEF Swept
  <1>2. /\ \A w \in Worker : Busy(w)' <=> Busy(w)
        /\ Exists' <=> Exists
        /\ Clean' <=> Clean
    BY <1>1 DEF Busy, Exists, Clean
  <1>3. StaleIsLast' /\ StepsFitKind' /\ RowIsOriginal' /\ OneAtATime'
    BY <1>1, <1>2 DEF IInv, StaleIsLast, StepsFitKind, RowIsOriginal, OneAtATime
  <1>4. BeforeRow'
    BY <1>1, <1>2 DEF IInv, BeforeRow, Swept
  <1>5. WrittenIsYoung' /\ NoHalfFiles'
    BY <1>1, <1>2 DEF IInv, WrittenIsYoung, NoHalfFiles, Swept, File
  <1>6. TaskOwnsRow' /\ FailureIsKept'
    BY <1>1, <1>2 DEF IInv, TaskOwnsRow, FailureIsKept
  <1>7. Clean /\ Exists => row \in Row /\ disk'[row.uri] = disk[row.uri]
    BY <1>0, RowType DEF Swept
  <1>8. Clean /\ Exists => (row.uri = "webp" => kind = "convert")
    BY DEF IInv, RowIsOriginal, Clean
  <1>9. ReadyRowHasItsFile' /\ UploadOutlivesCrashes'
    BY <1>1, <1>2, <1>7, <1>8
    DEF IInv, ReadyRowHasItsFile, UploadOutlivesCrashes, Ready, Row
  <1>10. ResultIsThere'
    <2>1. SUFFICES ASSUME Clean, Exists, NEW w \in Worker,
                          job[w].pc \in {"unlink", "update"}
                   PROVE  disk'[FinalOf("original")] = "whole"
      BY <1>1, <1>2 DEF ResultIsThere, FinalOf
    <2>2. disk[FinalOf("original")] = "whole"
      BY <2>1 DEF IInv, ResultIsThere
    <2>3. FinalOf("original") \in fs
      BY <1>7, <1>8, <2>1 DEF FinalOf, Row
    <2>4. QED
      BY <2>2, <2>3 DEF Swept
  <1>11. QED
    BY <1>3, <1>4, <1>5, <1>6, <1>9, <1>10 DEF IInv

LEMMA SweepKeeps ==
  ASSUME IInv, Sweep
  PROVE  IInv'
  <1> USE DEF files, tasks, requests, beat
  <1>0. TypeOK /\ TypeOK'
    BY BeatType DEF IInv
  <1>1. Exists => row.uri \in File \ {"staging"}
    BY <1>0, RowType DEF Row, File
  <1>2. CASE SweepReads
    <2>1. Swept(File \ {"staging"})
      BY <1>0, <1>2, RemoveType DEF SweepReads, Old, Swept
    <2>2. SweepIsLate'
      BY <1>2 DEF SweepReads, SweepIsLate, Exists
    <2>3. QED
      BY <1>0, <1>1, <2>1, <2>2, SweptKeeps DEF File
  <1>3. CASE SweepRemoves
    <2> DEFINE kept == {f \in File : f \in sweep[1] \/ age[f] = 0}
    <2>1. \A f \in Old(File \ sweep[1]) : age[f] # 0 /\ f \notin sweep[1]
      BY PipelineAssumption DEF Old
    <2>2. Swept(kept)
      BY <1>0, <1>3, <2>1, RemoveType DEF SweepRemoves, Swept
    <2>3. SweepIsLate'
      BY <1>3 DEF SweepRemoves, SweepIsLate
    <2>4. web \in {"filing", "filed"} => "original" \in kept
      BY DEF IInv, BeforeRow, File
    <2>5. Clean /\ Exists => row.uri \in kept
      BY <1>1, <1>3 DEF IInv, SweepIsLate, SweepRemoves, Clean
    <2>6. kind = "convert" /\ (\E w \in Worker : job[w].pc \in {"unlink", "update"})
              => "webp" \in kept
      BY DEF IInv, WrittenIsYoung, File
    <2>7. kept \in SUBSET File
      OBVIOUS
    <2> HIDE DEF kept
    <2>8. QED
      BY <1>0, <2>2, <2>3, <2>4, <2>5, <2>6, <2>7, SweptKeeps
  <1>4. QED
    BY <1>2, <1>3 DEF Sweep

\* Nothing is under way when the clock ticks: it ages a row and its files.
LEMMA TickRow ==
  ASSUME TypeOK, Tick
  PROVE  /\ Exists' <=> Exists
         /\ Exists => /\ row'.uri = row.uri /\ row'.processing = row.processing
                      /\ row'.failed = row.failed
  <1>1. CASE Exists /\ row.stamp \in 0..(Threshold - 1)
    <2>1. row \in Row /\ row' = [row EXCEPT !.stamp = row.stamp + 1]
      BY <1>1, RowType DEF Tick
    <2>2. /\ row'.uri = row.uri /\ row'.processing = row.processing
          /\ row'.failed = row.failed
      BY <2>1 DEF Row
    <2>3. row' # NoRow
      <3>1. DOMAIN row' = DOMAIN row /\ "failed" \in DOMAIN row
        BY <2>1 DEF Row
      <3>2. "failed" \notin DOMAIN NoRow
        BY DEF NoRow
      <3>3. QED
        BY <3>1, <3>2
    <2>4. QED
      BY <1>1, <2>2, <2>3 DEF Exists
  <1>2. CASE ~(Exists /\ row.stamp \in 0..(Threshold - 1))
    BY <1>2 DEF Tick, Exists
  <1>3. QED
    BY <1>1, <1>2

LEMMA TickKeeps ==
  ASSUME IInv, Tick
  PROVE  IInv'
  <1> USE DEF files, tasks, requests, beat
  <1>0. TypeOK /\ TypeOK'
    BY BeatType DEF IInv
  <1>1. /\ \A w \in Worker : ~Busy(w)
        /\ sweep = <<>> /\ web # "filed"
        /\ UNCHANGED <<kind, disk, job, web, removing, form, sweep, stale, overlap>>
    BY DEF Tick, Quiet
  <1>2. \A w \in Worker : ~Busy(w)' /\ job'[w].pc = "idle"
    BY <1>1 DEF Busy, Idle
  <1>3. /\ Exists' <=> Exists
        /\ Exists => /\ row'.uri = row.uri /\ row'.processing = row.processing
                     /\ row'.failed = row.failed
    BY <1>0, TickRow
  <1>4. StaleIsLast' /\ StepsFitKind' /\ WrittenIsYoung'
    BY <1>1, <1>2 DEF IInv, StaleIsLast, StepsFitKind, WrittenIsYoung
  <1>5. BeforeRow'
    <2>1. SUFFICES ASSUME web = "filing" PROVE BeforeRow'
      BY <1>1 DEF BeforeRow
    <2>2. ~Exists /\ disk["original"] = "absent" /\ age["original"] = 0
      BY <2>1 DEF IInv, BeforeRow, Exists
    <2>3. age'["original"] = 0
      BY <2>2 DEF Tick, File
    <2>4. row' = NoRow
      BY <1>3, <2>2 DEF Exists
    <2>5. QED
      BY <1>1, <1>2, <2>1, <2>3, <2>4 DEF IInv, BeforeRow
  <1>6. RowIsOriginal'
    BY <1>1, <1>2, <1>3 DEF IInv, RowIsOriginal
  <1>7. SweepIsLate' /\ OneAtATime' /\ TaskOwnsRow' /\ ResultIsThere'
    BY <1>1, <1>2 DEF SweepIsLate, OneAtATime, TaskOwnsRow, ResultIsThere
  <1>8. NoHalfFiles'
    BY <1>1, <1>2 DEF IInv, NoHalfFiles, Clean
  <1>9. FailureIsKept'
    BY <1>1, <1>3 DEF IInv, FailureIsKept, Clean
  <1>10. ReadyRowHasItsFile' /\ UploadOutlivesCrashes'
    BY <1>1, <1>3
    DEF IInv, ReadyRowHasItsFile, UploadOutlivesCrashes, Ready, Clean
  <1>11. QED
    BY <1>0, <1>4, <1>5, <1>6, <1>7, <1>8, <1>9, <1>10 DEF IInv

LEMMA StutterKeeps ==
  ASSUME IInv, UNCHANGED vars
  PROVE  IInv'
  <1>1. UNCHANGED <<kind, files, job, removing, form, sweep, stale, overlap, web, row>>
    BY DEF vars, requests, beat
  <1>2. TypeOK'
    BY DEF IInv, TypeOK, vars, requests, beat, files, tasks
  <1>3. QED
    BY <1>1, <1>2, StampKeeps DEF Exists

LEMMA NextKeeps == IInv /\ [Next]_vars => IInv'
  BY UploadKeeps, RequestKeeps, WorkerKeeps, ReconcileKeeps, SweepKeeps,
     TickKeeps, StutterKeeps DEF Next

\* Only the sweep itself ends a sweep.
LEMMA OnlySweepEnds ==
  ASSUME IInv, Next, sweep # <<>>, sweep' = <<>>
  PROVE  SweepRemoves
  <1> USE DEF files, tasks, requests, beat
  <1>0. TypeOK
    BY DEF IInv
  <1>1. CASE Upload \/ UploadDies
    BY <1>1 DEF Upload, StoreFile, CreateRow, StampUpload, SendUpload, UploadDies
  <1>2. CASE DeleteRow \/ DeleteFile \/ DeleteDies \/ FormRead \/ FormSave
    BY <1>2 DEF DeleteRow, DeleteFile, DeleteDies, FormRead, FormSave
  <1>3. ASSUME NEW w \in Worker, WorkerStep(w) \/ Fails(w) \/ Killed(w)
        PROVE  FALSE
    BY <1>0, <1>3, WorkerWorks, TakeStep DEF Works, WorkerFrame
  <1>4. CASE Reconcile \/ ReconcileDies
    BY <1>4 DEF Reconcile, ReconcileReads, ReconcileStamps, ReconcileSends,
                ReconcileDies
  <1>5. CASE Sweep
    BY <1>5 DEF Sweep, SweepReads
  <1>6. CASE Tick
    BY <1>6 DEF Tick
  <1>7. QED
    BY <1>1, <1>2, <1>3, <1>4, <1>5, <1>6 DEF Next

LEMMA SweepSpares ==
  ASSUME IInv, [Next]_vars, sweep # <<>>, sweep' = <<>>, Exists, ~stale
  PROVE  disk'[row.uri] = disk[row.uri]
  <1>1. SweepRemoves
    BY OnlySweepEnds DEF vars, beat
  <1>2. TypeOK /\ row.uri \in File
    BY RowType DEF IInv, Row, File
  <1>3. row.uri \notin Old(File \ sweep[1])
    BY PipelineAssumption DEF IInv, SweepIsLate, Old
  <1>4. QED
    BY <1>1, <1>2, <1>3, RemoveType DEF SweepRemoves

\* A worker at work owns the row, and a form has read no failure it does not show.
LEMMA FinishedStays ==
  ASSUME IInv, [Next]_vars, Clean, Ready, row' # NoRow
  PROVE  ~row'.failed
  <1> USE DEF files, tasks, requests, beat
  <1>0. TypeOK /\ Exists /\ ~row.processing /\ ~row.failed
    BY DEF IInv, Ready
  <1>1. CASE row' = row
    BY <1>0, <1>1
  <1>2. CASE Upload \/ UploadDies
    <2>1. web \notin {"filing", "filed"}
      BY <1>0 DEF IInv, BeforeRow, Exists
    <2>2. StampRow \/ row' = row
      BY <1>2, <2>1
      DEF Upload, StoreFile, CreateRow, StampUpload, SendUpload, UploadDies
    <2>3. QED
      BY <1>0, <2>2, StampType
  <1>3. CASE DeleteRow \/ DeleteFile \/ DeleteDies \/ FormRead
    BY <1>0, <1>3 DEF DeleteRow, DeleteFile, DeleteDies, FormRead
  <1>4. CASE FormSave
    BY <1>0, <1>4 DEF FormSave, IInv, FailureIsKept
  <1>5. ASSUME NEW w \in Worker, WorkerStep(w) \/ Fails(w) \/ Killed(w)
        PROVE  row' = row
    <2>1. ~Works(w)
      BY <1>0, BusyType DEF Works, IInv, TaskOwnsRow
    <2>2. QED
      BY <1>0, <1>5, <2>1, WorkerWorks, TakeStep
  <1>6. CASE Reconcile \/ ReconcileDies
    <2>1. StampRow \/ row' = row
      BY <1>6 DEF Reconcile, ReconcileReads, ReconcileStamps, ReconcileSends,
                  ReconcileDies
    <2>2. QED
      BY <1>0, <2>1, StampType
  <1>7. CASE Sweep
    BY <1>0, <1>7 DEF Sweep, SweepReads, SweepRemoves
  <1>8. CASE Tick
    BY <1>0, <1>8, TickRow
  <1>9. CASE UNCHANGED vars
    BY <1>0, <1>9 DEF vars
  <1>10. QED
    BY <1>0, <1>1, <1>2, <1>3, <1>4, <1>5, <1>6, <1>7, <1>8, <1>9 DEF Next

-----------------------------------------------------------------------------
\* Every reachable state satisfies the inductive invariant.
THEOREM PipelineInvariant == Spec => []IInv
  BY InitIInv, NextKeeps, PTL DEF Spec

\* The variables stay in their types (_row_or_none(), the two processing flags,
\* the queue's bound), for any number of workers and faults.
THEOREM PipelineTypeOK == Spec => []TypeOK
  <1>1. IInv => TypeOK
    BY DEF IInv
  <1>2. QED
    BY <1>1, PipelineInvariant, PTL

\* A row the viewer may play names a whole file, whatever is killed, retried,
\* swept or deleted on the way (processing.py, celery_tasks.py: cleanup()).
THEOREM ReadyRowsHaveFiles == Spec => []ReadyRowHasItsFile
  <1>1. IInv => ReadyRowHasItsFile
    BY DEF IInv
  <1>2. QED
    BY <1>1, PipelineInvariant, PTL

\* No crash in the middle of an encoding takes the only copy of an upload that
\* is rewritten in place or only probed (processing.py: _run_ffmpeg, os.replace).
THEOREM UploadsOutliveCrashes == Spec => []UploadOutlivesCrashes
  <1>1. IInv => UploadOutlivesCrashes
    BY DEF IInv
  <1>2. QED
    BY <1>1, PipelineInvariant, PTL

\* cleanup() spares what the row names when it removes, though it read the
\* names earlier (celery_tasks.py: cleanup()).
THEOREM SweepsSpareReferenced == Spec => SweepSparesReferenced
  <1>1. IInv /\ [Next]_vars =>
          [sweep # <<>> /\ sweep' = <<>> /\ Exists /\ ~stale
               => disk'[row.uri] = disk[row.uri]]_vars
    BY SweepSpares
  <1>2. QED
    BY <1>1, PipelineInvariant, PTL DEF Spec, SweepSparesReferenced

\* A late or repeated message of a task fails no row that finished
\* (processing.py: _row_or_none(), on_failure()).
THEOREM FinishedRowsStay == Spec => FinishedStaysFinished
  <1>1. IInv /\ [Next]_vars =>
          [Clean /\ Ready /\ row' # NoRow => ~row'.failed]_vars
    BY FinishedStays
  <1>2. QED
    BY <1>1, PipelineInvariant, PTL DEF Spec, FinishedStaysFinished

=============================================================================

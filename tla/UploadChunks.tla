---------------------------- MODULE UploadChunks ----------------------------
(***************************************************************************)
(* A large file uploaded in ranged requests                                *)
(* (src/src/anthias_server/app/static/src/home.ts and home/chunking.ts,    *)
(* app/views.py, celery_tasks.py).                                         *)
(*                                                                         *)
(* The page cuts the file into chunks and posts them one after the other   *)
(* under one id; a request that fails is sent again.  The server appends   *)
(* the chunks to a partial file of that id and the last one renames it to  *)
(* the asset's file and makes the row.  A request whose answer is lost     *)
(* goes on in its thread, beside the one that repeats it; other threads    *)
(* may remove the partial at any time.                                     *)
(*                                                                         *)
(* A chunk is two blocks, written one by one.  Requests without a range,   *)
(* other callers' ids and the checks of the headers are left out: what the *)
(* page sends passes them.  A file of the wrong type is refused before     *)
(* anything is stored; that is left out too.                               *)
(***************************************************************************)
EXTENDS Integers, Sequences

CONSTANTS
    Chunks,         \* chunks of the file
    Retries,        \* CHUNK_RETRIES
    MaxFaults       \* bound: lost answers, restarts, full disks, sweeps

UploadAssumption ==
    /\ Chunks \in Nat \ {0, 1}
    /\ Retries \in Nat /\ MaxFaults \in Nat

VARIABLES
    page,       \* the uploader: chunk, attempt, and what it reports
    request,    \* every request sent, and its thread
    file,       \* the blocks of every file created, by inode
    staged,     \* inode at the path of the partial, 0 if none
    saved,      \* inodes of the assets made
    sweeping,   \* the sweep has found the partial too old
    refused,    \* a thread has met a full disk
    faults

uploadVars ==
    <<page, request, file, staged, saved, sweeping, refused, faults>>

Block == {"data", "hole"}
Whole == [b \in 1..(2 * Chunks) |-> "data"]
Final(k) == k = Chunks - 1

TypeOK ==
    /\ page \in [chunk : 0..(Chunks - 1), attempt : 0..Retries,
                 state : {"ready", "waiting", "ok", "failed",
                          "conflict", "unconfirmed"}]
    /\ \A r \in DOMAIN request :
            /\ request[r].chunk \in 0..(Chunks - 1)
            /\ request[r].file \in {0} \cup DOMAIN file
    /\ file \in Seq(UNION {[1..n -> Block] : n \in 0..(2 * Chunks)})
    /\ staged \in {0} \cup DOMAIN file
    /\ saved \subseteq DOMAIN file

Init ==
    /\ page = [chunk |-> 0, attempt |-> 0, state |-> "ready"]
    /\ request = <<>> /\ file = <<>> /\ staged = 0 /\ saved = {}
    /\ sweeping = FALSE /\ refused = FALSE /\ faults = MaxFaults

-----------------------------------------------------------------------------
(* The page. *)

Current == Len(request)
Over == [chunk |-> 0, pc |-> "over", file |-> 0, answer |-> "none"]

Send ==
    /\ page.state = "ready" /\ ~sweeping
    /\ request' = Append(request, [Over EXCEPT !.chunk = page.chunk,
                                               !.pc = "sent"])
    /\ page' = [page EXCEPT !.state = "waiting"]
    /\ UNCHANGED <<file, staged, saved, sweeping, refused, faults>>

Report(state) == page' = [page EXCEPT !.state = state]

\* The rest of sendWithRetry() and of the loop that called it.
RetryOr(state) ==
    IF page.attempt < Retries
    THEN page' = [page EXCEPT !.attempt = page.attempt + 1, !.state = "ready"]
    ELSE Report(state)

\* What the page makes of an answer without words of the server's: no status,
\* or one of a gateway.  bodySent says that the request went out in full.
AnswerLost(bodySent) ==
    IF Final(page.chunk) /\ bodySent THEN Report("unconfirmed")
    ELSE RetryOr("failed")

Lost ==
    /\ page.state = "waiting" /\ faults > 0
    /\ faults' = faults - 1
    /\ \/ /\ AnswerLost(TRUE)
          /\ request' = IF request[Current].pc = "answer"
                        THEN [request EXCEPT ![Current] = Over] ELSE request
       \/ /\ request[Current].pc = "sent"
          /\ AnswerLost(FALSE)
          /\ request' = [request EXCEPT ![Current] = Over]
    /\ UNCHANGED <<file, staged, saved, sweeping, refused>>

Answered ==
    LET answer == request[Current].answer IN
    /\ page.state = "waiting" /\ request[Current].pc = "answer"
    /\ CASE answer = "ok" /\ ~Final(page.chunk) ->
                page' = [chunk |-> page.chunk + 1, attempt |-> 0,
                         state |-> "ready"]
         [] answer = "ok" /\ Final(page.chunk) -> Report("ok")
         [] answer = "conflict" -> Report("conflict")
         [] answer = "full" -> Report("failed")
         [] answer = "error" -> AnswerLost(TRUE)
    /\ request' = [request EXCEPT ![Current] = Over]
    /\ UNCHANGED <<file, staged, saved, sweeping, refused, faults>>

-----------------------------------------------------------------------------
(* The thread of a request. *)

Goto(r, pc) == request' = [request EXCEPT ![r].pc = pc]

\* An answer nobody waits for any more ends the request.
Respond(r, answer) ==
    request' = [request EXCEPT ![r] =
        IF r = Current /\ page.state = "waiting"
        THEN [Over EXCEPT !.chunk = request[r].chunk,
                          !.pc = "answer", !.answer = answer]
        ELSE Over]

\* Mutant: the path is measured and opened afterwards.
OpenMeasuresPath(r) ==
    LET q == request[r]
        held == IF staged = 0 THEN 0 ELSE Len(file[staged])
    IN
    /\ \/ /\ q.pc = "sent"
          /\ request' = [request EXCEPT ![r].pc =
                            IF 2 * q.chunk > held THEN "drop" ELSE "held",
                            ![r].answer = "conflict"]
          /\ UNCHANGED <<staged, file>>
       \/ /\ q.pc = "held"
          /\ staged' = IF staged = 0 THEN Len(file) + 1 ELSE staged
          /\ file' = IF staged = 0 THEN Append(file, <<>>) ELSE file
          /\ request' = [request EXCEPT ![r].pc = "write", ![r].file = staged']
    /\ UNCHANGED <<page, saved, sweeping, refused, faults>>

\* The partial is opened, or created, and measured by its descriptor.
Open(r) ==
    LET inode == IF staged = 0 THEN Len(file) + 1 ELSE staged
        held == IF staged = 0 THEN 0 ELSE Len(file[staged])
        goto(pc, answer) ==
            request' = [request EXCEPT ![r].pc = pc, ![r].file = inode,
                                       ![r].answer = answer]
    IN
    /\ request[r].pc = "sent"
    /\ staged' = inode
    /\ file' = IF staged = 0 THEN Append(file, <<>>) ELSE file
    /\ \/ /\ goto(IF 2 * request[r].chunk > held THEN "drop" ELSE "write",
                  "conflict")
          /\ UNCHANGED <<refused, faults>>
       \/ /\ held < 2 * Chunks /\ faults > 0       \* larger than what is free
          /\ goto("drop", "full")
          /\ refused' = TRUE /\ faults' = faults - 1
    /\ UNCHANGED <<page, saved, sweeping>>

\* The blocks of s after a write of one at offset at.
Put(s, at) ==
    [b \in 1..(IF at < Len(s) THEN Len(s) ELSE at + 1) |->
        CASE b = at + 1 -> "data"
          [] b # at + 1 /\ b <= Len(s) -> s[b]
          [] OTHER -> "hole"]

\* seek() and the first block, then the second; the last chunk cuts the file
\* to its length.
Write(r) ==
    LET q == request[r]
        at == IF q.pc = "write" THEN 2 * q.chunk ELSE 2 * q.chunk + 1
    IN
    /\ q.pc \in {"write", "rest"}
    /\ \/ /\ file' = [file EXCEPT ![q.file] =
                        IF Final(q.chunk) /\ q.pc = "rest"
                        THEN SubSeq(Put(@, at), 1, 2 * Chunks) ELSE Put(@, at)]
          /\ CASE q.pc = "write" -> Goto(r, "rest")
               [] q.pc = "rest" /\ Final(q.chunk) -> Goto(r, "move")
               [] q.pc = "rest" /\ ~Final(q.chunk) -> Respond(r, "ok")
          /\ UNCHANGED <<refused, faults>>
       \/ /\ at >= Len(file[q.file]) /\ faults > 0          \* ENOSPC
          /\ request' = [request EXCEPT ![r].pc = "drop", ![r].answer = "full"]
          /\ refused' = TRUE /\ faults' = faults - 1
          /\ UNCHANGED file
    /\ UNCHANGED <<page, staged, saved, sweeping>>

\* A rejection removes the partial by its name.
Drop(r) ==
    /\ request[r].pc = "drop"
    /\ staged' = 0
    /\ Respond(r, request[r].answer)
    /\ UNCHANGED <<page, file, saved, sweeping, refused, faults>>

\* os.replace() of what is at the path by now.
Move(r) ==
    /\ request[r].pc = "move"
    /\ IF staged = 0 THEN Respond(r, "error")
       ELSE request' = [request EXCEPT ![r].pc = "row", ![r].file = staged]
    /\ staged' = 0
    /\ UNCHANGED <<page, file, saved, sweeping, refused, faults>>

MakeRow(r) ==
    /\ request[r].pc = "row"
    /\ saved' = saved \cup {request[r].file}
    /\ Respond(r, "ok")
    /\ UNCHANGED <<page, file, staged, sweeping, refused, faults>>

Handle(r) == Open(r) \/ Write(r) \/ Drop(r) \/ Move(r) \/ MakeRow(r)

-----------------------------------------------------------------------------
(* Around the threads. *)

Running(r) == request[r].pc \notin {"sent", "answer", "over"}

Restart ==
    /\ faults > 0 /\ faults' = faults - 1
    /\ \E r \in DOMAIN request : Running(r)
    /\ request' = [r \in DOMAIN request |->
                        IF Running(r) THEN Over ELSE request[r]]
    /\ UNCHANGED <<page, file, staged, saved, sweeping, refused>>

\* The sweep of partials without a write for an hour: no request lasts so long.
\* find deletes the name right after it looked at the age, sooner than the
\* page can send another request.
FindOld ==
    /\ faults > 0 /\ faults' = faults - 1
    /\ staged # 0 /\ ~sweeping
    /\ \A r \in DOMAIN request :
            ~Running(r) /\ (r # Current => request[r] = Over)
    /\ sweeping' = TRUE
    /\ UNCHANGED <<page, request, file, staged, saved, refused>>

DeleteOld ==
    /\ sweeping /\ sweeping' = FALSE
    /\ staged' = 0
    /\ UNCHANGED <<page, request, file, saved, refused, faults>>

Next ==
    \/ Send \/ Lost \/ Answered
    \/ \E r \in DOMAIN request : Handle(r)
    \/ Restart \/ FindOld \/ DeleteOld

Spec == Init /\ [][Next]_uploadVars

-----------------------------------------------------------------------------
(* Properties *)

\* The asset's file is the one the operator chose.  "The open would recreate it
\* empty ... and the asset would be silently corrupt" is what measuring the
\* descriptor is there to prevent.  It does not hold of every step: Move renames
\* what is at the path, and a repeated request may have created that after
\* another one, refused for want of space, removed the partial.
AssetIsWhole == \A f \in saved : file[f] = Whole

\* A file is uploaded at most once however often its requests are repeated,
\* and what the page tells the operator is true: "ok" means that the asset is
\* there, a plain failure that it is not and never will be.  As long as no disk
\* is full the asset is whole, whatever was swept, repeated or cut short.
ReportIsTrue ==
    /\ \A f, g \in saved : f = g
    /\ page.state = "ok" => saved # {}
    /\ page.state = "failed" => saved = {}
    /\ ~refused => AssetIsWhole
=============================================================================

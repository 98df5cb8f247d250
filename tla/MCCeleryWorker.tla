--------------------------- MODULE MCCeleryWorker ---------------------------
(***************************************************************************)
(* The Celery container: the guard of one pool child and the revalidation  *)
(* tasks.  The two share no variable, so a joint state says no more than   *)
(* its halves: "part" names the half that moves, and the other stays in an *)
(* initial state.  The lock needs two workers and no rows that change, the *)
(* verdicts need changing rows and one worker; each is an instance.        *)
(***************************************************************************)
EXTENDS SoftTimeoutGuard

CONSTANTS
    Asset, Way,
    Worker, w1,                 \* the pool's children, and one of them
    Soft, Hard, Slack, Debounce, Cooldown, MaxEdits, MaxFaults

VARIABLES part, row, verdicts, web, form, queue, task, lock, debounce, cooldown,
          edits, faults

Rivals == INSTANCE UrlSweep WITH verdict <- verdicts

Rows == INSTANCE UrlSweep WITH
    verdict <- verdicts, Worker <- {w1}, Slack <- 0, Cooldown <- 2,
    MaxEdits <- 2

ASSUME SweepAssumptions == Rivals!SweepAssumption /\ Rows!SweepAssumption

sweepVars == <<row, verdicts, web, form, queue, task, lock, debounce,
               cooldown, edits, faults>>
allVars == <<part, vars, sweepVars>>

MCInit ==
    /\ Init
    /\ \/ part \in {"guard", "rivals"} /\ Rivals!Init
       \/ part = "rows" /\ Rows!Init

MCNext ==
    /\ UNCHANGED part
    /\ \/ part = "guard" /\ Next /\ UNCHANGED sweepVars
       \/ part = "rivals" /\ Rivals!Next /\ UNCHANGED vars
       \/ part = "rows" /\ Rows!Next /\ UNCHANGED vars

MCSpec ==
    /\ MCInit /\ [][MCNext]_allVars
    /\ part = "rows" => Rows!Fairness

NoRivalSweep == part = "rivals" => Rivals!NoRivalSweep
VerdictSettles == part = "rows" => Rows!VerdictSettles
=============================================================================

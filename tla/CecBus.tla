------------------------------- MODULE CecBus -------------------------------
(***************************************************************************)
(* HDMI-CEC as the viewer drives it: one command at a time fans out over   *)
(* the adapters, each on a worker thread that is abandoned when it takes   *)
(* too long (src/src/anthias_server/lib/cec.py).                           *)
(*                                                                         *)
(* An abandoned thread is not stopped: it goes on with its own descriptor  *)
(* whenever the driver lets it, and what it clears or sends is shared.     *)
(* The logical address of an adapter outlives the process that claimed it. *)
(* One thread serves the commands, so _bus_mutex is never contended.       *)
(***************************************************************************)
EXTENDS Integers, FiniteSets

CONSTANTS
    Adapter,        \* the n of the /dev/cec<n> that can transmit
    MaxCommands,    \* bound: commands received
    MaxFaults       \* bound: refusals, wedges, restarts, cables replugged

CecAssumption ==
    Adapter \subseteq Nat /\ MaxCommands \in Nat /\ MaxFaults \in Nat

VARIABLES
    link,       \* the port has a physical address
    peer,       \* the display behind it
    addr,       \* the logical address of the adapter, kept by the kernel
    up,         \* the viewer runs
    command,    \* the command being served
    todo,       \* adapters of its fan-out that are still to come
    results,    \* what the others came to, by adapter
    worker,     \* the thread it waits for
    straggler,  \* a thread that was given up
    answer,     \* the reply to the last command
    spoke,      \* history: what displays told this command
    hurt,       \* history: something disturbed this command
    left, faults \* bounds

world == <<link, peer>>
threads == <<worker, straggler>>
vars == <<world, addr, up, command, todo, results, threads, answer, spoke,
          hurt, left, faults>>

NoThread == [at |-> "none"]
Running(thread) == thread # NoThread

\* Replies to a query and to a command.
Status(status) == [status |-> status, acknowledged |-> 0, attempted |-> 0]
Sent(acknowledged, attempted) ==
    [status |-> "sent", acknowledged |-> acknowledged, attempted |-> attempted]

\* "odd": answers with a code nobody knows; "deaf": a plain monitor.
Peer == {"on", "standby", "moving", "odd", "deaf"}

Init ==
    /\ link \in [Adapter -> BOOLEAN] /\ peer \in [Adapter -> Peer]
    /\ addr \in [Adapter -> {"none", "claimed"}]    \* libcec left it claimed
    /\ up = TRUE
    /\ command = "none" /\ todo = {} /\ results = <<>>
    /\ worker = NoThread /\ straggler = NoThread
    /\ answer = Status("none") /\ spoke = {} /\ hurt = FALSE
    /\ left = MaxCommands /\ faults = MaxFaults

Fault == faults > 0 /\ faults' = faults - 1

-----------------------------------------------------------------------------
(* One operation on one adapter.  A step takes a thread and gives what     *)
(* becomes of it.                                                          *)

Goes(thread, at) == [thread EXCEPT !.at = at]
Ends(thread, outcome) == [thread EXCEPT !.at = "done", !.outcome = outcome]

SetAddr(a, value) == addr' = [addr EXCEPT ![a] = value]

\* Mutant: the adapter is configured without clearing what is there.
ClearSkipped(thread, next) ==
    thread.at = "open" /\ next = Goes(thread, "configure") /\ UNCHANGED addr

\* CEC_ADAP_S_LOG_ADDRS with no address, whoever claimed the one there is.
Clear(thread, next) ==
    /\ thread.at = "open"
    /\ next = Goes(thread, "configure") /\ SetAddr(thread.adapter, "none")

Configure(thread, next) ==
    /\ thread.at = "configure"
    /\ IF addr[thread.adapter] = "none"
       THEN next = Goes(thread, "poll") /\ SetAddr(thread.adapter, "claiming")
       ELSE next = Ends(thread, "error") /\ UNCHANGED addr      \* EBUSY

Claimed(thread, next) ==
    /\ thread.at = "poll" /\ addr[thread.adapter] = "claimed"
    /\ next = Goes(thread, "transmit") /\ UNCHANGED addr

\* Nothing is released: the claim may still complete.
ClaimTimesOut(thread, next) ==
    /\ thread.at = "poll" /\ addr[thread.adapter] # "claimed"
    /\ next = Ends(thread, "error") /\ UNCHANGED addr

Reported(state) ==
    CASE state = "deaf" -> "no-peer"
      [] state = "moving" -> "transitioning"
      [] state = "odd" -> "unknown"
      [] OTHER -> state

\* What the display makes of the message: power query, image view on, standby.
\* Without an address of its own the adapter sends nothing.
Outcome(thread) ==
    LET a == thread.adapter IN
    IF addr[a] # "claimed" THEN "error"
    ELSE IF thread.command = "query"
    THEN IF link[a] THEN Reported(peer[a]) ELSE "no-peer"
    ELSE IF link[a] /\ peer[a] # "deaf" THEN "ack" ELSE "nack"

Obeys(thread) ==
    IF Outcome(thread) = "ack" /\ peer[thread.adapter] # "odd"
    THEN [peer EXCEPT ![thread.adapter] =
             IF thread.command = "off" THEN "standby" ELSE "on"]
    ELSE peer

Transmit(thread, next) ==
    /\ thread.at = "transmit"
    /\ next = [thread EXCEPT !.at = "release", !.outcome = Outcome(thread)]
    /\ peer' = Obeys(thread)
    /\ UNCHANGED addr

Release(thread, next) ==
    /\ thread.at = "release"
    /\ next = Goes(thread, "done") /\ SetAddr(thread.adapter, "none")

Step(thread, next) ==
    /\ Running(thread) /\ ~thread.wedged
    /\ \/ /\ \/ Clear(thread, next) \/ Configure(thread, next)
             \/ Claimed(thread, next) \/ Release(thread, next)
          /\ UNCHANGED peer
       \/ Transmit(thread, next)

-----------------------------------------------------------------------------
(* The fan-out. *)

Said == {results[a] : a \in DOMAIN results}

\* power_status(): a conservative aggregate of what the displays said.
PowerStatus ==
    LET answered == Said \cap {"on", "standby", "transitioning"} IN
    CASE answered = {} -> IF "error" \in Said THEN "error" ELSE "no-peer"
      [] answered = {"on"} -> "on"
      [] answered = {"standby"} -> "standby"
      [] OTHER -> "unknown"

\* set_power() answers how many of how many acknowledged.
Reply ==
    IF command = "query" THEN Status(PowerStatus)
    ELSE Sent(Cardinality({a \in DOMAIN results : results[a] = "ack"}),
              Cardinality(DOMAIN results))

\* enumerate() and live(): an adapter that cannot be opened is skipped.
Live(broken) == {a \in Adapter \ broken : link[a]}

\* Without an adapter, or without a link, nothing is asked.
NothingToDo(broken, order) ==
    CASE order # "query" -> Sent(0, 0)
      [] Adapter \subseteq broken -> Status("no-adapter")
      [] OTHER -> Status("no-link")

Receive(order, broken) ==
    /\ up /\ command = "none" /\ left > 0
    /\ left' = left - 1
    /\ IF broken = {} THEN UNCHANGED faults ELSE Fault
    /\ spoke' = {} /\ hurt' = (broken # {} \/ Running(straggler))
    /\ results' = <<>>
    /\ IF Live(broken) = {}
       THEN /\ answer' = NothingToDo(broken, order)
            /\ UNCHANGED <<command, todo>>
       ELSE command' = order /\ todo' = Live(broken) /\ answer' = Status("none")
    /\ UNCHANGED <<world, addr, up, threads>>

\* In the order of the names; has_link is what the enumeration saw.
StartsOperation(a) ==
    /\ command # "none" /\ ~Running(worker)
    /\ a \in todo /\ \A b \in todo : a <= b
    /\ worker' = [adapter |-> a, command |-> command, at |-> "open",
                  outcome |-> "none", wedged |-> FALSE]
    /\ todo' = todo \ {a}
    /\ UNCHANGED <<world, addr, up, command, results, straggler, answer, spoke,
                   hurt, left, faults>>

ResultIs(outcome) ==
    /\ results' = [a \in DOMAIN results \cup {worker.adapter} |->
                      IF a = worker.adapter THEN outcome ELSE results[a]]
    /\ worker' = NoThread

Collect ==
    /\ Running(worker) /\ worker.at = "done"
    /\ ResultIs(worker.outcome)
    /\ UNCHANGED <<world, addr, up, command, todo, straggler, answer, spoke,
                   hurt, left, faults>>

\* _run_bounded(): the join times out, the thread stays (at most one here).
GiveUp ==
    /\ Running(worker) /\ worker.wedged /\ ~Running(straggler)
    /\ straggler' = worker
    /\ ResultIs("error")
    /\ spoke' = {s \in spoke : s[1] # worker.adapter}
    /\ UNCHANGED <<world, addr, up, command, todo, answer, hurt, left, faults>>

Answers ==
    /\ command # "none" /\ todo = {} /\ ~Running(worker)
    /\ answer' = Reply /\ command' = "none"
    /\ UNCHANGED <<world, addr, up, todo, results, threads, spoke, hurt, left,
                   faults>>

-----------------------------------------------------------------------------
(* The threads, the driver and the cables. *)

\* A display that answers a query counts as having spoken to this command.
Heard ==
    IF worker.at = "transmit" /\ worker.command = "query"
       /\ Outcome(worker) \notin {"error", "no-peer"}
    THEN spoke \cup {<<worker.adapter, Outcome(worker)>>} ELSE spoke

WorkerSteps ==
    /\ Step(worker, worker')
    /\ spoke' = Heard
    /\ UNCHANGED <<link, up, command, todo, results, straggler, answer, hurt,
                   left, faults>>

StragglerSteps ==
    /\ Step(straggler, straggler')
    /\ hurt' = (hurt \/ command # "none")
    /\ UNCHANGED <<link, up, command, todo, results, worker, answer, spoke,
                   left, faults>>

StragglerEnds ==
    /\ Running(straggler) /\ straggler.at = "done"
    /\ straggler' = NoThread
    /\ UNCHANGED <<world, addr, up, command, todo, results, worker, answer,
                   spoke, hurt, left, faults>>

\* The kernel claims on its own time, and only with a display attached.
KernelClaims(a) ==
    /\ addr[a] = "claiming" /\ link[a]
    /\ SetAddr(a, "claimed")
    /\ UNCHANGED <<world, up, command, todo, results, threads, answer, spoke,
                   hurt, left, faults>>

\* Two seconds without an address: it was slow (a fault), or cannot be had.
ClaimFails ==
    \/ /\ Running(worker) /\ ~worker.wedged /\ ClaimTimesOut(worker, worker')
       /\ IF addr[worker.adapter] = "claiming" /\ link[worker.adapter]
          THEN Fault /\ hurt' = TRUE ELSE UNCHANGED <<faults, hurt>>
       /\ UNCHANGED <<world, up, command, todo, results, straggler, answer,
                      spoke, left>>
    \/ /\ Running(straggler) /\ ~straggler.wedged
       /\ ClaimTimesOut(straggler, straggler')
       /\ UNCHANGED <<world, up, command, todo, results, worker, answer, spoke,
                      hurt, left, faults>>

\* The node does not open, or the driver refuses the configuration.
Refuses ==
    /\ Running(worker) /\ worker.at \in {"open", "configure"} /\ ~worker.wedged
    /\ Fault
    /\ worker' = Ends(worker, "error") /\ hurt' = TRUE
    /\ UNCHANGED <<world, addr, up, command, todo, results, straggler, answer,
                   spoke, left>>

\* An ioctl that does not come back; later, perhaps, it does.
Wedges ==
    /\ Running(worker) /\ worker.at \notin {"poll", "done"} /\ ~worker.wedged
    /\ Fault
    /\ worker' = [worker EXCEPT !.wedged = TRUE] /\ hurt' = TRUE
    /\ UNCHANGED <<world, addr, up, command, todo, results, straggler, answer,
                   spoke, left>>

Unwedges ==
    /\ Running(straggler) /\ straggler.wedged
    /\ straggler' = [straggler EXCEPT !.wedged = FALSE]
    /\ UNCHANGED <<world, addr, up, command, todo, results, worker, answer,
                   spoke, hurt, left, faults>>

\* Without a physical address there is no logical one either.
Replug(a, to) ==
    /\ Fault
    /\ link' = [link EXCEPT ![a] = to # "nothing"]
    /\ IF to = "nothing"
       THEN UNCHANGED peer /\ SetAddr(a, "none")
       ELSE peer' = [peer EXCEPT ![a] = to] /\ UNCHANGED addr
    /\ hurt' = (hurt \/ command # "none")
    /\ UNCHANGED <<up, command, todo, results, threads, answer, spoke, left>>

\* The viewer dies with its threads; the address stays as it is.
Crash ==
    /\ up /\ Fault
    /\ up' = FALSE
    /\ command' = "none" /\ todo' = {} /\ results' = <<>>
    /\ worker' = NoThread /\ straggler' = NoThread
    /\ answer' = Status("none") /\ spoke' = {} /\ hurt' = FALSE
    /\ UNCHANGED <<world, addr, left>>

Restart ==
    /\ ~up /\ up' = TRUE
    /\ UNCHANGED <<world, addr, command, todo, results, threads, answer, spoke,
                   hurt, left, faults>>

Command ==
    \/ \E order \in {"query", "on", "off"}, broken \in SUBSET Adapter :
           Receive(order, broken)
    \/ \E a \in Adapter : StartsOperation(a)
    \/ Collect \/ GiveUp \/ Answers

Environment ==
    \/ StragglerSteps \/ StragglerEnds \/ Unwedges
    \/ \E a \in Adapter : KernelClaims(a)
    \/ \E a \in Adapter, to \in {"on", "deaf", "nothing"} : Replug(a, to)
    \/ Refuses \/ Wedges \/ ClaimFails
    \/ Crash \/ Restart

Next == Command \/ WorkerSteps \/ Environment

Spec == Init /\ [][Next]_vars

-----------------------------------------------------------------------------
(* Properties. *)

\* The status of the displays is never made up: "on" and "standby" are what
\* every display said that told its state to this very command, and "could
\* not ask", for a query as for a command, means that something went wrong
\* while it ran.  An address left behind by libcec, by a viewer that died or
\* by a claim that came late is not enough: each operation clears it first.
OutcomeIsHonest ==
    [][Answers =>
         /\ answer'.status \in {"on", "standby"} =>
              /\ \E a \in Adapter : <<a, answer'.status>> \in spoke
              /\ \A s \in spoke : s[2] \in {answer'.status, "unknown"}
         /\ "error" \in Said => hurt]_vars

\* What the comment on NO_PEER says: nothing acknowledged.
SilenceMeansNobodySpoke ==
    [][Answers /\ answer'.status = "no-peer" => spoke = {}]_vars

\* The last command that every display acknowledged is what they show.
LastCommandWins ==
    [][StragglerSteps => UNCHANGED peer]_vars
=============================================================================

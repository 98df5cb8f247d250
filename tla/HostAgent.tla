----------------------------- MODULE HostAgent -----------------------------
(***************************************************************************)
(* The addresses of the device: the host agent that reads them, the cache  *)
(* in Redis, and the server that polls or waits for them                   *)
(* (src/src/anthias_host_agent/__main__.py, anthias_server/api/views/v2.py,*)
(* anthias_common/utils.py).                                               *)
(*                                                                         *)
(* The agent takes one command at a time from a channel that keeps nothing *)
(* while it is down.  Its probing refresh may take a minute.  A poll asks  *)
(* for a refresh at most once per debounce window of its kind.             *)
(***************************************************************************)
EXTENDS Integers, Sequences

CONSTANTS
    Address,
    Missing,        \* no such key
    MaxQueue,       \* bound: commands on their way
    MaxChanges,     \* bound: changes of the addresses
    MaxFaults       \* bound: crashes, failing reads and publishes

HostAssumption ==
    /\ MaxQueue \in Nat \ {0} /\ MaxChanges \in Nat /\ MaxFaults \in Nat
    /\ \A list \in SUBSET Address : list # Missing

VARIABLES
    have,       \* addresses on the wired and wireless interfaces
    cached,     \* ip_addresses
    ready,      \* ip_addresses_ready
    known,      \* host_agent_ready
    queue,      \* the channel hostcmd
    agent, found, \* the agent, and what it has read but not written
    pending,    \* the debounce keys that exist
    asker, fresh, \* get_node_ip() in a request; cached written since it asked
    changes, faults \* bounds

store == <<cached, ready, known>>
host == <<agent, found>>
request == <<asker, fresh>>
hostVars == <<have, store, queue, host, pending, request, changes, faults>>

AgentCommand == {"set_ip_addresses", "set_ip_addresses_fast"}

HostInit ==
    /\ have \in SUBSET Address
    /\ cached = Missing /\ ready = FALSE /\ known = FALSE
    /\ queue = <<>> /\ agent = "down" /\ found = {}
    /\ pending = {}
    /\ asker = "idle" /\ fresh = FALSE
    /\ changes = MaxChanges /\ faults = MaxFaults

Fault == faults > 0 /\ faults' = faults - 1

\* A message to nobody is gone.
Published(command) ==
    queue' = IF agent = "down" THEN queue ELSE Append(queue, command)

-----------------------------------------------------------------------------
(* The agent. *)

\* subscriber_loop(): the facts of the host are published before the flag.
AgentStarts ==
    /\ agent = "down"
    /\ agent' = "idle" /\ known' = TRUE
    /\ UNCHANGED <<have, cached, ready, queue, found, pending, request, changes,
                   faults>>

\* Anything else on the channel is refused by the list of commands.
AgentTakes ==
    /\ agent = "idle" /\ queue # <<>>
    /\ queue' = Tail(queue) /\ ready' = FALSE
    /\ agent' = IF Head(queue) = "set_ip_addresses" THEN "probe" ELSE "fast"
    /\ UNCHANGED <<have, cached, known, found, pending, request, changes, faults>>

\* It answers or has failed ten times; the flag is raised before the reading.
Probed ==
    /\ agent = "probe"
    /\ agent' = "read" /\ ready' = TRUE
    /\ UNCHANGED <<have, cached, known, queue, found, pending, request, changes,
                   faults>>

\* A netlink socket that fails reads as no addresses.
Reads ==
    /\ agent \in {"read", "fast"}
    /\ agent' = IF agent = "read" THEN "write" ELSE "write fast"
    /\ \/ found' = have /\ UNCHANGED faults
       \/ found' = {} /\ Fault
    /\ UNCHANGED <<have, store, queue, pending, request, changes>>

Writes ==
    /\ agent \in {"write", "write fast"}
    /\ cached' = found /\ fresh' = TRUE
    /\ agent' = IF agent = "write" THEN "idle" ELSE "raise"
    /\ UNCHANGED <<have, ready, known, queue, found, pending, asker, changes,
                   faults>>

Raises ==
    /\ agent = "raise"
    /\ agent' = "idle" /\ ready' = TRUE
    /\ UNCHANGED <<have, cached, known, queue, found, pending, request, changes,
                   faults>>

AgentDies ==
    /\ agent # "down" /\ Fault
    /\ agent' = "down" /\ queue' = <<>>
    /\ UNCHANGED <<have, store, found, pending, request, changes>>

Agent == AgentTakes \/ Probed \/ Reads \/ Writes \/ Raises

-----------------------------------------------------------------------------
(* The polls of the server. *)

\* _publish_refresh(): the key is dropped again when the publish fails.
Refresh(kind, command) ==
    IF kind \in pending THEN UNCHANGED <<queue, pending, faults>>
    ELSE \/ /\ pending' = pending \cup {kind}
            /\ Published(command)
            /\ UNCHANGED faults
         \/ Fault /\ UNCHANGED <<queue, pending>>

SplashPolls ==
    /\ Refresh("splash", "set_ip_addresses")
    /\ UNCHANGED <<have, store, host, request, changes>>

\* No internet probe, and a window of its own.
SetupRefresh == Refresh("setup", "set_ip_addresses_fast")

SetupPolls ==
    SetupRefresh /\ UNCHANGED <<have, store, host, request, changes>>

\* Mutant: the key is set without a time to live.
NeverExpires(kind) == kind \in pending /\ FALSE /\ UNCHANGED hostVars

\* The key expires; the agent keeps up with the windows, or nearly.
DebounceExpires(kind) ==
    /\ kind \in pending /\ Len(queue) < MaxQueue
    /\ pending' = pending \ {kind}
    /\ UNCHANGED <<have, store, queue, host, request, changes, faults>>

-----------------------------------------------------------------------------
(* get_node_ip(), in a request that waits. *)

Asks ==
    /\ asker = "idle"
    /\ asker' = "await"
    /\ UNCHANGED <<have, store, queue, host, pending, fresh, changes, faults>>

\* The agent is ready, or was not in a minute.
AskPublishes ==
    /\ asker = "await" /\ Len(queue) < MaxQueue
    /\ Published("set_ip_addresses")
    /\ asker' = "gate" /\ fresh' = FALSE
    /\ UNCHANGED <<have, store, host, pending, changes, faults>>

\* The flag is up, or was not in twenty seconds: one failing read at most.
AskPasses ==
    /\ asker = "gate"
    /\ IF ready THEN UNCHANGED faults ELSE Fault
    /\ asker' = IF ready THEN "passed" ELSE "late"
    /\ UNCHANGED <<have, store, queue, host, pending, fresh, changes>>

AskReads ==
    /\ asker \in {"passed", "late"}
    /\ asker' = "idle"
    /\ UNCHANGED <<have, store, queue, host, pending, fresh, changes, faults>>

Ask == Asks \/ AskPublishes \/ AskPasses \/ AskReads

NetworkChanges ==
    /\ changes > 0 /\ changes' = changes - 1
    /\ have' \in SUBSET Address \ {have}
    /\ UNCHANGED <<store, queue, host, pending, request, faults>>

HostNext ==
    \/ AgentStarts \/ Agent \/ AgentDies
    \/ SplashPolls \/ \E kind \in {"splash", "setup"} : DebounceExpires(kind)
    \/ Ask

\* systemd restarts the agent; Redis expires keys; the viewer polls for as
\* long as it runs, the splash page does not.
HostFairness ==
    /\ WF_hostVars(AgentStarts) /\ WF_hostVars(Agent)
    /\ WF_hostVars(DebounceExpires("setup"))

HostSpec ==
    /\ HostInit /\ [][HostNext \/ SetupPolls \/ NetworkChanges]_hostVars
    /\ HostFairness /\ WF_hostVars(SetupPolls)

-----------------------------------------------------------------------------
(* Properties. *)

\* The cache catches up with the addresses of the host, whatever the agent
\* was busy with, whichever commands were lost while it was down, and
\* although each kind of poll may only ask once per window.
AddressesCatchUp == []<>(cached = have)

\* What the comment in set_ip_addresses() says of a consumer that waits for
\* the flag: it does not read the list of an earlier run.
NodeIpIsFresh == asker = "passed" => fresh
=============================================================================

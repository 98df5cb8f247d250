------------------------------ MODULE MCDevice ------------------------------
(***************************************************************************)
(* The services of the device around its screen: the subscription commands *)
(* arrive by, the schedule that blanks the display, the watchers of the    *)
(* power supply and of the storage, and the agent that reads the addresses *)
(* of the host.  They share no variable here, so "part" names the one that *)
(* moves.  One fairness condition may speak of an action of each part:     *)
(* only that of the part that moves is ever enabled.                       *)
(***************************************************************************)
EXTENDS ViewerBus, StoragePromise, SupplyPromise

CONSTANTS lan, ap, Missing

VARIABLES
    part,
    enabled, wish, key, left, due, pc, wanted, restoring, up, blanked, box,
    reply, changes, faults,
    alarm, path, changed, writers, live, copy, watched, cached, dips, mishaps,
    worn, ssd, fact, viewerUp, watcher, checkDue, facts, draft, blows,
    have, addresses, ready, agentKnown, hostcmd, agent, found, pending, asker,
    fresh, moves, crashes

Power == INSTANCE DisplayPower WITH
    TTL <- 2, MaxChanges <- 3, MaxFaults <- 3

Supply == INSTANCE Undervoltage WITH
    pc <- writers, faults <- mishaps, MaxDips <- 2, MaxFaults <- 1

Storage == INSTANCE StorageHealth WITH
    pc <- watcher, due <- checkDue, copy <- draft, faults <- blows,
    MaxErrors <- 1, MaxFaults <- 2

Host == INSTANCE HostAgent WITH
    cached <- addresses, known <- agentKnown, queue <- hostcmd,
    changes <- moves, faults <- crashes,
    Address <- {lan, ap}, MaxQueue <- 2, MaxChanges <- 1, MaxFaults <- 1

ASSUME /\ BusAssumption /\ Power!PowerAssumption
       /\ Supply!UndervoltageAssumption /\ Storage!StorageAssumption
       /\ Host!HostAssumption

powerVars == <<enabled, wish, key, left, due, pc, wanted, restoring, up,
               blanked, box, reply, changes, faults>>
supplyVars == <<alarm, path, changed, bootKnown, bootNo, broker, record,
                writers, live, copy, watched, cached, dips, mishaps, dipped>>
storageVars == <<health, mounted, errors, recent, worn, ssd, boot, known, redis,
                 fact, viewerUp, latch, watcher, checkDue, facts, draft, hurt,
                 blows>>
hostVars == <<have, addresses, ready, agentKnown, hostcmd, agent, found, pending,
              asker, fresh, moves, crashes>>
allVars == <<part, vars, powerVars, supplyVars, storageVars, hostVars>>

MCInit ==
    /\ part \in {"bus", "power", "supply", "storage", "host"}
    /\ Init /\ Power!Init /\ Supply!Init /\ Storage!Init /\ Host!HostInit
    /\ part # "bus" => redisUp
    /\ part # "power" => enabled /\ wish = "on"
    /\ part # "supply" => bootKnown /\ path = 1 /\ ~alarm
    /\ part # "storage" => health = "good" /\ mounted /\ ssd
    /\ have \subseteq {ap} /\ (part # "host" => have = {})

Rest(p) ==
    /\ UNCHANGED part
    /\ p # "bus" => UNCHANGED vars
    /\ p # "power" => UNCHANGED powerVars
    /\ p # "supply" => UNCHANGED supplyVars
    /\ p # "storage" => UNCHANGED storageVars
    /\ p # "host" => UNCHANGED hostVars

Only(p, Act) == part = p /\ Act /\ Rest(p)

MCNext ==
    \/ Only("bus", Next) \/ Only("power", Power!Next)
    \/ Only("supply", Supply!Next) \/ Only("storage", Storage!Next)
    \/ Only("host", Host!HostNext \/ Host!SetupPolls \/ Host!NetworkChanges)

\* The fairness of the modules side by side.
MCSpec ==
    /\ MCInit /\ [][MCNext]_allVars
    /\ WF_allVars(\/ Only("bus", Run) \/ Only("power", Power!Beat)
                  \/ Only("supply", Supply!Watch)
                  \/ Only("storage", Storage!Watch)
                  \/ Only("host", Host!AgentStarts))
    /\ WF_allVars(\/ Only("bus", SchedulerStarts) \/ Only("power", Power!Task)
                  \/ Only("supply", Supply!RedisComesUp)
                  \/ Only("storage", Storage!RedisComesUp)
                  \/ Only("host", Host!Agent))
    /\ WF_allVars(\/ Only("bus", RedisComesUp) \/ Only("power", Power!Handle)
                  \/ Only("supply", Supply!RenderGoesOn)
                  \/ Only("host", Host!DebounceExpires("setup")))
    /\ WF_allVars(\/ Only("power", Power!ViewerStarts)
                  \/ Only("host", Host!SetupPolls))
    /\ SF_allVars(Only("storage", Storage!Elapses))

\* What comes to be of the part that moves: SubscriberComesBack and
\* AddressesCatchUp, of the two channels that keep nothing for a reader that
\* is down; ScreenFollowsSchedule; LatchFollowsAlarm and VerdictFollowsCard, of
\* the two watchers.
DeviceFollows ==
    []<>(/\ part = "bus" => SubscriberIsBack
         /\ part = "host" => addresses = have
         /\ part = "power" => Power!ScreenAgrees
         /\ part = "supply" => Supply!LatchAgrees
         /\ part = "storage" => Storage!VerdictAgrees)
=============================================================================

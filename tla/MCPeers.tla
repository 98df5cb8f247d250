------------------------------ MODULE MCPeers -------------------------------
(***************************************************************************)
(* What the device keeps open to a peer that may be gone, or be another    *)
(* one by now: the socket of a page, an upload, the process that shows the *)
(* content, and the displays on the CEC bus.  They share no variable, so   *)
(* "part" names the one that moves.  Sockets, and the threads that save,   *)
(* are interchangeable and every property of the run is a safety property. *)
(***************************************************************************)
EXTENDS WsAuth, TLC

CONSTANTS
    None, Pid, MaxAttempts, MaxCrashes,     \* of the process
    Chunks, Retries, MaxMishaps,            \* of the upload
    Adapter, MaxCommands, MaxUnrest         \* of the displays

VARIABLES
    part,
    page, request, file, staged, saved, sweeping, refused, faults,
    cage, screen, pidfd, proc, births, owner, pc, attempt, late, target, pin,
    candidate, browser, hit, crashes,
    link, peer, addr, up, command, todo, results, worker, straggler, answer,
    spoke, hurt, left, mishaps

Upload == INSTANCE UploadChunks WITH MaxFaults <- MaxMishaps

Spawn == INSTANCE WebviewSpawn WITH
    gen <- births, faults <- crashes, MaxFaults <- MaxCrashes

Cec == INSTANCE CecBus WITH
    faults <- mishaps, MaxFaults <- MaxUnrest

ASSUME PeersAssumption ==
    Upload!UploadAssumption /\ Spawn!SpawnAssumption /\ Cec!CecAssumption

uploadVars ==
    <<page, request, file, staged, saved, sweeping, refused, faults>>
spawnVars == <<cage, screen, pidfd, proc, births, owner, pc, attempt, late,
               target, pin, candidate, browser, hit, crashes>>
cecVars == <<link, peer, addr, up, command, todo, results, worker, straggler,
             answer, spoke, hurt, left, mishaps>>

MCInit ==
    /\ part \in {"socket", "upload", "webview", "displays"}
    /\ Init /\ Upload!Init /\ Spawn!Init /\ Cec!Init
    /\ part # "socket" => auth
    /\ part # "webview" => cage /\ screen /\ pidfd
    /\ part # "displays" =>
         \A a \in Adapter : link[a] /\ peer[a] = "on" /\ addr[a] = "none"
    /\ \A a \in Adapter \ {0} :
         peer[a] \in {"on", "standby"} /\ addr[a] = "none"

MCNext ==
    /\ UNCHANGED part
    /\ IF part = "socket" THEN Next ELSE UNCHANGED vars
    /\ IF part = "upload" THEN Upload!Next ELSE UNCHANGED uploadVars
    /\ IF part = "webview" THEN Spawn!Next ELSE UNCHANGED spawnVars
    /\ IF part = "displays" THEN Cec!Next ELSE UNCHANGED cecVars

MCSpec ==
    MCInit /\ [][MCNext]_<<part, vars, uploadVars, spawnVars, cecVars>>

ReportIsTrue == Upload!ReportIsTrue
OnlyViewersAreSignalled == Spawn!OnlyViewersAreSignalled
HandleOwnsName == Spawn!HandleOwnsName
OutcomeIsHonest == Cec!OutcomeIsHonest

Symmetric == Permutations(Socket) \cup Permutations(Writer)
=============================================================================

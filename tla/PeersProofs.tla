---------------------------- MODULE PeersProofs -----------------------------
(***************************************************************************)
(* Proofs about what the device keeps open to its peers.                   *)
(*                                                                         *)
(* Revocation of /ws authorization, for any number of sockets, of threads  *)
(* saving settings, of changes and of frames.  The argument: a socket that *)
(* is current (stamped with the present generation) and has a user cannot  *)
(* have a revoked one.  Resolving a user makes it so, because a session    *)
(* resolves only under the credentials that are current; a bump, the only  *)
(* step that revokes, leaves no resolved socket current.                   *)
(*                                                                         *)
(* Spawning AnthiasViewer, for any number of pids, attempts and crashes.   *)
(* The argument: a handle is a pid and the generation it was given at, the *)
(* generations only grow, and a process that got a number anew is of a     *)
(* later one; the bus knows no owner that is not an AnthiasViewer, and     *)
(* only the process it knows has announced itself.                         *)
(*                                                                         *)
(* The upload, for any number of chunks, retries and mishaps.  The         *)
(* argument: a file has no holes, so what an upload lacks is at its end,   *)
(* and each request that the page waits for writes to the file that has    *)
(* the name; what the disk or a sweep took away (Past, Cut) is answered    *)
(* with a refusal before the last chunk can be moved.                      *)
(*                                                                         *)
(* The CEC bus, for any set of adapters, of commands and of faults.  The   *)
(* argument: a result that a display stands for was heard by this command  *)
(* and nothing else was; and unless something disturbed the command, each  *)
(* operation finds the address it cleared itself, so none of them fails.   *)
(***************************************************************************)
EXTENDS MCPeers, TLAPS

-----------------------------------------------------------------------------
(* The sockets. *)

CurrentAreUnrevoked ==
    \A s \in Socket :
        sock[s].pc \in {"resolved", "open"} /\ sock[s].stamp = gen
            /\ sock[s].user # Anonymous => sock[s].user >= revoked

IInv == TypeOK /\ CurrentAreUnrevoked /\ NoFrameAfterRevocation

\* What TypeOK allows a saving thread while the counters are at c and g.
WriterState(c, g) ==
    [pc : {"idle", "bump", "publish", "enable"}, enables : BOOLEAN,
     version : 0..c, generation : 0..g]

\* A sequence over a set is one over any larger set.
LEMMA SeqMonotone ==
    ASSUME NEW S, NEW T, S \subseteq T, NEW q \in Seq(S)
    PROVE  q \in Seq(T)
  OBVIOUS

\* Removing the head of a queue changes it.
LEMMA TailDiffers ==
    ASSUME NEW S, NEW q \in Seq(S), q # <<>>
    PROVE  Tail(q) \in Seq(S) /\ Tail(q) # q /\ Head(q) \in S
  <1>1. Tail(q) \in Seq(S) /\ Len(Tail(q)) = Len(q) - 1 /\ Len(q) \in Nat \ {0}
    OBVIOUS
  <1>2. ASSUME Tail(q) = q PROVE FALSE
    <2>1. Len(Tail(q)) = Len(q)
      BY <1>2
    <2>2. QED
      BY <1>1, <2>1
  <1>3. Head(q) \in S
    OBVIOUS
  <1>4. QED
    BY <1>1, <1>2, <1>3

\* A broadcast keeps the queues well typed.
LEMMA BroadcastType ==
    ASSUME NEW M, inbox \in [Socket -> Seq(M)], NEW m \in M, Broadcast(m)
    PROVE  inbox' \in [Socket -> Seq(M)]
  <1>1. \A s \in Socket : Append(inbox[s], m) \in Seq(M)
    OBVIOUS
  <1>2. QED
    BY <1>1 DEF Broadcast

\* What may be queued depends on the counter alone.
LEMMA MessageStable == ASSUME gen' = gen PROVE Message' = Message
  BY DEF Message

LEMMA InitIInv == Init => IInv
  <1>1. ASSUME Init PROVE IInv
    <2>1. TypeOK
      BY <1>1, WsAssumption DEF Init, TypeOK, Closed, Quiet, Anonymous, Version
    <2>2. CurrentAreUnrevoked
      BY <1>1 DEF Init, CurrentAreUnrevoked, Closed
    <2>3. NoFrameAfterRevocation
      BY <1>1 DEF Init, NoFrameAfterRevocation, Quiet
    <2>4. QED
      BY <2>1, <2>2, <2>3 DEF IInv
  <1>2. QED
    BY <1>1

-----------------------------------------------------------------------------
(* Type correctness, one action at a time. *)

\* What a step that touches neither counter nor bound must still get right.
LEMMA TypeStepSockets ==
    ASSUME TypeOK,
           NEW s \in Socket,
           \/ \E c \in 0..cred \cup {Anonymous} : Stamp(s, c)
           \/ ResolveUser(s) \/ Connect(s) \/ ClientCloses(s)
           \/ AssetUpdate(s) \/ ForceDisconnect(s)
    PROVE  TypeOK'
  <1>1. ASSUME NEW c \in 0..cred \cup {Anonymous}, Stamp(s, c) PROVE TypeOK'
    <2>1. c \in Version /\ Anonymous \in Version
      BY DEF TypeOK, Version
    <2>2. sock' \in [Socket -> [pc : {"closed", "stamped", "resolved", "open"},
                                stamp : 0..gen', cookie : Version,
                                user : Version]]
      BY <1>1, <2>1 DEF TypeOK, Stamp
    <2>3. inbox' \in [Socket -> Seq(Message)']
      BY <1>1, MessageStable DEF TypeOK, Stamp
    <2>4. QED
      BY <1>1, <2>2, <2>3 DEF TypeOK, Stamp
  <1>2. CASE ResolveUser(s)
    <2>1. cred \in Version /\ Anonymous \in Version
      BY DEF TypeOK, Version
    <2>2. \A u \in Version : [sock[s] EXCEPT !.pc = "resolved", !.user = u]
              \in [pc : {"closed", "stamped", "resolved", "open"},
                   stamp : 0..gen, cookie : Version, user : Version]
      BY DEF TypeOK
    <2>3. sock' = [sock EXCEPT ![s] =
              [@ EXCEPT !.pc = "resolved",
                        !.user = IF sock[s].cookie = cred THEN cred
                                 ELSE Anonymous]]
      BY <1>2 DEF ResolveUser
    <2>4. sock' \in [Socket -> [pc : {"closed", "stamped", "resolved", "open"},
                                stamp : 0..gen, cookie : Version,
                                user : Version]]
      BY <2>1, <2>2, <2>3 DEF TypeOK
    <2>5. QED
      BY <1>2, <2>4, MessageStable DEF TypeOK, ResolveUser, bounds
  <1>3. Closed \in [pc : {"closed", "stamped", "resolved", "open"},
                    stamp : 0..gen, cookie : Version, user : Version]
    BY DEF Closed, TypeOK, Version
  <1>4. CASE Connect(s)
    <2>1. [sock[s] EXCEPT !.pc = "open"]
              \in [pc : {"closed", "stamped", "resolved", "open"},
                   stamp : 0..gen, cookie : Version, user : Version]
      BY DEF TypeOK
    <2>2. PICK v \in [pc : {"closed", "stamped", "resolved", "open"},
                      stamp : 0..gen, cookie : Version, user : Version] :
              sock' = [sock EXCEPT ![s] = v]
      BY <1>3, <1>4, <2>1 DEF Connect
    <2>3. sock' \in [Socket -> [pc : {"closed", "stamped", "resolved", "open"},
                                stamp : 0..gen, cookie : Version,
                                user : Version]]
      BY <2>2 DEF TypeOK
    <2>4. QED
      BY <1>4, <2>3, MessageStable DEF TypeOK, Connect, bounds
  <1>5. CASE ClientCloses(s)
    BY <1>3, <1>5, MessageStable DEF TypeOK, ClientCloses, bounds
  <1>6. CASE AssetUpdate(s)
    <2>1. Tail(inbox[s]) \in Seq(Message)
      BY <1>6, TailDiffers DEF TypeOK, AssetUpdate
    <2>2. delivered' \in [auth : BOOLEAN, user : Version, revoked : Nat]
      BY <1>6 DEF TypeOK, AssetUpdate
    <2>3. QED
      BY <1>6, <2>1, <2>2, MessageStable DEF TypeOK, AssetUpdate, bounds
  <1>7. CASE ForceDisconnect(s)
    <2>1. Tail(inbox[s]) \in Seq(Message)
      BY <1>7, TailDiffers DEF TypeOK, ForceDisconnect
    <2>2. QED
      BY <1>3, <1>7, <2>1, MessageStable DEF TypeOK, ForceDisconnect, bounds
  <1>8. QED
    BY <1>1, <1>2, <1>4, <1>5, <1>6, <1>7

\* The saves keep the writers' versions and generations within the counters.
LEMMA TypeStepWriters ==
    ASSUME TypeOK,
           NEW w \in Writer,
           \/ ToggleAuth(w) \/ ChangeUsername(w)
           \/ ChangeCredentials(w) \/ ChangeAndEnable(w)
           \/ Bump(w) \/ Publish(w) \/ Enable(w)
    PROVE  TypeOK'
  <1>1. ASSUME NEW e \in BOOLEAN, Save(w, e), auth' \in BOOLEAN,
               cred' = cred \/ cred' = cred + 1
        PROVE  TypeOK'
    <2>1. cred \in Nat /\ cred' \in Nat /\ cred <= cred' /\ revoked \in 0..cred'
      BY <1>1 DEF TypeOK
    <2>2. writer' \in [Writer -> WriterState(cred', gen)]
      <3>1. writer[w] \in WriterState(cred', gen) /\ cred' \in 0..cred'
        BY <2>1 DEF TypeOK, WriterState
      <3>2. [writer[w] EXCEPT !.pc = "bump", !.enables = e, !.version = cred']
                \in WriterState(cred', gen)
        BY <3>1 DEF WriterState
      <3>3. writer \in [Writer -> WriterState(cred', gen)]
        BY <2>1 DEF TypeOK, WriterState
      <3>4. writer' = [writer EXCEPT ![w] =
                [@ EXCEPT !.pc = "bump", !.enables = e, !.version = cred']]
        BY <1>1 DEF Save
      <3>5. QED
        BY <3>2, <3>3, <3>4
    <2>3. QED
      BY <1>1, <2>1, <2>2, MessageStable DEF TypeOK, WriterState, Save
  <1>2. CASE ToggleAuth(w)
    BY <1>1, <1>2 DEF ToggleAuth, TypeOK
  <1>3. CASE ChangeUsername(w)
    BY <1>1, <1>3 DEF ChangeUsername, TypeOK
  <1>4. CASE ChangeCredentials(w)
    BY <1>1, <1>4 DEF ChangeCredentials, TypeOK
  <1>5. CASE ChangeAndEnable(w)
    BY <1>1, <1>5 DEF ChangeAndEnable, TypeOK
  <1>6. CASE Bump(w)
    <2>1. gen \in Nat /\ gen' = gen + 1 /\ 0..gen \subseteq 0..gen'
      BY <1>6 DEF TypeOK, Bump, BumpBy
    <2>2. Message \subseteq Message'
      BY <2>1 DEF Message
    <2>3. inbox' \in [Socket -> Seq(Message')]
      BY <1>6, <2>2, SeqMonotone DEF TypeOK, Bump, BumpBy
    <2>4. writer' \in [Writer -> WriterState(cred, gen')]
      <3>1. writer[w] \in WriterState(cred, gen') /\ gen' \in 0..gen'
        BY <2>1 DEF TypeOK, WriterState
      <3>2. [writer[w] EXCEPT !.pc = "publish", !.generation = gen']
                \in WriterState(cred, gen')
        BY <3>1 DEF WriterState
      <3>3. writer \in [Writer -> WriterState(cred, gen')]
        BY <2>1 DEF TypeOK, WriterState
      <3>4. writer' = [writer EXCEPT ![w] =
                [@ EXCEPT !.pc = "publish", !.generation = gen']]
        BY <1>6 DEF Bump, BumpBy
      <3>5. QED
        BY <3>2, <3>3, <3>4
    <2>5. sock \in [Socket -> [pc : {"closed", "stamped", "resolved", "open"},
                               stamp : 0..gen', cookie : Version,
                               user : Version]]
      BY <2>1 DEF TypeOK
    <2>6. revoked' \in 0..cred
      BY <1>6 DEF TypeOK, Bump, BumpBy
    <2>7. QED
      BY <1>6, <2>1, <2>3, <2>4, <2>5, <2>6
         DEF TypeOK, WriterState, Bump, BumpBy, bounds
  <1>7. CASE Publish(w)
    <2>1. [type |-> "force_disconnect", own |-> TRUE,
           generation |-> writer[w].generation] \in Message
      BY DEF TypeOK, Message
    <2>2. inbox' \in [Socket -> Seq(Message)]
      BY <1>7, <2>1, BroadcastType DEF Publish, TypeOK
    <2>3. writer' \in [Writer -> WriterState(cred, gen)]
      <3>1. writer \in [Writer -> WriterState(cred, gen)]
        BY DEF TypeOK, WriterState
      <3>2. \A step \in {"idle", "enable"} :
                [writer[w] EXCEPT !.pc = step] \in WriterState(cred, gen)
        BY <3>1 DEF WriterState
      <3>3. QED
        BY <1>7, <3>1, <3>2 DEF Publish
    <2>4. QED
      BY <1>7, <2>2, <2>3, MessageStable DEF TypeOK, WriterState, Publish, bounds
  <1>8. CASE Enable(w)
    <2>1. writer \in [Writer -> WriterState(cred, gen)]
      BY DEF TypeOK, WriterState
    <2>2. [writer[w] EXCEPT !.pc = "idle"] \in WriterState(cred, gen)
      BY <2>1 DEF WriterState
    <2>3. writer' \in [Writer -> WriterState(cred, gen)]
      BY <1>8, <2>1, <2>2 DEF Enable
    <2>4. QED
      BY <1>8, <2>3, MessageStable DEF TypeOK, WriterState, Enable, bounds
  <1>9. QED
    BY <1>2, <1>3, <1>4, <1>5, <1>6, <1>7, <1>8

LEMMA TypeStep == TypeOK /\ [Next]_vars => TypeOK'
  <1> SUFFICES ASSUME TypeOK, [Next]_vars PROVE TypeOK'
    OBVIOUS
  <1>1. CASE NotifyAssetUpdate
    <2>1. [type |-> "asset_update"] \in Message
      BY DEF Message
    <2>2. inbox' \in [Socket -> Seq(Message)]
      BY <1>1, <2>1, BroadcastType DEF NotifyAssetUpdate, TypeOK
    <2>3. QED
      BY <1>1, <2>2, MessageStable DEF TypeOK, NotifyAssetUpdate
  <1>2. CASE ChangeElsewhere
    <2>1. [type |-> "force_disconnect", own |-> FALSE, generation |-> 1]
              \in Message
      BY DEF Message
    <2>2. inbox' \in [Socket -> Seq(Message)]
      BY <1>2, <2>1, BroadcastType DEF ChangeElsewhere, TypeOK
    <2>3. cred \in Nat /\ cred' = cred + 1 /\ 0..cred \subseteq 0..cred'
      BY <1>2 DEF TypeOK, ChangeElsewhere
    <2>4. writer \in [Writer -> WriterState(cred', gen)]
      BY <2>3 DEF TypeOK, WriterState
    <2>5. QED
      BY <1>2, <2>2, <2>3, <2>4, MessageStable
         DEF TypeOK, WriterState, ChangeElsewhere
  <1>3. CASE UNCHANGED vars
    BY <1>3, MessageStable DEF TypeOK, vars, bounds
  <1>4. QED
    BY <1>1, <1>2, <1>3, TypeStepSockets, TypeStepWriters DEF Next

-----------------------------------------------------------------------------
(* Revocation. *)

\* A socket that is current has no revoked user, whatever the step.
LEMMA CurrentStep ==
    TypeOK /\ CurrentAreUnrevoked /\ [Next]_vars => CurrentAreUnrevoked'
  <1> SUFFICES ASSUME TypeOK, CurrentAreUnrevoked, [Next]_vars
               PROVE  CurrentAreUnrevoked'
    OBVIOUS
  <1>1. ASSUME NEW s \in Socket, NEW c \in 0..cred \cup {Anonymous}, Stamp(s, c)
        PROVE  CurrentAreUnrevoked'
    BY <1>1 DEF Stamp, TypeOK, CurrentAreUnrevoked
  <1>2. ASSUME NEW s \in Socket, ResolveUser(s) PROVE CurrentAreUnrevoked'
    <2>1. revoked <= cred
      BY DEF TypeOK
    <2>2. QED
      BY <1>2, <2>1 DEF ResolveUser, TypeOK, CurrentAreUnrevoked, bounds
  <1>3. ASSUME NEW s \in Socket, Connect(s) PROVE CurrentAreUnrevoked'
    BY <1>3 DEF Connect, TypeOK, CurrentAreUnrevoked, Closed, bounds
  <1>4. ASSUME NEW s \in Socket,
               ClientCloses(s) \/ AssetUpdate(s) \/ ForceDisconnect(s)
        PROVE  CurrentAreUnrevoked'
    BY SMTT(20), <1>4 DEF ClientCloses, AssetUpdate, ForceDisconnect, TypeOK,
                CurrentAreUnrevoked, Closed, bounds
  <1>5. ASSUME NEW w \in Writer, Bump(w) PROVE CurrentAreUnrevoked'
    <2>1. \A s \in Socket : sock'[s].stamp # gen'
      BY <1>5 DEF Bump, BumpBy, TypeOK
    <2>2. QED
      BY <2>1 DEF CurrentAreUnrevoked
  <1>6. ASSUME UNCHANGED <<sock, gen, revoked>> PROVE CurrentAreUnrevoked'
    BY <1>6 DEF CurrentAreUnrevoked
  <1>7. ASSUME NEW w \in Writer,
               \/ ToggleAuth(w) \/ ChangeUsername(w)
               \/ ChangeCredentials(w) \/ ChangeAndEnable(w)
               \/ Publish(w) \/ Enable(w)
        PROVE  CurrentAreUnrevoked'
    BY <1>6, <1>7 DEF ToggleAuth, ChangeUsername, ChangeCredentials,
                      ChangeAndEnable, Save, Publish, Enable
  <1>8. CASE NotifyAssetUpdate \/ ChangeElsewhere \/ UNCHANGED vars
    BY <1>6, <1>8 DEF NotifyAssetUpdate, ChangeElsewhere, vars
  <1>9. QED
    BY <1>1, <1>2, <1>3, <1>4, <1>5, <1>7, <1>8 DEF Next

\* Only a current socket with a user is sent a frame while auth is on.
LEMMA DeliveryStep ==
    TypeOK /\ CurrentAreUnrevoked /\ NoFrameAfterRevocation /\ [Next]_vars
        => NoFrameAfterRevocation'
  <1> SUFFICES ASSUME TypeOK, CurrentAreUnrevoked, NoFrameAfterRevocation,
                      [Next]_vars
               PROVE  NoFrameAfterRevocation'
    OBVIOUS
  <1>1. ASSUME NEW s \in Socket, AssetUpdate(s) PROVE NoFrameAfterRevocation'
    <2>1. CASE ~IsAuthorized(s)
      BY <1>1, <2>1 DEF AssetUpdate, NoFrameAfterRevocation
    <2>2. CASE IsAuthorized(s) /\ ~auth
      BY <1>1, <2>2 DEF AssetUpdate, NoFrameAfterRevocation
    <2>3. CASE IsAuthorized(s) /\ auth
      <3>1. /\ sock[s].pc = "open" /\ sock[s].stamp = gen
            /\ sock[s].user # Anonymous
        BY <1>1, <2>3 DEF AssetUpdate, IsAuthorized
      <3>2. delivered' = [auth |-> auth, user |-> sock[s].user,
                          revoked |-> revoked]
        BY <1>1, <2>3 DEF AssetUpdate
      <3>3. QED
        BY <3>1, <3>2 DEF CurrentAreUnrevoked, NoFrameAfterRevocation
    <2>4. QED
      BY <2>1, <2>2, <2>3
  <1>2. ASSUME delivered' = delivered PROVE NoFrameAfterRevocation'
    BY <1>2 DEF NoFrameAfterRevocation
  <1>3. CASE UNCHANGED vars
    BY <1>2, <1>3 DEF vars
  <1>4. QED
    BY <1>1, <1>2, <1>3
       DEF Next, Stamp, ResolveUser, Connect, ClientCloses, ForceDisconnect,
           NotifyAssetUpdate, ToggleAuth, ChangeUsername, ChangeCredentials,
           ChangeAndEnable, Save, Bump, BumpBy, Publish, Enable,
           ChangeElsewhere

LEMMA WsAuthInvariant == Spec => []IInv
  <1>1. IInv /\ [Next]_vars => IInv'
    BY TypeStep, CurrentStep, DeliveryStep DEF IInv
  <1>2. QED
    BY InitIInv, <1>1, PTL DEF Spec

\* Sockets, writers and queued events keep to the counters: no event of this
\* process runs ahead of _auth_generation, no stamp does, and nothing revokes
\* credentials that are yet to come.
THEOREM WsTypeOK == Spec => []TypeOK
  <1>1. IInv => TypeOK
    BY DEF IInv
  <1>2. QED
    BY WsAuthInvariant, <1>1, PTL

\* The promise of asset_update() and disconnect_all(): while authentication is
\* on, no frame reaches a socket that is not authorized, however handshakes and
\* changes of credentials interleave and whatever the channel layer loses.
THEOREM RevocationFailsClosed == Spec => []NoFrameAfterRevocation
  <1>1. IInv => NoFrameAfterRevocation
    BY DEF IInv
  <1>2. QED
    BY WsAuthInvariant, <1>1, PTL

\* A socket closed by an event of this process was stamped before that change:
\* force_disconnect() leaves the operator's own reconnect alone.
THEOREM ReconnectsAreSpared == Spec => RevocationSparesReconnects
  <1> DEFINE Reaped(s) == /\ inbox[s] # <<>> /\ inbox'[s] = Tail(inbox[s])
                          /\ sock[s].pc = "open" /\ sock'[s].pc = "closed"
                          /\ Head(inbox[s]).own
  <1>1. TypeOK /\ [Next]_vars => [ReapsOnlyOlder]_vars
    <2> SUFFICES ASSUME TypeOK, Next, NEW s \in Socket, Reaped(s)
                 PROVE  sock[s].stamp < gen
      BY DEF ReapsOnlyOlder
    <2>1. inbox[s] \in Seq(Message)
      BY DEF TypeOK
    <2>2. inbox'[s] # inbox[s] /\ Head(inbox[s]) \in Message
      BY <2>1, TailDiffers
    <2>3. sock'[s] # sock[s]
      OBVIOUS
    <2>4. ASSUME NEW t \in Socket, ForceDisconnect(t)
          PROVE  sock[s].stamp < gen
      <3>1. t = s
        BY <2>3, <2>4 DEF ForceDisconnect, TypeOK
      <3>2. ~Spared(s, Head(inbox[s]))
        BY <2>3, <2>4, <3>1 DEF ForceDisconnect, TypeOK
      <3>3. Head(inbox[s]).generation \in 0..gen
        BY <2>2, <2>4, <3>1 DEF Message, ForceDisconnect
      <3>4. QED
        BY <3>2, <3>3 DEF Spared, TypeOK
    <2>5. ASSUME NEW t \in Socket,
                 \/ \E c \in 0..cred \cup {Anonymous} : Stamp(t, c)
                 \/ ResolveUser(t) \/ Connect(t) \/ ClientCloses(t)
                 \/ AssetUpdate(t)
          PROVE  FALSE
      BY <2>2, <2>3, <2>5 DEF Stamp, ResolveUser, Connect, ClientCloses,
                              AssetUpdate, TypeOK
    <2>6. ASSUME sock' = sock PROVE FALSE
      BY <2>3, <2>6
    <2>7. QED
      BY <2>4, <2>5, <2>6
         DEF Next, NotifyAssetUpdate, ToggleAuth, ChangeUsername,
             ChangeCredentials, ChangeAndEnable, Save, Bump, BumpBy, Publish,
             Enable, ChangeElsewhere
  <1>2. QED
    BY WsTypeOK, <1>1, PTL DEF Spec, RevocationSparesReconnects

-----------------------------------------------------------------------------
(* The process that shows the content. *)

Handle == (Pid \X Nat) \cup {None}

SpawnTypes ==
    /\ pidfd \in BOOLEAN /\ hit \in BOOLEAN
    /\ proc \in [Pid -> Spawn!Viewer \cup {"free", "stranger"}]
    /\ births \in [Pid -> Nat]
    /\ owner \in Pid \cup {None} /\ target \in Pid \cup {None}
    /\ pin \in Handle /\ candidate \in Handle /\ browser \in Handle
    /\ pc = "pin" => target # None

\* No handle is of a generation still to come.
HandlesAreOld ==
    \A h \in {pin, browser} : h # None => h[2] <= births[h[1]]

\* The bus knows the AnthiasViewer that serves, and no stranger.
BusKnowsViewers ==
    /\ owner # None => proc[owner] # "stranger"
    /\ \A p \in Pid : proc[p] = "serving" => owner = p

\* What is about to be signalled is pinned to the process that was confirmed.
PinnedIsViewer ==
    /\ pc = "confirm" /\ pin # None => pin[1] = target
    /\ pidfd /\ pc \in {"SIGTERM", "termed", "SIGKILL"} /\ pin # None
            /\ births[pin[1]] = pin[2]
         => proc[pin[1]] # "stranger"

BrowserIsServed ==
    Spawn!Alive(browser) =>
        owner = browser[1] /\ proc[browser[1]] \in Spawn!Viewer

SpawnInv ==
    /\ SpawnTypes /\ HandlesAreOld /\ BusKnowsViewers /\ PinnedIsViewer
    /\ BrowserIsServed /\ OnlyViewersAreSignalled

\* One process changes state for another that is no stranger, and neither
\* the bus nor a handle takes notice.
LEMMA ProcessChanges ==
  ASSUME SpawnInv, NEW p \in Pid, NEW what \in {"dying", "stuck", "free"},
         proc[p] # "free", Spawn!Becomes(p, what),
         UNCHANGED <<births, owner, pidfd, target, pin, candidate, browser>>,
         hit' \in BOOLEAN, pidfd => ~hit',
         \/ pc' \notin {"pin", "confirm", "SIGTERM", "termed", "SIGKILL"}
         \/ pc' = pc
         \/ pc = "SIGTERM" /\ pc' = "termed"
  PROVE  SpawnInv'
  <1> USE DEF Spawn!Viewer, Spawn!Becomes
  <1>1. SpawnTypes'
    BY DEF SpawnInv, SpawnTypes
  <1>2. HandlesAreOld'
    BY DEF SpawnInv, HandlesAreOld
  <1>3. BusKnowsViewers'
    <2>1. \A q \in Pid : proc'[q] = proc[q] \/ proc'[q] = what
      BY DEF SpawnInv, SpawnTypes
    <2>2. what # "serving" /\ what # "stranger" /\ owner' = owner
      OBVIOUS
    <2>3. owner # None => owner \in Pid
      BY DEF SpawnInv, SpawnTypes
    <2>4. QED
      BY <2>1, <2>2, <2>3 DEF SpawnInv, BusKnowsViewers
  <1>4. PinnedIsViewer'
    <2>1. ASSUME pin # None, proc[pin[1]] # "stranger"
          PROVE  proc'[pin[1]] # "stranger"
      BY <2>1 DEF SpawnInv, SpawnTypes, Handle
    <2>2. QED
      BY <2>1 DEF SpawnInv, PinnedIsViewer
  <1>5. BrowserIsServed'
    <2>1. ASSUME browser # None, proc'[browser[1]] # "free"
          PROVE  /\ proc[browser[1]] # "free"
                 /\ proc[browser[1]] \in Spawn!Viewer
                      => proc'[browser[1]] \in Spawn!Viewer
      BY <2>1 DEF SpawnInv, SpawnTypes, Handle
    <2>2. QED
      BY <2>1 DEF SpawnInv, BrowserIsServed, Spawn!Alive
  <1>6. OnlyViewersAreSignalled'
    BY DEF OnlyViewersAreSignalled, Spawn!OnlyViewersAreSignalled
  <1>7. QED
    BY <1>1, <1>2, <1>3, <1>4, <1>5, <1>6 DEF SpawnInv

\* A new process has its number at a generation no handle is of.
LEMMA ProcessStarts ==
  ASSUME SpawnInv, NEW p \in Pid, NEW what \in {"starting", "stranger"},
         proc[p] = "free", Spawn!Becomes(p, what),
         births' = [births EXCEPT ![p] = @ + 1],
         what = "stranger" => owner # p,
         UNCHANGED <<owner, pidfd, target, pin, browser, hit>>,
         candidate' \in Handle,
         \/ pc' \notin {"pin", "confirm", "SIGTERM", "termed", "SIGKILL"}
         \/ pc' = pc
  PROVE  SpawnInv'
  <1> USE DEF Spawn!Viewer, Spawn!Becomes
  <1>1. SpawnTypes'
    BY DEF SpawnInv, SpawnTypes, Handle
  <1>2. HandlesAreOld'
    BY DEF SpawnInv, SpawnTypes, HandlesAreOld, Handle
  <1>3. BusKnowsViewers'
    <2>1. \A q \in Pid : proc'[q] = proc[q] \/ (q = p /\ proc'[q] = what)
      BY DEF SpawnInv, SpawnTypes
    <2>2. owner # None => owner \in Pid
      BY DEF SpawnInv, SpawnTypes
    <2>3. QED
      BY <2>1, <2>2 DEF SpawnInv, BusKnowsViewers
  <1>4. ASSUME NEW h \in {pin, browser}, h # None, births'[h[1]] = h[2]
        PROVE  /\ h[1] # p /\ births[h[1]] = h[2]
               /\ proc'[h[1]] = proc[h[1]]
    BY <1>4 DEF SpawnInv, SpawnTypes, HandlesAreOld, Handle
  <1>5. PinnedIsViewer'
    BY <1>4 DEF SpawnInv, PinnedIsViewer
  <1>6. BrowserIsServed'
    BY <1>4 DEF SpawnInv, BrowserIsServed, Spawn!Alive
  <1>7. OnlyViewersAreSignalled'
    BY DEF SpawnInv, OnlyViewersAreSignalled, Spawn!OnlyViewersAreSignalled
  <1>8. QED
    BY <1>1, <1>2, <1>3, <1>5, <1>6, <1>7 DEF SpawnInv

\* load_browser() goes on and no process changes.
LEMMA LoaderMoves ==
  ASSUME SpawnInv,
         UNCHANGED <<pidfd, proc, births, owner, hit>>,
         target' \in Pid \cup {None}, pin' = pin, candidate' = candidate,
         browser' \in {browser, None},
         pc' = "pin" => target' # None,
         \/ pc' \notin {"pin", "confirm", "SIGTERM", "termed", "SIGKILL"}
         \/ pc' = "pin"
         \/ pc = "confirm" /\ pc' = "SIGTERM" /\ owner = target
         \/ pc = "termed" /\ pc' = "SIGKILL"
         \/ pc' = pc /\ target' = target
  PROVE  SpawnInv'
  <1>1. SpawnTypes'
    BY DEF SpawnInv, SpawnTypes, Handle
  <1>2. HandlesAreOld'
    BY DEF SpawnInv, HandlesAreOld
  <1>3. BusKnowsViewers'
    BY DEF SpawnInv, BusKnowsViewers
  <1>4. PinnedIsViewer'
    <2>1. CASE pc = "confirm" /\ pc' = "SIGTERM" /\ owner = target
      <3>1. pin # None => pin[1] = owner /\ pin[1] \in Pid
        BY <2>1 DEF SpawnInv, SpawnTypes, PinnedIsViewer, Handle
      <3>2. pin # None => proc[pin[1]] # "stranger"
        BY <3>1, PeersAssumption
        DEF SpawnInv, BusKnowsViewers, Spawn!SpawnAssumption
      <3>3. QED
        BY <2>1, <3>2 DEF PinnedIsViewer
    <2>2. CASE ~(pc = "confirm" /\ pc' = "SIGTERM")
      BY <2>2 DEF SpawnInv, PinnedIsViewer
    <2>3. QED
      BY <2>1, <2>2
  <1>5. BrowserIsServed'
    BY DEF SpawnInv, BrowserIsServed, Spawn!Alive
  <1>6. OnlyViewersAreSignalled'
    BY DEF SpawnInv, OnlyViewersAreSignalled, Spawn!OnlyViewersAreSignalled
  <1>7. QED
    BY <1>1, <1>2, <1>3, <1>4, <1>5, <1>6 DEF SpawnInv

LEMMA HitType ==
  ASSUME SpawnInv, hit' = hit
  PROVE  hit' \in BOOLEAN /\ (pidfd => ~hit')
  BY DEF SpawnInv, SpawnTypes, OnlyViewersAreSignalled,
         Spawn!OnlyViewersAreSignalled

LEMMA LoaderKeeps ==
  ASSUME SpawnInv,
         \/ Spawn!LoadBrowser \/ Spawn!WaitForWaylandSocket
         \/ Spawn!DeadlinePasses \/ Spawn!ProbeOwner \/ Spawn!Confirm
         \/ Spawn!NameIsFree \/ Spawn!NameStaysTaken
         \/ Spawn!ExitsBeforeHandshake
  PROVE  SpawnInv'
  <1>0. owner \in Pid \cup {None} /\ target \in Pid \cup {None}
        /\ (pc = "pin" => target # None)
    BY DEF SpawnInv, SpawnTypes
  <1> USE DEF Spawn!world, Spawn!kernel, Spawn!Fails
  <1>1. CASE Spawn!LoadBrowser
    BY <1>0, <1>1, LoaderMoves DEF Spawn!LoadBrowser
  <1>2. CASE Spawn!WaitForWaylandSocket
    BY <1>0, <1>2, LoaderMoves DEF Spawn!WaitForWaylandSocket
  <1>3. CASE Spawn!DeadlinePasses
    BY <1>0, <1>3, LoaderMoves DEF Spawn!DeadlinePasses
  <1>4. CASE Spawn!ProbeOwner
    <2>1. /\ UNCHANGED <<pidfd, proc, births, owner, pin, candidate, browser, hit>>
          /\ \/ pc' = "spawn" /\ target' = target
             \/ pc' = "pin" /\ target' = owner /\ owner # None
      BY <1>4 DEF Spawn!ProbeOwner
    <2>2. QED
      BY <1>0, <2>1, LoaderMoves
  <1>5. CASE Spawn!Confirm
    <2>1. /\ UNCHANGED <<pidfd, proc, births, owner, target, pin, candidate>>
          /\ UNCHANGED <<browser, hit>>
          /\ \/ pc' \in {"spawn", "wait", "raised"}
             \/ pc = "confirm" /\ pc' = "SIGTERM" /\ owner = target
      BY <1>5 DEF Spawn!Confirm
    <2>2. QED
      BY <1>0, <2>1, LoaderMoves
  <1>6. CASE Spawn!NameIsFree
    BY <1>0, <1>6, LoaderMoves DEF Spawn!NameIsFree
  <1>7. CASE Spawn!NameStaysTaken
    <2>1. /\ UNCHANGED <<pidfd, proc, births, owner, target, pin, candidate>>
          /\ UNCHANGED <<browser, hit>>
          /\ \/ pc' \in {"wait", "raised"}
             \/ pc = "termed" /\ pc' = "SIGKILL"
      BY <1>7 DEF Spawn!NameStaysTaken
    <2>2. QED
      BY <1>0, <2>1, LoaderMoves
  <1>8. CASE Spawn!ExitsBeforeHandshake
    <2>1. /\ UNCHANGED <<pidfd, proc, births, owner, target, pin, candidate>>
          /\ UNCHANGED <<browser, hit>>
          /\ pc' \in {"wait", "raised"}
      BY <1>8 DEF Spawn!ExitsBeforeHandshake
    <2>2. QED
      BY <1>0, <2>1, LoaderMoves
  <1>9. QED
    BY <1>1, <1>2, <1>3, <1>4, <1>5, <1>6, <1>7, <1>8

\* The process is pinned by its number, and by its generation where the kernel
\* has pidfds.
LEMMA PinKeeps ==
  ASSUME SpawnInv, Spawn!Pin
  PROVE  SpawnInv'
  <1>1. /\ pc' = "confirm" /\ target' = target /\ target \in Pid
        /\ UNCHANGED <<pidfd, proc, births, owner, candidate, browser, hit>>
        /\ pin' \in {<<target, 0>>, <<target, births[target]>>, None}
    BY DEF Spawn!Pin, Spawn!world, Spawn!kernel, SpawnInv, SpawnTypes
  <1>2. births[target] \in Nat
    BY <1>1 DEF SpawnInv, SpawnTypes
  <1>3. pin' \in Handle /\ (pin' # None =>
            pin'[1] = target /\ pin'[2] \in Nat /\ pin'[2] <= births[target])
    BY <1>1, <1>2 DEF Handle
  <1>4. SpawnTypes'
    BY <1>1, <1>3 DEF SpawnInv, SpawnTypes, Handle
  <1>5. HandlesAreOld' /\ PinnedIsViewer'
    BY <1>1, <1>3 DEF SpawnInv, HandlesAreOld, PinnedIsViewer
  <1>6. BusKnowsViewers' /\ BrowserIsServed' /\ OnlyViewersAreSignalled'
    BY <1>1 DEF SpawnInv, BusKnowsViewers, BrowserIsServed, Spawn!Alive,
                OnlyViewersAreSignalled, Spawn!OnlyViewersAreSignalled
  <1>7. QED
    BY <1>4, <1>5, <1>6 DEF SpawnInv

\* A signal by pidfd reaches the process that was confirmed, or none.
LEMMA SignalKeeps ==
  ASSUME SpawnInv, Spawn!SendSignal
  PROVE  SpawnInv'
  <1>1. /\ UNCHANGED <<births, owner, pidfd, target, pin, candidate, browser>>
        /\ \/ pc = "SIGTERM" /\ pc' = "termed"
           \/ pc = "SIGKILL" /\ pc' = "killed"
    BY DEF Spawn!SendSignal, Spawn!world
  <1>2. ASSUME Spawn!Reached
        PROVE  /\ pin[1] \in Pid /\ proc[pin[1]] # "free"
               /\ hit' \in BOOLEAN /\ (pidfd => ~hit')
    <2>1. pin # None /\ pin[1] \in Pid /\ proc[pin[1]] # "free"
      BY <1>2 DEF Spawn!Reached, SpawnInv, SpawnTypes, Handle
    <2>2. hit' = (hit \/ proc[pin[1]] = "stranger")
      BY <1>2 DEF Spawn!SendSignal
    <2>3. pidfd => proc[pin[1]] # "stranger"
      BY <1>1, <1>2, <2>1 DEF Spawn!Reached, SpawnInv, PinnedIsViewer
    <2>4. hit \in BOOLEAN /\ (pidfd => ~hit)
      BY DEF SpawnInv, SpawnTypes, OnlyViewersAreSignalled,
             Spawn!OnlyViewersAreSignalled
    <2>5. QED
      BY <2>1, <2>2, <2>3, <2>4
  <1>3. CASE Spawn!Reached /\ Spawn!Becomes(pin[1], "dying")
    BY <1>1, <1>2, <1>3, ProcessChanges
  <1>4. CASE proc' = proc /\ hit' \in BOOLEAN /\ (pidfd => ~hit')
    <2>1. SpawnTypes' /\ HandlesAreOld' /\ BusKnowsViewers'
      BY <1>1, <1>4 DEF SpawnInv, SpawnTypes, HandlesAreOld, BusKnowsViewers,
                        Handle
    <2>2. PinnedIsViewer'
      BY <1>1, <1>4 DEF SpawnInv, PinnedIsViewer
    <2>3. BrowserIsServed'
      BY <1>1, <1>4 DEF SpawnInv, BrowserIsServed, Spawn!Alive
    <2>4. OnlyViewersAreSignalled'
      BY <1>1, <1>4
      DEF OnlyViewersAreSignalled, Spawn!OnlyViewersAreSignalled
    <2>5. QED
      BY <2>1, <2>2, <2>3, <2>4 DEF SpawnInv
  <1>5. QED
    BY <1>2, <1>3, <1>4, HitType DEF Spawn!SendSignal

\* The handshake line: the candidate serves, so the bus knows it.
LEMMA HandshakeKeeps ==
  ASSUME SpawnInv, Spawn!Handshake
  PROVE  SpawnInv'
  <1>1. /\ UNCHANGED <<pidfd, proc, births, owner, target, pin, candidate, hit>>
        /\ pc' = "idle" /\ browser' = candidate
    BY DEF Spawn!Handshake, Spawn!world, Spawn!kernel
  <1>2. candidate # None =>
            /\ candidate[1] \in Pid /\ candidate[2] \in Nat
            /\ births[candidate[1]] = candidate[2]
            /\ proc[candidate[1]] = "serving" /\ owner = candidate[1]
    BY DEF Spawn!Handshake, SpawnInv, SpawnTypes, BusKnowsViewers, Handle
  <1>3. SpawnTypes' /\ BusKnowsViewers' /\ PinnedIsViewer'
    BY <1>1 DEF SpawnInv, SpawnTypes, BusKnowsViewers, PinnedIsViewer, Handle
  <1>4. HandlesAreOld' /\ BrowserIsServed'
    BY <1>1, <1>2 DEF SpawnInv, HandlesAreOld, BrowserIsServed, Spawn!Alive,
                      Spawn!Viewer
  <1>5. OnlyViewersAreSignalled'
    BY <1>1 DEF SpawnInv, OnlyViewersAreSignalled, Spawn!OnlyViewersAreSignalled
  <1>6. QED
    BY <1>3, <1>4, <1>5 DEF SpawnInv

\* A process comes, or goes.
LEMMA ProcessesKeep ==
  ASSUME SpawnInv,
         \/ \E p \in Pid : \/ Spawn!SpawnWebview(p) \/ Spawn!StrangerStarts(p)
                           \/ Spawn!Exits(p) \/ Spawn!GetsStuck(p)
         \/ Spawn!HandshakeTimesOut
  PROVE  SpawnInv'
  <1> USE DEF Spawn!world, Spawn!kernel, Spawn!loader
  <1>1. ASSUME NEW p \in Pid, Spawn!SpawnWebview(p) PROVE SpawnInv'
    <2>1. /\ proc[p] = "free" /\ Spawn!Becomes(p, "starting")
          /\ births' = [births EXCEPT ![p] = @ + 1]
          /\ UNCHANGED <<owner, pidfd, target, pin, browser, hit>>
          /\ candidate' = <<p, births[p] + 1>> /\ pc' = "handshake"
      BY <1>1 DEF Spawn!SpawnWebview
    <2>2. candidate' \in Handle
      BY <2>1 DEF SpawnInv, SpawnTypes, Handle
    <2>3. QED
      BY <2>1, <2>2, ProcessStarts
  <1>2. ASSUME NEW p \in Pid, Spawn!StrangerStarts(p) PROVE SpawnInv'
    <2>1. /\ proc[p] = "free" /\ Spawn!Becomes(p, "stranger") /\ owner # p
          /\ births' = [births EXCEPT ![p] = @ + 1]
          /\ UNCHANGED <<owner, pidfd, target, pin, browser, hit, candidate, pc>>
      BY <1>2 DEF Spawn!StrangerStarts
    <2>2. candidate' \in Handle
      BY <2>1 DEF SpawnInv, SpawnTypes
    <2>3. QED
      BY <2>1, <2>2, ProcessStarts
  <1>3. ASSUME NEW p \in Pid, Spawn!Exits(p) \/ Spawn!GetsStuck(p)
        PROVE  SpawnInv'
    <2>1. /\ proc[p] # "free"
          /\ Spawn!Becomes(p, "free") \/ Spawn!Becomes(p, "stuck")
          /\ UNCHANGED <<births, owner, pidfd, target, pin, candidate>>
          /\ UNCHANGED <<browser, hit, pc>>
      BY <1>3 DEF Spawn!Exits, Spawn!GetsStuck
    <2>2. QED
      BY <2>1, HitType, ProcessChanges
  <1>4. CASE Spawn!HandshakeTimesOut
    <2>1. /\ candidate # None /\ proc[candidate[1]] # "free"
          /\ \/ Spawn!Becomes(candidate[1], "free")
             \/ Spawn!Becomes(candidate[1], "dying")
          /\ UNCHANGED <<births, owner, pidfd, target, pin, candidate>>
          /\ UNCHANGED <<browser, hit>> /\ pc' \in {"wait", "raised"}
      BY <1>4 DEF Spawn!HandshakeTimesOut, Spawn!Alive, Spawn!Fails
    <2>2. candidate[1] \in Pid
      BY <2>1 DEF SpawnInv, SpawnTypes, Handle
    <2>3. QED
      BY <2>1, <2>2, HitType, ProcessChanges
  <1>5. QED
    BY <1>1, <1>2, <1>3, <1>4

\* The bus gives the name to one process at a time, and takes it back when
\* that one has gone.
LEMMA BusKeeps ==
  ASSUME SpawnInv,
         \/ \E p \in Pid : Spawn!Registers(p) \/ Spawn!GetsUnstuck(p)
         \/ Spawn!BusNotices
  PROVE  SpawnInv'
  <1> USE DEF Spawn!world, Spawn!kernel, Spawn!loader
  <1>1. ASSUME NEW p \in Pid, NEW what \in {"starting", "serving"},
               proc[p] \in {"starting", "stuck"}, Spawn!Becomes(p, what),
               what = "serving" => owner' = p /\ owner \in {None, p},
               what # "serving" => owner' = owner,
               UNCHANGED <<births, pidfd, target, pin, candidate, browser, hit,
                           pc>>
        PROVE  SpawnInv'
    <2>1. /\ owner' \in Pid \cup {None} /\ proc'[p] = what
          /\ \A q \in Pid : q # p => proc'[q] = proc[q]
      BY <1>1 DEF Spawn!Becomes, SpawnInv, SpawnTypes
    <2>2. SpawnTypes' /\ HandlesAreOld'
      BY <1>1, <2>1 DEF SpawnInv, SpawnTypes, HandlesAreOld, Spawn!Becomes,
                        Spawn!Viewer
    <2>3. BusKnowsViewers'
      BY <1>1, <2>1, PeersAssumption
      DEF SpawnInv, SpawnTypes, BusKnowsViewers, Spawn!SpawnAssumption
    <2>4. ASSUME NEW h \in {pin, browser}, h # None
          PROVE  /\ h[1] \in Pid
                 /\ h[1] = p \/ proc'[h[1]] = proc[h[1]]
      BY <2>1, <2>4 DEF SpawnInv, SpawnTypes, Handle
    <2>5. PinnedIsViewer'
      BY <1>1, <2>1, <2>4 DEF SpawnInv, PinnedIsViewer
    <2>6. BrowserIsServed'
      <3> SUFFICES ASSUME browser # None, births[browser[1]] = browser[2],
                          proc'[browser[1]] # "free"
                   PROVE  owner' = browser[1]
                          /\ proc'[browser[1]] \in Spawn!Viewer
        BY <1>1 DEF BrowserIsServed, Spawn!Alive
      <3>1. proc[browser[1]] # "free"
        BY <1>1, <2>1, <2>4
      <3>2. owner = browser[1] /\ proc[browser[1]] \in Spawn!Viewer
        BY <3>1 DEF SpawnInv, BrowserIsServed, Spawn!Alive
      <3>3. owner' = owner
        BY <1>1, <2>4, <3>2, PeersAssumption DEF Spawn!SpawnAssumption
      <3>4. QED
        BY <1>1, <2>1, <2>4, <3>2, <3>3 DEF Spawn!Viewer
    <2>7. OnlyViewersAreSignalled'
      BY <1>1
      DEF SpawnInv, OnlyViewersAreSignalled, Spawn!OnlyViewersAreSignalled
    <2>8. QED
      BY <2>2, <2>3, <2>5, <2>6, <2>7 DEF SpawnInv
  <1>2. ASSUME NEW p \in Pid, Spawn!Registers(p) PROVE SpawnInv'
    <2>1. /\ proc[p] = "starting"
          /\ \/ Spawn!Becomes(p, "serving") /\ owner = None /\ owner' = p
             \/ Spawn!Becomes(p, "free") /\ owner' = owner
          /\ UNCHANGED <<births, pidfd, target, pin, candidate, browser, hit,
                         pc>>
      BY <1>2 DEF Spawn!Registers
    <2>2. CASE Spawn!Becomes(p, "serving") /\ owner = None /\ owner' = p
      BY <1>1, <2>1, <2>2
    <2>3. CASE Spawn!Becomes(p, "free") /\ owner' = owner
      BY <2>1, <2>3, HitType, ProcessChanges
    <2>4. QED
      BY <2>1, <2>2, <2>3
  <1>3. ASSUME NEW p \in Pid, Spawn!GetsUnstuck(p) PROVE SpawnInv'
    <2>1. /\ proc[p] = "stuck" /\ owner' = owner
          /\ \/ Spawn!Becomes(p, "serving") /\ owner = p
             \/ Spawn!Becomes(p, "starting")
          /\ UNCHANGED <<births, pidfd, target, pin, candidate, browser, hit,
                         pc>>
      BY <1>3 DEF Spawn!GetsUnstuck
    <2>2. QED
      BY <1>1, <2>1
  <1>4. CASE Spawn!BusNotices
    <2>1. /\ owner # None /\ proc[owner] \notin Spawn!Viewer /\ owner' = None
          /\ UNCHANGED <<proc, births, pidfd, target, pin, candidate, browser>>
          /\ UNCHANGED <<hit, pc>>
      BY <1>4 DEF Spawn!BusNotices
    <2>2. BusKnowsViewers'
      BY <2>1 DEF SpawnInv, BusKnowsViewers, Spawn!Viewer
    <2>3. BrowserIsServed'
      BY <2>1 DEF SpawnInv, BrowserIsServed, Spawn!Alive
    <2>4. SpawnTypes' /\ HandlesAreOld' /\ PinnedIsViewer'
      BY <2>1 DEF SpawnInv, SpawnTypes, HandlesAreOld, PinnedIsViewer
    <2>5. OnlyViewersAreSignalled'
      BY <2>1
      DEF SpawnInv, OnlyViewersAreSignalled, Spawn!OnlyViewersAreSignalled
    <2>6. QED
      BY <2>2, <2>3, <2>4, <2>5 DEF SpawnInv
  <1>5. QED
    BY <1>2, <1>3, <1>4

LEMMA SpawnInit == Spawn!Init => SpawnInv
  <1> SUFFICES ASSUME Spawn!Init PROVE SpawnInv
    OBVIOUS
  <1> USE DEF Spawn!Init
  <1>1. SpawnTypes
    <2>1. \A p \in Pid : proc[p] = "free" /\ births[p] = 0
      OBVIOUS
    <2>2. pin = None /\ candidate = None /\ browser = None /\ pc = "idle"
      OBVIOUS
    <2>3. QED
      BY <2>1, <2>2 DEF SpawnTypes, Handle
  <1>2. BusKnowsViewers
    BY DEF BusKnowsViewers
  <1>3. HandlesAreOld /\ PinnedIsViewer /\ BrowserIsServed
    BY DEF HandlesAreOld, PinnedIsViewer, BrowserIsServed, Spawn!Alive
  <1>4. OnlyViewersAreSignalled
    BY DEF OnlyViewersAreSignalled, Spawn!OnlyViewersAreSignalled
  <1>5. QED
    BY <1>1, <1>2, <1>3, <1>4 DEF SpawnInv

LEMMA SpawnStep == SpawnInv /\ [Spawn!Next]_spawnVars => SpawnInv'
  <1> SUFFICES ASSUME SpawnInv, [Spawn!Next]_spawnVars PROVE SpawnInv'
    OBVIOUS
  <1>1. ASSUME UNCHANGED <<pidfd, proc, births, owner, target, pin, candidate,
                           browser, hit, pc>>
        PROVE  SpawnInv'
    <2>1. SpawnTypes' /\ HandlesAreOld' /\ BusKnowsViewers' /\ PinnedIsViewer'
      BY <1>1 DEF SpawnInv, SpawnTypes, HandlesAreOld, BusKnowsViewers,
                  PinnedIsViewer
    <2>2. BrowserIsServed' /\ OnlyViewersAreSignalled'
      BY <1>1 DEF SpawnInv, BrowserIsServed, Spawn!Alive,
                  OnlyViewersAreSignalled, Spawn!OnlyViewersAreSignalled
    <2>3. QED
      BY <2>1, <2>2 DEF SpawnInv
  <1>2. CASE UNCHANGED spawnVars
    BY <1>1, <1>2 DEF spawnVars
  <1>3. CASE Spawn!CageChanges
    BY <1>1, <1>3 DEF Spawn!CageChanges, Spawn!kernel, Spawn!loader
  <1>4. CASE Spawn!Next
    BY <1>3, <1>4, LoaderKeeps, PinKeeps, SignalKeeps, HandshakeKeeps,
       ProcessesKeep, BusKeeps
    DEF Spawn!Next, Spawn!Load, Spawn!Environment
  <1>5. QED
    BY <1>2, <1>4

LEMMA SpawnInvariant == MCSpec => []SpawnInv
  <1>1. MCInit => SpawnInv
    BY SpawnInit DEF MCInit
  <1>2. [MCNext]_<<part, vars, uploadVars, spawnVars, cecVars>>
          => [Spawn!Next]_spawnVars
    BY DEF MCNext
  <1>3. QED
    BY <1>1, <1>2, SpawnStep, PTL DEF MCSpec

\* With a pidfd, load_browser() signals no process that is not an
\* AnthiasViewer, for any number of pids that are handed on at any time.
THEOREM StrangersAreSpared == MCSpec => []OnlyViewersAreSignalled
  <1>1. SpawnInv => OnlyViewersAreSignalled
    BY DEF SpawnInv
  <1>2. QED
    BY <1>1, SpawnInvariant, PTL

\* The process load_browser() has returned owns the bus name for as long as it
\* lives, for any number of attempts and whatever they left behind.
THEOREM HandlesOwnTheirName == MCSpec => []HandleOwnsName
  <1>1. SpawnInv => HandleOwnsName
    BY DEF SpawnInv, BrowserIsServed, HandleOwnsName, Spawn!HandleOwnsName
  <1>2. QED
    BY <1>1, SpawnInvariant, PTL

-----------------------------------------------------------------------------
(* The upload. *)

RequestState ==
    [chunk : 0..(Chunks - 1),
     pc : {"sent", "write", "rest", "move", "row", "drop", "answer", "over"},
     file : Nat, answer : {"none", "ok", "conflict", "full", "error"}]

\* No file has a hole, nor more blocks than the upload.
UploadTypes ==
    /\ page \in [chunk : 0..(Chunks - 1), attempt : 0..Retries,
                 state : {"ready", "waiting", "ok", "failed",
                          "conflict", "unconfirmed"}]
    /\ request \in Seq(RequestState)
    /\ file \in Seq(Seq({"data"}))
    /\ \A f \in DOMAIN file : Len(file[f]) <= 2 * Chunks
    /\ staged \in {0} \cup DOMAIN file
    /\ saved \subseteq DOMAIN file
    /\ sweeping \in BOOLEAN /\ refused \in BOOLEAN

Last == Chunks - 1
Busy(r) == request[r].pc # "over"
Alone(r) == \A q \in DOMAIN request \ {r} : ~Busy(q)
Holds(r) == request[r].pc \in {"write", "rest", "move"}
Held == IF staged = 0 THEN 0 ELSE Len(file[staged])
Blocks(r) == Len(file[request[r].file])

\* A request is at most as far as the page, and the last chunk is under way
\* once; a thread writes where its file ends or earlier.
Fits(r) ==
    /\ request[r].chunk <= page.chunk
    /\ request[r].pc = "over" => request[r] = Upload!Over
    /\ request[r].pc \in {"move", "row"} => request[r].chunk = Last
    /\ request[r].chunk = Last
            => r = Len(request) /\ page.state \in {"waiting", "unconfirmed"}
    /\ request[r].pc = "answer"
            => /\ r = Len(request) /\ page.state = "waiting"
               /\ request[r].answer \in {"ok", "conflict", "full", "error"}
    /\ r = Len(request) /\ Busy(r) => request[r].chunk = page.chunk
    /\ Holds(r) \/ request[r].pc = "row" => request[r].file \in DOMAIN file
    /\ request[r].pc = "write" => Blocks(r) >= 2 * request[r].chunk
    /\ request[r].pc = "rest" => Blocks(r) >= 2 * request[r].chunk + 1
    /\ request[r].pc = "move" => Blocks(r) >= 2 * Chunks
    /\ request[r].pc = "drop" => request[r].answer \in {"conflict", "full"}
    /\ request[r].pc = "drop" /\ request[r].answer = "full" => refused
    /\ request[r].pc = "answer" /\ request[r].answer = "ok"
            /\ request[r].chunk = Last => saved # {}

RequestsFit == \A r \in DOMAIN request : Fits(r)

\* Once there is an asset, only the good news of it is under way.
SavedOnce ==
    /\ saved = {} \/ \E f \in DOMAIN file : saved = {f}
    /\ page.state = "ok" => saved # {}
    /\ page.state = "waiting" => Len(request) > 0
    /\ page.state = "unconfirmed" => page.chunk = Last
    /\ saved # {} =>
            /\ page.chunk = Last
            /\ page.state \in {"waiting", "ok", "unconfirmed"}
            /\ page.state = "waiting" =>
                    /\ request[Len(request)].pc = "answer"
                    /\ request[Len(request)].answer = "ok"
            /\ \A r \in DOMAIN request :
                    request[r].chunk = Last => request[r].pc = "answer"

\* Only the request the page waits for may run into the sweep.
SweepMeetsOne ==
    sweeping => \A r \in DOMAIN request : r # Len(request) => ~Busy(r)

\* What is saved, or about to be, is whole.
FilesAreWhole ==
    /\ \A f \in saved : Len(file[f]) = 2 * Chunks
    /\ \A r \in DOMAIN request : request[r].pc = "row" => Blocks(r) = 2 * Chunks

\* The request the page waits for writes to what has the name, or has it to
\* itself without a name.
LatestHasTheName ==
    \A r \in DOMAIN request :
        r = Len(request) /\ page.state \in {"waiting", "unconfirmed"} /\ Holds(r)
            => staged = request[r].file \/ (staged = 0 /\ Alone(r))

\* Nothing will be renamed any more.
Past ==
    /\ page.state # "ready"
    /\ page.state = "waiting" => page.chunk = Last
    /\ \A r \in DOMAIN request :
            request[r].chunk = Last
                => request[r].pc \notin {"sent", "write", "rest", "move"}

\* The name was taken from the upload: whatever comes is refused.
Cut ==
    /\ page.chunk >= 1 /\ Held = 0
    /\ \A r \in DOMAIN request :
            /\ Busy(r) => request[r].chunk >= 1
            /\ Holds(r) => request[r].file # staged

\* The partial holds what the page takes for sent.
Intact ==
    /\ 2 * page.chunk <= Held
    /\ \A r \in DOMAIN request : request[r].pc # "drop"
    /\ \A r \in DOMAIN request :
            r = Len(request) /\ request[r].pc = "answer" /\ page.chunk # Last
                => 2 * (page.chunk + 1) <= Held \/ (staged = 0 /\ Alone(r))

WholeUnlessFull ==
    ~refused => FilesAreWhole /\ LatestHasTheName /\ (Past \/ Cut \/ Intact)

UploadInv ==
    UploadTypes /\ RequestsFit /\ SavedOnce /\ SweepMeetsOne /\ WholeUnlessFull

LEMMA UploadNumbers ==
  Chunks \in Nat /\ Chunks >= 2 /\ Last \in Nat /\ Last >= 1 /\ Retries \in Nat
  BY PeersAssumption DEF Upload!UploadAssumption, Last

LEMMA FinalIsLast == ASSUME NEW k PROVE Upload!Final(k) <=> k = Last
  BY DEF Upload!Final, Last

\* A sequence with one element replaced.
LEMMA ReplaceAt ==
  ASSUME NEW S, NEW s \in Seq(S), NEW i \in DOMAIN s, NEW e \in S
  PROVE  /\ [s EXCEPT ![i] = e] \in Seq(S)
         /\ DOMAIN [s EXCEPT ![i] = e] = DOMAIN s
         /\ Len([s EXCEPT ![i] = e]) = Len(s)
         /\ [s EXCEPT ![i] = e][i] = e
         /\ \A j \in DOMAIN s \ {i} : [s EXCEPT ![i] = e][j] = s[j]
  OBVIOUS

LEMMA AppendedTo ==
  ASSUME NEW S, NEW s \in Seq(S), NEW e \in S
  PROVE  /\ Append(s, e) \in Seq(S)
         /\ Len(Append(s, e)) = Len(s) + 1
         /\ DOMAIN Append(s, e) = DOMAIN s \cup {Len(s) + 1}
         /\ Append(s, e)[Len(s) + 1] = e
         /\ \A j \in DOMAIN s : Append(s, e)[j] = s[j] /\ j # Len(s) + 1
  OBVIOUS

LEMMA OverType ==
  /\ Upload!Over \in RequestState
  /\ Upload!Over.chunk = 0 /\ Upload!Over.pc = "over" /\ Upload!Over.file = 0
  /\ Upload!Over.answer = "none"
  BY UploadNumbers DEF Upload!Over, RequestState

\* A block written where a file ends, or earlier, leaves no hole.
LEMMA PutType ==
  ASSUME NEW s \in Seq({"data"}), NEW at \in Nat, at <= Len(s)
  PROVE  /\ Upload!Put(s, at) \in Seq({"data"})
         /\ Len(Upload!Put(s, at)) = IF at < Len(s) THEN Len(s) ELSE at + 1
  <1> DEFINE n == IF at < Len(s) THEN Len(s) ELSE at + 1
  <1>1. n \in Nat /\ Len(s) \in Nat /\ n <= Len(s) + 1
    OBVIOUS
  <1>2. \A b \in 1..n : b # at + 1 => b \in 1..Len(s)
    BY <1>1
  <1>3. \A b \in 1..Len(s) : s[b] = "data"
    OBVIOUS
  <1>4. Upload!Put(s, at) \in [1..n -> {"data"}]
    BY <1>1, <1>2, <1>3 DEF Upload!Put
  <1>5. QED
    BY <1>1, <1>4

\* What a thread does to the requests: its own moves.
Moves(r) ==
    /\ request' \in Seq(RequestState)
    /\ Len(request') = Len(request) /\ DOMAIN request' = DOMAIN request
    /\ \A q \in DOMAIN request \ {r} : request'[q] = request[q]

\* Files only grow.
Grows ==
    /\ file' \in Seq(Seq({"data"}))
    /\ \A f \in DOMAIN file' : Len(file'[f]) <= 2 * Chunks
    /\ DOMAIN file \subseteq DOMAIN file'
    /\ \A f \in DOMAIN file : Len(file'[f]) >= Len(file[f])

LEMMA SameFiles == ASSUME UploadTypes, file' = file PROVE Grows
  BY DEF UploadTypes, Grows

LEMMA MovesTo ==
  ASSUME UploadTypes, NEW r \in DOMAIN request, NEW q \in RequestState,
         request' = [request EXCEPT ![r] = q]
  PROVE  Moves(r) /\ request'[r] = q
  BY ReplaceAt DEF UploadTypes, Moves

\* The request a thread has answered.
LEMMA RespondType ==
  ASSUME UploadTypes, NEW r \in DOMAIN request,
         NEW answer_ \in {"ok", "conflict", "full", "error"},
         Upload!Respond(r, answer_)
  PROVE  /\ Moves(r)
         /\ \/ /\ r = Len(request) /\ page.state = "waiting"
               /\ request'[r].pc = "answer" /\ request'[r].answer = answer_
               /\ request'[r].chunk = request[r].chunk
            \/ request'[r] = Upload!Over
  <1>1. request[r] \in RequestState
    BY DEF UploadTypes
  <1>2. CASE r = Len(request) /\ page.state = "waiting"
    <2> DEFINE q == [Upload!Over EXCEPT !.chunk = request[r].chunk,
                                        !.pc = "answer", !.answer = answer_]
    <2>1. q \in RequestState /\ q.chunk = request[r].chunk /\ q.pc = "answer"
          /\ q.answer = answer_
      BY <1>1, OverType DEF RequestState, Upload!Over
    <2>2. request' = [request EXCEPT ![r] = q]
      BY <1>2 DEF Upload!Respond, Upload!Current
    <2> HIDE DEF q
    <2>3. QED
      BY <1>2, <2>1, <2>2, MovesTo
  <1>3. CASE ~(r = Len(request) /\ page.state = "waiting")
    <2>1. request' = [request EXCEPT ![r] = Upload!Over]
      BY <1>3 DEF Upload!Respond, Upload!Current
    <2>2. QED
      BY <2>1, MovesTo, OverType
  <1>4. QED
    BY <1>2, <1>3

\* A thread that opens the partial goes on to write, or finds a gap or no room.
LEMMA OpenStep ==
  ASSUME UploadInv, NEW r \in DOMAIN request, Upload!Open(r)
  PROVE  /\ UNCHANGED <<page, saved, sweeping>> /\ Moves(r) /\ Grows
         /\ refused' \in BOOLEAN /\ (refused => refused')
         /\ request[r].pc = "sent" /\ request'[r].chunk = request[r].chunk
         /\ request'[r].file = staged' /\ staged' \in DOMAIN file'
         /\ staged # 0 => staged' = staged /\ file' = file
         /\ staged = 0 => /\ staged' = Len(file) + 1 /\ Held' = 0
                          /\ \A f \in DOMAIN file : file'[f] = file[f]
         /\ Held' = Held
         /\ \/ /\ request'[r].pc = "write" /\ refused' = refused
               /\ 2 * request[r].chunk <= Held
            \/ /\ request'[r].pc = "drop" /\ request'[r].answer = "conflict"
               /\ refused' = refused /\ 2 * request[r].chunk > Held
            \/ /\ request'[r].pc = "drop" /\ request'[r].answer = "full"
               /\ refused'
  <1> DEFINE inode == IF staged = 0 THEN Len(file) + 1 ELSE staged
             next(p, a) == [request[r] EXCEPT !.pc = p, !.file = inode,
                                              !.answer = a]
  <1>0. UploadTypes /\ request[r] \in RequestState /\ refused \in BOOLEAN
    BY DEF UploadInv, UploadTypes
  <1>1. inode \in Nat /\ staged' = inode
    BY <1>0 DEF UploadTypes, Upload!Open
  <1>2. /\ Grows /\ inode \in DOMAIN file' /\ Held' = Held
        /\ staged # 0 => file' = file
        /\ staged = 0 => Held' = 0 /\ \A f \in DOMAIN file : file'[f] = file[f]
    <2>1. CASE staged = 0
      <3>1. file' = Append(file, <<>>)
        BY <2>1 DEF Upload!Open
      <3>2. /\ file' \in Seq(Seq({"data"})) /\ DOMAIN file' = DOMAIN file \cup {inode}
            /\ file'[inode] = <<>> /\ \A f \in DOMAIN file : file'[f] = file[f]
        BY <1>0, <2>1, <3>1, AppendedTo DEF UploadTypes
      <3>3. Held' = 0
        BY <1>1, <3>2 DEF Held
      <3>4. \A f \in DOMAIN file : Len(file'[f]) >= Len(file[f])
        BY <1>0, <3>2 DEF UploadTypes
      <3>5. \A f \in DOMAIN file' : Len(file'[f]) <= 2 * Chunks
        BY <1>0, <3>2, UploadNumbers DEF UploadTypes
      <3>6. QED
        BY <2>1, <3>2, <3>3, <3>4, <3>5 DEF Grows, Held
    <2>2. CASE staged # 0
      BY <1>0, <1>1, <2>2, SameFiles DEF Upload!Open, Held, UploadTypes
    <2>3. QED
      BY <2>1, <2>2
  <1>3. \E p \in {"write", "drop"}, a \in {"conflict", "full"} :
            /\ request' = [request EXCEPT ![r] = next(p, a)]
            /\ \/ /\ p = "write" /\ refused' = refused
                  /\ ~(2 * request[r].chunk > Held)
               \/ /\ p = "drop" /\ a = "conflict"
                  /\ refused' = refused /\ 2 * request[r].chunk > Held
               \/ p = "drop" /\ a = "full" /\ refused'
    BY <1>0 DEF Upload!Open, Held
  <1>4. \A p \in {"write", "drop"}, a \in {"conflict", "full"} :
            /\ next(p, a) \in RequestState
            /\ next(p, a).pc = p /\ next(p, a).answer = a
            /\ next(p, a).file = inode /\ next(p, a).chunk = request[r].chunk
    <2> HIDE DEF inode
    <2>1. QED
      BY <1>0, <1>1 DEF RequestState
  <1>5. PICK p \in {"write", "drop"}, a \in {"conflict", "full"} :
            /\ request' = [request EXCEPT ![r] = next(p, a)]
            /\ \/ /\ p = "write" /\ refused' = refused
                  /\ ~(2 * request[r].chunk > Held)
               \/ /\ p = "drop" /\ a = "conflict"
                  /\ refused' = refused /\ 2 * request[r].chunk > Held
               \/ p = "drop" /\ a = "full" /\ refused'
    BY <1>3
  <1> HIDE DEF next
  <1>6. Moves(r) /\ request'[r] = next(p, a)
    BY <1>0, <1>4, <1>5, MovesTo
  <1>7. 2 * request[r].chunk \in Nat /\ Held \in Nat
    BY <1>0 DEF RequestState, Held, UploadTypes
  <1>8. UNCHANGED <<page, saved, sweeping>> /\ request[r].pc = "sent"
    BY DEF Upload!Open
  <1>9. 2 * request[r].chunk <= Held \/ 2 * request[r].chunk > Held
    BY <1>7
  <1> HIDE DEF inode
  <1>10. /\ request'[r].chunk = request[r].chunk /\ request'[r].file = inode
         /\ request'[r].pc = p /\ request'[r].answer = a
    BY <1>4, <1>6
  <1>11. staged # 0 => inode = staged
    BY DEF inode
  <1>12. staged = 0 => inode = Len(file) + 1
    BY DEF inode
  <1>13. refused' \in BOOLEAN /\ (refused => refused')
    BY <1>0, <1>5
  <1>14. \/ p = "write" /\ refused' = refused /\ 2 * request[r].chunk <= Held
         \/ /\ p = "drop" /\ a = "conflict"
            /\ refused' = refused /\ 2 * request[r].chunk > Held
         \/ p = "drop" /\ a = "full" /\ refused'
    BY <1>5, <1>9
  <1>15. QED
    BY <1>1, <1>2, <1>6, <1>8, <1>10, <1>11, <1>12, <1>13, <1>14

\* A file with a block more.
LEMMA FileWritten ==
  ASSUME UploadTypes, NEW f \in DOMAIN file, NEW s \in Seq({"data"}),
         Len(s) >= Len(file[f]), Len(s) <= 2 * Chunks,
         file' = [file EXCEPT ![f] = s]
  PROVE  /\ Grows /\ DOMAIN file' = DOMAIN file /\ Len(file'[f]) = Len(s)
         /\ \A g \in DOMAIN file \ {f} : file'[g] = file[g]
  <1>1. /\ file' \in Seq(Seq({"data"})) /\ DOMAIN file' = DOMAIN file
        /\ file'[f] = s /\ \A g \in DOMAIN file \ {f} : file'[g] = file[g]
    BY ReplaceAt DEF UploadTypes
  <1>2. \A g \in DOMAIN file : Len(file[g]) \in Nat /\ Len(file[g]) <= 2 * Chunks
    BY DEF UploadTypes
  <1>3. \A g \in DOMAIN file :
            Len(file'[g]) <= 2 * Chunks /\ Len(file'[g]) >= Len(file[g])
    BY <1>1, <1>2
  <1>4. QED
    BY <1>1, <1>3 DEF Grows

LEMMA WriteStep ==
  ASSUME UploadInv, NEW r \in DOMAIN request, Upload!Write(r)
  PROVE  /\ UNCHANGED <<page, saved, sweeping, staged>> /\ Moves(r) /\ Grows
         /\ DOMAIN file' = DOMAIN file
         /\ \A g \in DOMAIN file \ {request[r].file} : file'[g] = file[g]
         /\ refused' \in BOOLEAN /\ (refused => refused')
         /\ request[r].file \in DOMAIN file
         /\ \/ /\ request[r].pc = "write" /\ request'[r].pc = "rest"
               /\ request'[r].file = request[r].file
               /\ request'[r].chunk = request[r].chunk /\ refused' = refused
               /\ Len(file'[request[r].file]) >= 2 * request[r].chunk + 1
            \/ /\ request[r].pc = "rest" /\ request'[r].pc = "move"
               /\ request'[r].file = request[r].file
               /\ request'[r].chunk = request[r].chunk /\ refused' = refused
               /\ request[r].chunk = Last
               /\ Len(file'[request[r].file]) >= 2 * Chunks
            \/ /\ request[r].pc = "rest" /\ refused' = refused
               /\ request[r].chunk # Last
               /\ Len(file'[request[r].file]) >= 2 * request[r].chunk + 2
               /\ \/ /\ r = Len(request) /\ page.state = "waiting"
                     /\ request'[r].pc = "answer" /\ request'[r].answer = "ok"
                     /\ request'[r].chunk = request[r].chunk
                  \/ request'[r] = Upload!Over
            \/ /\ request[r].pc \in {"write", "rest"}
               /\ request'[r].pc = "drop" /\ request'[r].answer = "full"
               /\ request'[r].chunk = request[r].chunk /\ refused'
  <1> DEFINE f == request[r].file
             k == request[r].chunk
             at == IF request[r].pc = "write" THEN 2 * k ELSE 2 * k + 1
  <1>0. UploadTypes /\ request[r] \in RequestState /\ refused \in BOOLEAN
        /\ request[r].pc \in {"write", "rest"}
    BY DEF UploadInv, UploadTypes, Upload!Write
  <1>1. /\ f \in DOMAIN file /\ k \in 0..Last /\ at \in Nat /\ at <= Len(file[f])
        /\ file[f] \in Seq({"data"}) /\ Len(file[f]) \in Nat
        /\ Len(file[f]) <= 2 * Chunks /\ at + 1 <= 2 * Chunks
    <2>1. Fits(r)
      BY DEF UploadInv, RequestsFit
    <2>2. f \in DOMAIN file /\ at <= Len(file[f])
      BY <1>0, <2>1 DEF Fits, Holds, Blocks
    <2>3. k \in 0..Last /\ at \in Nat /\ at + 1 <= 2 * Chunks
      BY <1>0, UploadNumbers DEF RequestState, Last
    <2>4. /\ file[f] \in Seq({"data"}) /\ Len(file[f]) \in Nat
          /\ Len(file[f]) <= 2 * Chunks
      BY <1>0, <2>2 DEF UploadTypes
    <2>5. QED
      BY <2>2, <2>3, <2>4
  <1>2. UNCHANGED <<page, saved, sweeping, staged>>
    BY DEF Upload!Write
  <1> DEFINE s == Upload!Put(file[f], at)
             t == IF k = Last /\ request[r].pc = "rest"
                  THEN SubSeq(s, 1, 2 * Chunks) ELSE s
  <1>3. s \in Seq({"data"}) /\ Len(s) \in Nat /\ Len(s) >= Len(file[f])
        /\ Len(s) >= at + 1 /\ Len(s) <= 2 * Chunks
    <2> HIDE DEF at, f, s
    <2>1. /\ Upload!Put(file[f], at) \in Seq({"data"})
          /\ Len(Upload!Put(file[f], at))
                = IF at < Len(file[f]) THEN Len(file[f]) ELSE at + 1
      BY <1>1, PutType
    <2>2. QED
      BY <1>1, <2>1 DEF s
  <1>4. t \in Seq({"data"}) /\ Len(t) = Len(s)
    <2> HIDE DEF s, at, f
    <2>1. CASE k = Last /\ request[r].pc = "rest"
      <3>1. at + 1 = 2 * Chunks
        BY <2>1, UploadNumbers DEF at, Last
      <3>2. Len(s) = 2 * Chunks
        BY <1>1, <1>3, <3>1, UploadNumbers
      <3>3. SubSeq(s, 1, 2 * Chunks) = s
        BY <1>3, <3>2
      <3>4. QED
        BY <1>3, <2>1, <3>3
    <2>2. CASE ~(k = Last /\ request[r].pc = "rest")
      BY <1>3, <2>2
    <2>3. QED
      BY <2>1, <2>2
  <1>5. ASSUME file' = [file EXCEPT ![f] = t]
        PROVE  /\ Grows /\ DOMAIN file' = DOMAIN file /\ Len(file'[f]) >= at + 1
               /\ \A g \in DOMAIN file \ {f} : file'[g] = file[g]
    <2> HIDE DEF t, s, f, at
    <2>1. QED
      BY <1>0, <1>1, <1>3, <1>4, <1>5, FileWritten
  <1>6. ASSUME NEW p \in {"rest", "move"},
               request' = [request EXCEPT ![r].pc = p]
        PROVE  /\ Moves(r) /\ request'[r].pc = p /\ request'[r].file = f
               /\ request'[r].chunk = k
    <2> DEFINE q == [request[r] EXCEPT !.pc = p]
    <2>1. q \in RequestState /\ q.pc = p /\ q.file = f /\ q.chunk = k
      BY <1>0 DEF RequestState
    <2>2. request' = [request EXCEPT ![r] = q]
      BY <1>6
    <2> HIDE DEF q, f, k
    <2>3. QED
      BY <1>0, <2>1, <2>2, MovesTo
  <1>7. ASSUME request' = [request EXCEPT ![r].pc = "drop", ![r].answer = "full"]
        PROVE  /\ Moves(r) /\ request'[r].pc = "drop"
               /\ request'[r].answer = "full" /\ request'[r].chunk = k
    <2> DEFINE q == [request[r] EXCEPT !.pc = "drop", !.answer = "full"]
    <2>1. /\ q \in RequestState /\ q.pc = "drop" /\ q.answer = "full"
          /\ q.chunk = k
      BY <1>0 DEF RequestState
    <2>2. request' = [request EXCEPT ![r] = q]
      BY <1>0, <1>7 DEF UploadTypes
    <2> HIDE DEF q, k
    <2>3. QED
      BY <1>0, <2>1, <2>2, MovesTo
  <1>8. \/ /\ file' = [file EXCEPT ![f] = t] /\ refused' = refused
           /\ \/ /\ request[r].pc = "write"
                 /\ request' = [request EXCEPT ![r].pc = "rest"]
              \/ /\ request[r].pc = "rest" /\ k = Last
                 /\ request' = [request EXCEPT ![r].pc = "move"]
              \/ /\ request[r].pc = "rest" /\ k # Last /\ Upload!Respond(r, "ok")
        \/ /\ file' = file /\ refused'
           /\ request' = [request EXCEPT ![r].pc = "drop", ![r].answer = "full"]
    <2>1. CASE file' = file /\ refused'
               /\ request' = [request EXCEPT ![r].pc = "drop",
                                             ![r].answer = "full"]
      BY <2>1
    <2>2. CASE ~(file' = file /\ refused'
               /\ request' = [request EXCEPT ![r].pc = "drop",
                                             ![r].answer = "full"])
      <3>1. file' = [file EXCEPT ![f] = t] /\ refused' = refused
        BY <1>0, <2>2, FinalIsLast DEF Upload!Write, Last
      <3>2. CASE request[r].pc = "write"
        BY <1>0, <2>2, <3>1, <3>2 DEF Upload!Write, Upload!Goto
      <3>3. CASE request[r].pc = "rest" /\ k = Last
        BY <1>0, <2>2, <3>1, <3>3, FinalIsLast DEF Upload!Write, Upload!Goto
      <3>4. CASE request[r].pc = "rest" /\ k # Last
        BY <1>0, <2>2, <3>1, <3>4, FinalIsLast DEF Upload!Write
      <3>5. QED
        BY <1>0, <3>1, <3>2, <3>3, <3>4
    <2>3. QED
      BY <2>1, <2>2
  <1>9. CASE file' = [file EXCEPT ![f] = t] /\ refused' = refused
    <2>1. /\ Grows /\ DOMAIN file' = DOMAIN file /\ Len(file'[f]) >= at + 1
          /\ \A g \in DOMAIN file \ {f} : file'[g] = file[g]
      BY <1>5, <1>9
    <2>2. CASE request[r].pc = "write"
               /\ request' = [request EXCEPT ![r].pc = "rest"]
      <3>1. /\ Moves(r) /\ request'[r].pc = "rest" /\ request'[r].file = f
            /\ request'[r].chunk = k
        BY <1>6, <2>2
      <3>2. QED
        BY <1>0, <1>1, <1>2, <1>9, <2>1, <2>2, <3>1
    <2>3. CASE request[r].pc = "rest" /\ k = Last
               /\ request' = [request EXCEPT ![r].pc = "move"]
      <3>1. /\ Moves(r) /\ request'[r].pc = "move" /\ request'[r].file = f
            /\ request'[r].chunk = k
        BY <1>6, <2>3
      <3>2. at + 1 = 2 * Chunks
        BY <2>3, UploadNumbers DEF Last
      <3>3. QED
        BY <1>0, <1>1, <1>2, <1>9, <2>1, <2>3, <3>1, <3>2
    <2>4. CASE request[r].pc = "rest" /\ k # Last /\ Upload!Respond(r, "ok")
      <3>1. at + 1 = 2 * k + 2
        BY <1>1, <2>4, UploadNumbers
      <3>2. QED
        BY <1>0, <1>1, <1>2, <1>9, <2>1, <2>4, <3>1, RespondType
    <2>5. CASE file' = file /\ refused'
               /\ request' = [request EXCEPT ![r].pc = "drop",
                                             ![r].answer = "full"]
      BY <1>0, <1>1, <1>2, <1>7, <2>1, <2>5
    <2>6. QED
      BY <1>8, <2>2, <2>3, <2>4, <2>5
  <1>10. CASE file' = file /\ refused'
              /\ request' = [request EXCEPT ![r].pc = "drop",
                                            ![r].answer = "full"]
    BY <1>0, <1>1, <1>2, <1>7, <1>10, SameFiles
  <1>11. QED
    BY <1>8, <1>9, <1>10

\* A rejected request takes the name away.
LEMMA DropStep ==
  ASSUME UploadInv, NEW r \in DOMAIN request, Upload!Drop(r)
  PROVE  /\ UNCHANGED <<page, saved, sweeping, file, refused>>
         /\ Moves(r) /\ Grows /\ staged' = 0 /\ request[r].pc = "drop"
         /\ \/ /\ r = Len(request) /\ page.state = "waiting"
               /\ request'[r].pc = "answer"
               /\ request'[r].answer = request[r].answer
               /\ request'[r].answer \in {"conflict", "full"}
               /\ request'[r].chunk = request[r].chunk
            \/ request'[r] = Upload!Over
  <1>1. UploadTypes /\ request[r].answer \in {"conflict", "full"}
    BY DEF UploadInv, RequestsFit, Fits, Upload!Drop
  <1>2. QED
    BY <1>1, RespondType, SameFiles DEF Upload!Drop

\* The last thread renames what has the name.
LEMMA MoveStep ==
  ASSUME UploadInv, NEW r \in DOMAIN request, Upload!Move(r)
  PROVE  /\ UNCHANGED <<page, saved, sweeping, file, refused>>
         /\ Moves(r) /\ Grows /\ staged' = 0 /\ request[r].pc = "move"
         /\ \/ /\ staged # 0 /\ request'[r].pc = "row"
               /\ request'[r].file = staged
               /\ request'[r].chunk = request[r].chunk
            \/ /\ r = Len(request) /\ page.state = "waiting"
               /\ request'[r].pc = "answer" /\ request'[r].answer = "error"
               /\ request'[r].chunk = request[r].chunk
            \/ request'[r] = Upload!Over
  <1>1. UploadTypes /\ request[r] \in RequestState /\ staged \in Nat
    BY DEF UploadInv, UploadTypes
  <1>2. CASE staged = 0
    BY <1>1, <1>2, RespondType, SameFiles DEF Upload!Move
  <1>3. CASE staged # 0
    <2> DEFINE q == [request[r] EXCEPT !.pc = "row", !.file = staged]
    <2>1. /\ q \in RequestState /\ q.pc = "row" /\ q.file = staged
          /\ q.chunk = request[r].chunk
      BY <1>1 DEF RequestState
    <2>2. request' = [request EXCEPT ![r] = q]
      BY <1>1, <1>3 DEF Upload!Move, UploadTypes
    <2> HIDE DEF q
    <2>3. Moves(r) /\ request'[r] = q
      BY <1>1, <2>1, <2>2, MovesTo
    <2>4. QED
      BY <1>1, <1>3, <2>1, <2>3, SameFiles DEF Upload!Move
  <1>4. QED
    BY <1>2, <1>3

LEMMA RowStep ==
  ASSUME UploadInv, NEW r \in DOMAIN request, Upload!MakeRow(r)
  PROVE  /\ UNCHANGED <<page, staged, sweeping, file, refused>>
         /\ Moves(r) /\ Grows /\ saved' = saved \cup {request[r].file}
         /\ request[r].pc = "row"
         /\ \/ /\ r = Len(request) /\ page.state = "waiting"
               /\ request'[r].pc = "answer" /\ request'[r].answer = "ok"
               /\ request'[r].chunk = request[r].chunk
            \/ request'[r] = Upload!Over
  BY RespondType, SameFiles DEF Upload!MakeRow, UploadInv

\* What every step of a thread leaves to the others.
Frame(r) ==
    /\ Moves(r) /\ Grows /\ UNCHANGED <<page, sweeping>>
    /\ refused' \in BOOLEAN /\ (refused => refused')
    /\ saved \subseteq saved' /\ Busy(r)

LEMMA OthersFit ==
  ASSUME UploadInv, NEW r \in DOMAIN request, Frame(r),
         NEW x \in DOMAIN request \ {r}
  PROVE  Fits(x)'
  <1>1. Fits(x) /\ UploadTypes
    BY DEF UploadInv, RequestsFit
  <1>2. request'[x] = request[x] /\ Len(request') = Len(request) /\ page' = page
    BY DEF Frame, Moves
  <1>3. request[x] \in RequestState /\ 2 * request[x].chunk \in Nat
        /\ 2 * request[x].chunk + 1 \in Nat /\ 2 * Chunks \in Nat
    <2>1. request[x] \in RequestState
      BY <1>1 DEF UploadTypes
    <2>2. request[x].chunk \in Nat
      BY <2>1, UploadNumbers DEF RequestState
    <2>3. QED
      BY <2>1, <2>2, UploadNumbers
  <1>4. \A f \in DOMAIN file : /\ f \in DOMAIN file' /\ Len(file'[f]) >= Len(file[f])
                               /\ Len(file'[f]) \in Nat /\ Len(file[f]) \in Nat
    BY <1>1 DEF Frame, Grows, UploadTypes
  <1>5. /\ request'[x].chunk <= page'.chunk
        /\ request'[x].pc = "over" => request'[x] = Upload!Over
        /\ request'[x].pc \in {"move", "row"} => request'[x].chunk = Last
        /\ request'[x].chunk = Last
            => x = Len(request') /\ page'.state \in {"waiting", "unconfirmed"}
        /\ request'[x].pc = "answer"
            => /\ x = Len(request') /\ page'.state = "waiting"
               /\ request'[x].answer \in {"ok", "conflict", "full", "error"}
        /\ x = Len(request') /\ request'[x].pc # "over"
            => request'[x].chunk = page'.chunk
        /\ request'[x].pc = "drop" => request'[x].answer \in {"conflict", "full"}
    BY <1>1, <1>2 DEF Fits, Busy
  <1>6. /\ request'[x].pc \in {"write", "rest", "move", "row"}
            => request'[x].file \in DOMAIN file
        /\ request'[x].pc = "write"
            => Len(file'[request'[x].file]) >= 2 * request'[x].chunk
        /\ request'[x].pc = "rest"
            => Len(file'[request'[x].file]) >= 2 * request'[x].chunk + 1
        /\ request'[x].pc = "move" => Len(file'[request'[x].file]) >= 2 * Chunks
    <2>1. request[x].pc \in {"write", "rest", "move", "row"}
            => request[x].file \in DOMAIN file
      BY <1>1 DEF Fits, Holds
    <2>2. /\ request[x].pc = "write"
                => Len(file[request[x].file]) >= 2 * request[x].chunk
          /\ request[x].pc = "rest"
                => Len(file[request[x].file]) >= 2 * request[x].chunk + 1
          /\ request[x].pc = "move" => Len(file[request[x].file]) >= 2 * Chunks
      BY <1>1 DEF Fits, Blocks
    <2>3. QED
      BY <1>2, <1>3, <1>4, <2>1, <2>2
  <1>7. /\ request'[x].pc = "drop" /\ request'[x].answer = "full" => refused'
        /\ request'[x].pc = "answer" /\ request'[x].answer = "ok"
              /\ request'[x].chunk = Last => saved' # {}
    BY <1>1, <1>2 DEF Fits, Frame
  <1>8. request'[x].file \in DOMAIN file => request'[x].file \in DOMAIN file'
    BY <1>4
  <1>9. QED
    BY <1>5, <1>6, <1>7, <1>8 DEF Fits, Busy, Holds, Blocks, Last

\* What a thread has to show of its own request.
LEMMA FrameFits ==
  ASSUME UploadInv, NEW r \in DOMAIN request, Frame(r), Fits(r)'
  PROVE  RequestsFit'
  <1>1. DOMAIN request' = DOMAIN request
    BY DEF Frame, Moves
  <1>2. QED
    BY <1>1, OthersFit DEF RequestsFit

\* An answered request fits.
LEMMA AnswerFits ==
  ASSUME UploadInv, NEW r \in DOMAIN request, Frame(r),
         \/ /\ r = Len(request) /\ page.state = "waiting"
            /\ request'[r].pc = "answer"
            /\ request'[r].answer \in {"ok", "conflict", "full", "error"}
            /\ request'[r].chunk = request[r].chunk
            /\ request'[r].answer = "ok" /\ request[r].chunk = Last => saved' # {}
         \/ request'[r] = Upload!Over
  PROVE  RequestsFit'
  <1>1. Fits(r) /\ UploadTypes /\ Len(request') = Len(request) /\ page' = page
    BY DEF UploadInv, RequestsFit, Frame, Moves
  <1>2. CASE request'[r] = Upload!Over
    <2>1. page.chunk \in Nat
      BY <1>1 DEF UploadTypes
    <2>2. request'[r].chunk = 0 /\ request'[r].pc = "over" /\ 0 # Chunks - 1
      BY <1>2, OverType, UploadNumbers
    <2>3. page'.chunk \in Nat
      BY <1>1, <2>1
    <2>4. Fits(r)'
      BY <1>2, <2>2, <2>3 DEF Fits, Busy, Holds, Blocks, Last
    <2>5. QED
      BY <2>4, FrameFits
  <1>3. CASE request'[r] # Upload!Over
    <2>1. request[r].pc # "over"
      BY DEF Frame, Busy
    <2>2. Fits(r)'
      BY <1>1, <1>3, <2>1 DEF Fits, Busy, Holds, Blocks, Last
    <2>3. QED
      BY <2>2, FrameFits
  <1>4. QED
    BY <1>2, <1>3

\* Steps of a thread make no asset but MakeRow.
LEMMA FrameSaves ==
  ASSUME UploadInv, NEW r \in DOMAIN request, Frame(r), saved' = saved,
         request'[r].chunk = request[r].chunk \/ request'[r] = Upload!Over,
         request[r].pc # "answer"
  PROVE  SavedOnce'
  <1>1. SavedOnce /\ DOMAIN request' = DOMAIN request
        /\ Len(request') = Len(request) /\ page' = page
        /\ DOMAIN file \subseteq DOMAIN file'
    BY DEF UploadInv, Frame, Moves, Grows
  <1>2. saved # {} /\ page.state = "waiting" => r # Len(request)
    BY <1>1 DEF SavedOnce
  <1>3. \A q \in DOMAIN request \ {r} : request'[q] = request[q]
    BY DEF Frame, Moves
  <1>4. saved # {} => request'[r].chunk # Last
    BY <1>1, OverType, UploadNumbers DEF SavedOnce
  <1>5. page.state = "waiting" => Len(request) \in DOMAIN request
    BY <1>1 DEF SavedOnce, UploadInv, UploadTypes
  <1>6. saved' = {} \/ \E f \in DOMAIN file' : saved' = {f}
    BY <1>1 DEF SavedOnce
  <1>7. /\ page'.state = "ok" => saved' # {}
        /\ page'.state = "waiting" => Len(request') > 0
        /\ page'.state = "unconfirmed" => page'.chunk = Last
    BY <1>1 DEF SavedOnce
  <1>8. ASSUME saved' # {}
        PROVE  /\ page'.chunk = Last
               /\ page'.state \in {"waiting", "ok", "unconfirmed"}
               /\ page'.state = "waiting" =>
                       /\ request'[Len(request')].pc = "answer"
                       /\ request'[Len(request')].answer = "ok"
               /\ \A q \in DOMAIN request' :
                       request'[q].chunk = Last => request'[q].pc = "answer"
    BY <1>1, <1>2, <1>3, <1>4, <1>5, <1>8 DEF SavedOnce
  <1>9. QED
    BY <1>6, <1>7, <1>8 DEF SavedOnce, Last

LEMMA FrameMeetsOne ==
  ASSUME UploadInv, NEW r \in DOMAIN request, Frame(r)
  PROVE  SweepMeetsOne'
  <1>1. SweepMeetsOne /\ Busy(r)
    BY DEF UploadInv, Frame
  <1>2. /\ DOMAIN request' = DOMAIN request /\ Len(request') = Len(request)
        /\ sweeping' = sweeping
        /\ \A q \in DOMAIN request \ {r} : request'[q] = request[q]
    BY DEF Frame, Moves
  <1>3. QED
    BY <1>1, <1>2 DEF SweepMeetsOne, Busy

LEMMA FrameTypes ==
  ASSUME UploadInv, NEW r \in DOMAIN request, Frame(r),
         staged' \in {0} \cup DOMAIN file', saved' \subseteq DOMAIN file'
  PROVE  UploadTypes'
  BY DEF UploadInv, UploadTypes, Frame, Moves, Grows

\* Everything but wholeness.
Accounts == UploadTypes /\ RequestsFit /\ SavedOnce /\ SweepMeetsOne

LEMMA OpenAccounts ==
  ASSUME UploadInv, NEW r \in DOMAIN request, Upload!Open(r)
  PROVE  Accounts' /\ Frame(r)
  <1>1. Frame(r)
    BY OpenStep DEF Frame, Busy
  <1>2. UploadTypes /\ Fits(r) /\ request[r] \in RequestState
    BY DEF UploadInv, RequestsFit, UploadTypes
  <1>3. UploadTypes'
    <2>1. DOMAIN file \subseteq DOMAIN file' /\ saved' = saved
      BY OpenStep DEF Grows
    <2>2. QED
      BY <1>1, <1>2, <2>1, OpenStep, FrameTypes DEF UploadTypes
  <1>4. /\ request[r].pc = "sent" /\ request'[r].chunk = request[r].chunk
        /\ request'[r].pc \in {"write", "drop"}
        /\ request'[r].pc = "write" => /\ request'[r].file \in DOMAIN file'
                                       /\ 2 * request[r].chunk <= Held
        /\ request'[r].pc = "drop" => request'[r].answer \in {"conflict", "full"}
        /\ request'[r].pc = "drop" /\ request'[r].answer = "full" => refused'
        /\ page' = page /\ Len(request') = Len(request) /\ Held' = Held
        /\ staged' = request'[r].file
    BY OpenStep DEF Moves
  <1>5. request'[r].pc = "write"
            => Len(file'[request'[r].file]) >= 2 * request'[r].chunk
    <2>1. staged' # 0
      BY <1>2, OpenStep DEF UploadTypes, Grows
    <2>2. Len(file'[staged']) = Held
      BY <1>4, <2>1 DEF Held
    <2>3. QED
      BY <1>4, <2>2
  <1>6. Fits(r)'
    BY <1>2, <1>4, <1>5 DEF Fits, Busy, Holds, Blocks, Last
  <1>7. QED
    BY <1>1, <1>3, <1>4, <1>6, FrameFits, FrameSaves, FrameMeetsOne, OpenStep
    DEF Accounts

LEMMA WriteAccounts ==
  ASSUME UploadInv, NEW r \in DOMAIN request, Upload!Write(r)
  PROVE  Accounts' /\ Frame(r)
  <1>1. Frame(r)
    BY WriteStep DEF Frame, Busy
  <1>2. UploadTypes /\ Fits(r) /\ request[r] \in RequestState /\ saved' = saved
        /\ page' = page /\ Len(request') = Len(request)
        /\ DOMAIN file' = DOMAIN file
    BY WriteStep DEF UploadInv, RequestsFit, UploadTypes, Moves
  <1>3. UploadTypes'
    BY <1>1, <1>2, WriteStep, FrameTypes DEF UploadTypes
  <1>4. RequestsFit'
    <2>1. CASE \/ /\ r = Len(request) /\ page.state = "waiting"
                  /\ request'[r].pc = "answer" /\ request'[r].answer = "ok"
                  /\ request'[r].chunk = request[r].chunk
                  /\ request[r].chunk # Last
               \/ request'[r] = Upload!Over
      BY <1>1, <2>1, AnswerFits
    <2>2. CASE request'[r].pc = "rest"
      <3>1. /\ request'[r].chunk = request[r].chunk
            /\ request'[r].file \in DOMAIN file'
            /\ Len(file'[request'[r].file]) >= 2 * request'[r].chunk + 1
            /\ request[r].pc = "write"
        BY <1>2, <2>2, WriteStep, OverType
      <3>2. Fits(r)'
        BY <1>2, <2>2, <3>1 DEF Fits, Busy, Holds, Blocks, Last
      <3>3. QED
        BY <1>1, <3>2, FrameFits
    <2>3. CASE request'[r].pc = "move"
      <3>1. /\ request'[r].chunk = request[r].chunk
            /\ request'[r].file \in DOMAIN file' /\ request[r].chunk = Last
            /\ Len(file'[request'[r].file]) >= 2 * Chunks
            /\ request[r].pc = "rest"
        BY <1>2, <2>3, WriteStep, OverType
      <3>2. Fits(r)'
        BY <1>2, <2>3, <3>1 DEF Fits, Busy, Holds, Blocks, Last
      <3>3. QED
        BY <1>1, <3>2, FrameFits
    <2>4. CASE /\ request'[r].pc = "drop" /\ request'[r].answer = "full"
               /\ request'[r].chunk = request[r].chunk /\ refused'
               /\ request[r].pc \in {"write", "rest"}
      <3>1. Fits(r)'
        BY <1>2, <2>4 DEF Fits, Busy, Holds, Blocks, Last
      <3>2. QED
        BY <1>1, <3>1, FrameFits
    <2>5. QED
      BY <2>1, <2>2, <2>3, <2>4, WriteStep
  <1>5. QED
    BY <1>1, <1>2, <1>3, <1>4, FrameSaves, FrameMeetsOne, WriteStep DEF Accounts

LEMMA DropAccounts ==
  ASSUME UploadInv, NEW r \in DOMAIN request, Upload!Drop(r)
  PROVE  Accounts' /\ Frame(r)
  <1>0. UploadTypes
    BY DEF UploadInv
  <1>1. Frame(r)
    BY <1>0, DropStep DEF Frame, Busy, UploadTypes
  <1>2. UploadTypes'
    BY <1>0, <1>1, DropStep, FrameTypes DEF UploadTypes
  <1>3. RequestsFit'
    BY <1>1, DropStep, AnswerFits
  <1>4. QED
    BY <1>1, <1>2, <1>3, FrameSaves, FrameMeetsOne, DropStep DEF Accounts

LEMMA MoveAccounts ==
  ASSUME UploadInv, NEW r \in DOMAIN request, Upload!Move(r)
  PROVE  Accounts' /\ Frame(r)
  <1>0. UploadTypes /\ Fits(r)
    BY DEF UploadInv, RequestsFit
  <1>1. Frame(r)
    BY <1>0, MoveStep DEF Frame, Busy, UploadTypes
  <1>2. UploadTypes'
    BY <1>0, <1>1, MoveStep, FrameTypes DEF UploadTypes
  <1>3. RequestsFit'
    <2>1. CASE /\ staged # 0 /\ request'[r].pc = "row"
               /\ request'[r].file = staged
               /\ request'[r].chunk = request[r].chunk
      <3>1. page' = page /\ Len(request') = Len(request) /\ request[r].pc = "move"
            /\ staged \in DOMAIN file'
        BY <1>0, <2>1, MoveStep DEF Moves, UploadTypes
      <3>2. Fits(r)'
        BY <1>0, <2>1, <3>1 DEF Fits, Busy, Holds, Blocks, Last
      <3>3. QED
        BY <1>1, <3>2, FrameFits
    <2>2. CASE \/ /\ r = Len(request) /\ page.state = "waiting"
                  /\ request'[r].pc = "answer" /\ request'[r].answer = "error"
                  /\ request'[r].chunk = request[r].chunk
               \/ request'[r] = Upload!Over
      BY <1>1, <2>2, AnswerFits
    <2>3. QED
      BY <2>1, <2>2, MoveStep
  <1>4. QED
    BY <1>1, <1>2, <1>3, FrameSaves, FrameMeetsOne, MoveStep DEF Accounts

LEMMA RowAccounts ==
  ASSUME UploadInv, NEW r \in DOMAIN request, Upload!MakeRow(r)
  PROVE  Accounts' /\ Frame(r)
  <1>0. UploadTypes /\ Fits(r) /\ SavedOnce
    BY DEF UploadInv, RequestsFit
  <1>1. Frame(r)
    BY <1>0, RowStep DEF Frame, Busy, UploadTypes
  <1>2. request[r].file \in DOMAIN file /\ request[r].chunk = Last
        /\ r = Len(request) /\ page.state \in {"waiting", "unconfirmed"}
        /\ page.chunk = Last
    BY <1>0, RowStep DEF Fits, Busy
  <1>3. saved = {} /\ saved' = {request[r].file}
    BY <1>0, <1>2, RowStep DEF SavedOnce
  <1>4. UploadTypes'
    BY <1>0, <1>1, <1>2, <1>3, RowStep, FrameTypes DEF UploadTypes
  <1>5. RequestsFit'
    BY <1>1, <1>3, RowStep, AnswerFits
  <1>6. SavedOnce'
    <2>1. /\ DOMAIN request' = DOMAIN request /\ Len(request') = Len(request)
          /\ page' = page /\ file' = file
          /\ \A q \in DOMAIN request \ {r} : request'[q] = request[q]
      BY RowStep DEF Moves
    <2>2. \A q \in DOMAIN request \ {r} : request[q].chunk # Last
      BY <1>2 DEF UploadInv, RequestsFit, Fits
    <2>3. request'[r].chunk = Last => request'[r].pc = "answer"
      BY RowStep, OverType, UploadNumbers
    <2>4. ASSUME page.state = "waiting"
          PROVE  request'[r].pc = "answer" /\ request'[r].answer = "ok"
      <3>1. CASE request'[r] = Upload!Over
        <4>1. request' = [request EXCEPT ![r] =
                [Upload!Over EXCEPT !.chunk = request[r].chunk,
                                    !.pc = "answer", !.answer = "ok"]]
          BY <1>2, <2>4 DEF Upload!MakeRow, Upload!Respond, Upload!Current
        <4>2. request'[r] = [Upload!Over EXCEPT !.chunk = request[r].chunk,
                                    !.pc = "answer", !.answer = "ok"]
          BY <4>1, <1>0 DEF UploadTypes
        <4>3. QED
          BY <4>2 DEF Upload!Over
      <3>2. QED
        BY <3>1, RowStep
    <2>5. Len(request) > 0
      BY <1>0, <1>2 DEF UploadTypes
    <2>6. /\ saved' = {request[r].file} /\ request[r].file \in DOMAIN file'
          /\ page'.state # "ok" /\ page'.chunk = Last
          /\ page'.state \in {"waiting", "unconfirmed"}
          /\ Len(request') > 0
      BY <1>2, <1>3, <2>1, <2>5
    <2>7. page'.state = "waiting" => /\ request'[Len(request')].pc = "answer"
                                     /\ request'[Len(request')].answer = "ok"
      BY <1>2, <2>1, <2>4
    <2>8. \A q \in DOMAIN request' :
                request'[q].chunk = Last => request'[q].pc = "answer"
      BY <2>1, <2>2, <2>3
    <2>9. QED
      BY <2>6, <2>7, <2>8 DEF SavedOnce, Last
  <1>7. QED
    BY <1>1, <1>4, <1>5, <1>6, FrameMeetsOne DEF Accounts

\* The last chunk's thread past its writes: nothing will be renamed.
LEMMA LastIsPast ==
  ASSUME UploadInv, NEW r \in DOMAIN request, Moves(r), page' = page,
         request[r].chunk = Last, Busy(r),
         request'[r].pc \notin {"sent", "write", "rest", "move"}
  PROVE  Past' /\ LatestHasTheName'
  <1>1. /\ r = Len(request) /\ page.state \in {"waiting", "unconfirmed"}
        /\ page.chunk = Last
        /\ \A q \in DOMAIN request \ {r} : request[q].chunk # Last
    BY DEF UploadInv, RequestsFit, Fits
  <1>2. /\ DOMAIN request' = DOMAIN request /\ Len(request') = Len(request)
        /\ \A q \in DOMAIN request \ {r} : request'[q] = request[q]
    BY DEF Moves
  <1>3. Past'
    BY <1>1, <1>2 DEF Past, Last
  <1>4. LatestHasTheName'
    BY <1>1, <1>2 DEF LatestHasTheName, Holds
  <1>5. QED
    BY <1>3, <1>4

LEMMA OpenWhole ==
  ASSUME UploadInv, NEW r \in DOMAIN request, Upload!Open(r), ~refused'
  PROVE  FilesAreWhole' /\ LatestHasTheName' /\ (Past \/ Cut \/ Intact)'
  <1>0. UploadTypes /\ RequestsFit /\ FilesAreWhole /\ LatestHasTheName
        /\ (Past \/ Cut \/ Intact)
    BY OpenStep DEF UploadInv, WholeUnlessFull
  <1>1. /\ DOMAIN request' = DOMAIN request /\ Len(request') = Len(request)
        /\ \A q \in DOMAIN request \ {r} : request'[q] = request[q]
        /\ page' = page /\ saved' = saved /\ Held' = Held
        /\ request'[r].chunk = request[r].chunk /\ request'[r].file = staged'
        /\ request[r].pc = "sent" /\ request'[r].pc \in {"write", "drop"}
    BY OpenStep DEF Moves
  <1>2. \A f \in DOMAIN file : file'[f] = file[f]
    BY OpenStep
  <1>3. \A q \in DOMAIN request : Holds(q) \/ request[q].pc = "row"
            => request[q].file \in DOMAIN file
    BY <1>0 DEF RequestsFit, Fits
  <1>4. Busy(r) /\ \A q \in DOMAIN request \ {r} : ~Alone(q)
    BY <1>1 DEF Busy, Alone
  <1>5. staged # 0 => staged' = staged
    BY OpenStep
  <1>6. staged = 0 => \A f \in DOMAIN file : staged' # f
    BY <1>0, OpenStep DEF UploadTypes
  <1>7. \A f \in DOMAIN file : f # 0
    BY <1>0 DEF UploadTypes
  <1>8. FilesAreWhole'
    <2>1. \A f \in saved' : Len(file'[f]) = 2 * Chunks
      BY <1>0, <1>1, <1>2 DEF FilesAreWhole, UploadTypes
    <2>2. \A q \in DOMAIN request' : request'[q].pc = "row"
            => Len(file'[request'[q].file]) = 2 * Chunks
      BY <1>0, <1>1, <1>2, <1>3 DEF FilesAreWhole, Blocks
    <2>3. QED
      BY <2>1, <2>2 DEF FilesAreWhole, Blocks
  <1>9. LatestHasTheName'
    <2> SUFFICES ASSUME NEW q \in DOMAIN request, q = Len(request),
                        page.state \in {"waiting", "unconfirmed"},
                        request'[q].pc \in {"write", "rest", "move"}
                 PROVE  staged' = request'[q].file
      BY <1>1 DEF LatestHasTheName, Holds
    <2>1. CASE q = r
      BY <1>1, <2>1
    <2>2. CASE q # r
      <3>1. request'[q] = request[q] /\ Holds(q) /\ ~Alone(q)
        BY <1>1, <1>4, <2>2 DEF Holds
      <3>2. staged = request[q].file
        BY <1>0, <3>1 DEF LatestHasTheName
      <3>3. QED
        BY <1>3, <1>5, <1>7, <3>1, <3>2
    <2>3. QED
      BY <2>1, <2>2
  <1>10. ASSUME Past PROVE Past'
    BY <1>1, <1>10 DEF Past, Last
  <1>11. ASSUME Cut PROVE Cut'
    <2>1. request[r].chunk >= 1 /\ Held = 0 /\ request[r].chunk \in Nat
      <3>1. request[r] \in RequestState
        BY <1>0 DEF UploadTypes
      <3>2. request[r].chunk \in Nat
        BY <3>1, UploadNumbers DEF RequestState
      <3>3. QED
        BY <1>4, <1>11, <3>2 DEF Cut
    <2>2. request'[r].pc = "drop"
      BY <2>1, OpenStep
    <2>3. \A q \in DOMAIN request \ {r} :
            Holds(q) => request[q].file # staged'
      BY <1>3, <1>5, <1>6, <1>11 DEF Cut
    <2>4. QED
      BY <1>1, <1>11, <2>1, <2>2, <2>3 DEF Cut, Busy, Holds
  <1>12. ASSUME Intact PROVE Intact'
    <2>1. /\ request[r].chunk <= page.chunk /\ request[r].chunk \in Nat
          /\ page.chunk \in Nat /\ 2 * page.chunk <= Held /\ Held \in Nat
      <3>1. request[r] \in RequestState /\ page.chunk \in Nat /\ Held \in Nat
        BY <1>0, UploadNumbers DEF UploadTypes, Held
      <3>2. request[r].chunk \in Nat
        BY <3>1, UploadNumbers DEF RequestState
      <3>3. QED
        BY <1>0, <1>12, <3>1, <3>2 DEF Intact, RequestsFit, Fits
    <2>2. ~(2 * request[r].chunk > Held)
      BY <2>1
    <2>3. request'[r].pc = "write"
      BY <2>2, OpenStep
    <2>4. ASSUME NEW q \in DOMAIN request, q = Len(request),
                 request'[q].pc = "answer", page.chunk # Last
          PROVE  2 * (page.chunk + 1) <= Held
      <3>1. q # r /\ request[q].pc = "answer" /\ ~Alone(q)
        BY <1>1, <1>4, <2>3, <2>4
      <3>2. QED
        BY <1>12, <2>4, <3>1 DEF Intact
    <2>5. QED
      BY <1>1, <1>12, <2>3, <2>4 DEF Intact, Last
  <1>13. QED
    BY <1>0, <1>8, <1>9, <1>10, <1>11, <1>12

LEMMA WriteWhole ==
  ASSUME UploadInv, NEW r \in DOMAIN request, Upload!Write(r), ~refused'
  PROVE  FilesAreWhole' /\ LatestHasTheName' /\ (Past \/ Cut \/ Intact)'
  <1>0. UploadTypes /\ RequestsFit /\ FilesAreWhole /\ LatestHasTheName
        /\ (Past \/ Cut \/ Intact)
    BY WriteStep DEF UploadInv, WholeUnlessFull
  <1>1. /\ DOMAIN request' = DOMAIN request /\ Len(request') = Len(request)
        /\ \A q \in DOMAIN request \ {r} : request'[q] = request[q]
        /\ page' = page /\ saved' = saved /\ staged' = staged
        /\ request[r].pc \in {"write", "rest"} /\ DOMAIN file' = DOMAIN file
    BY WriteStep DEF Moves
  <1>2. \/ /\ request'[r].pc \in {"rest", "move"}
           /\ request'[r].file = request[r].file
           /\ request'[r].chunk = request[r].chunk
        \/ /\ r = Len(request) /\ request'[r].pc = "answer"
           /\ request'[r].chunk = request[r].chunk /\ request[r].chunk # Last
           /\ Len(file'[request[r].file]) >= 2 * request[r].chunk + 2
        \/ request'[r] = Upload!Over
    BY WriteStep
  <1>3. \A f \in DOMAIN file : /\ Len(file'[f]) >= Len(file[f])
                               /\ Len(file'[f]) <= 2 * Chunks
                               /\ Len(file[f]) \in Nat /\ Len(file'[f]) \in Nat
    BY SMTT(20), <1>0, WriteStep DEF Grows, UploadTypes
  <1>4. Busy(r) /\ Holds(r) /\ \A q \in DOMAIN request \ {r} : ~Alone(q)
    BY <1>1 DEF Busy, Alone, Holds
  <1>5. \A q \in DOMAIN request : Holds(q) \/ request[q].pc = "row"
            => request[q].file \in DOMAIN file
    BY <1>0 DEF RequestsFit, Fits
  <1>6. \A f \in DOMAIN file : Len(file[f]) = 2 * Chunks
                                    => Len(file'[f]) = 2 * Chunks
    BY <1>3, UploadNumbers
  <1>7. FilesAreWhole'
    <2>1. \A f \in saved' : Len(file'[f]) = 2 * Chunks
      BY <1>0, <1>1, <1>6 DEF FilesAreWhole, UploadTypes
    <2>2. \A q \in DOMAIN request' : request'[q].pc = "row"
            => Len(file'[request'[q].file]) = 2 * Chunks
      BY <1>0, <1>1, <1>2, <1>5, <1>6, OverType DEF FilesAreWhole, Blocks
    <2>3. QED
      BY <2>1, <2>2 DEF FilesAreWhole, Blocks
  <1>8. LatestHasTheName'
    <2> SUFFICES ASSUME NEW q \in DOMAIN request, q = Len(request),
                        page.state \in {"waiting", "unconfirmed"},
                        request'[q].pc \in {"write", "rest", "move"}
                 PROVE  staged' = request'[q].file \/ (staged' = 0 /\ Alone(q)')
      BY <1>1 DEF LatestHasTheName, Holds
    <2>1. CASE q = r
      <3>1. request'[r].file = request[r].file
        BY <1>2, <2>1, OverType
      <3>2. staged = request[r].file \/ (staged = 0 /\ Alone(r))
        BY <1>0, <1>4, <2>1 DEF LatestHasTheName
      <3>3. Alone(r) => Alone(r)'
        BY <1>1 DEF Alone, Busy
      <3>4. QED
        BY <1>1, <2>1, <3>1, <3>2, <3>3
    <2>2. CASE q # r
      <3>1. request'[q] = request[q] /\ Holds(q) /\ ~Alone(q)
        BY <1>1, <1>4, <2>2 DEF Holds
      <3>2. QED
        BY <1>0, <1>1, <3>1 DEF LatestHasTheName
    <2>3. QED
      BY <2>1, <2>2
  <1>9. ASSUME Past PROVE Past'
    <2>1. request[r].chunk # Last
      BY <1>1, <1>9 DEF Past
    <2>2. request'[r].chunk # Last
      BY <1>2, <2>1, OverType, UploadNumbers
    <2>3. QED
      BY <1>1, <1>9, <2>2 DEF Past, Last
  <1>10. ASSUME Cut PROVE Cut'
    <2>1. staged # request[r].file
      BY <1>4, <1>10 DEF Cut
    <2>2. staged # 0 => file'[staged] = file[staged]
      BY <1>0, <2>1, WriteStep DEF UploadTypes
    <2>3. Held' = 0
      BY <1>1, <1>10, <2>2 DEF Cut, Held
    <2>4. /\ request'[r].pc # "over" => request'[r].chunk >= 1
          /\ request'[r].pc \in {"write", "rest", "move"}
                => request'[r].file # staged'
      BY <1>1, <1>2, <1>4, <1>10, <2>1, OverType DEF Cut
    <2>5. QED
      BY <1>1, <1>10, <2>3, <2>4 DEF Cut, Busy, Holds
  <1>11. ASSUME Intact PROVE Intact'
    <2>1. Held' >= Held /\ Held \in Nat /\ Held' \in Nat /\ page.chunk \in Nat
      BY <1>0, <1>1, <1>3 DEF Held, UploadTypes
    <2>2. 2 * page'.chunk <= Held'
      BY <1>1, <1>11, <2>1 DEF Intact
    <2>3. request'[r].pc # "drop"
      BY <1>2, OverType
    <2>4. ASSUME NEW q \in DOMAIN request, q = Len(request),
                 request'[q].pc = "answer", page.chunk # Last
          PROVE  2 * (page.chunk + 1) <= Held' \/ (staged' = 0 /\ Alone(q)')
      <3>1. CASE q = r
        <4>1. Len(file'[request[r].file]) >= 2 * request[r].chunk + 2
          BY <1>2, <2>4, <3>1, OverType
        <4>2. request[r].chunk = page.chunk /\ page.state \in {"waiting", "unconfirmed"}
          <5>1. page.state = "waiting"
            BY <1>2, <2>4, <3>1, WriteStep, OverType
          <5>2. QED
            BY <1>0, <1>4, <2>4, <3>1, <5>1 DEF RequestsFit, Fits
        <4>3. staged = request[r].file \/ (staged = 0 /\ Alone(r))
          BY <1>0, <1>4, <2>4, <3>1, <4>2 DEF LatestHasTheName
        <4>4. Alone(r) => Alone(r)'
          BY <1>1 DEF Alone, Busy
        <4>5. CASE staged = request[r].file
          <5>1. Held' = Len(file'[request[r].file])
            BY <1>0, <1>1, <1>4, <1>5, <4>5 DEF Held, UploadTypes
          <5>2. QED
            BY <2>1, <4>1, <4>2, <5>1
        <4>6. QED
          BY <1>1, <3>1, <4>3, <4>4, <4>5
      <3>2. CASE q # r
        <4>1. request[q].pc = "answer" /\ ~Alone(q)
          BY <1>1, <1>4, <2>4, <3>2
        <4>2. 2 * (page.chunk + 1) <= Held
          BY <1>11, <2>4, <4>1 DEF Intact
        <4>3. QED
          BY <2>1, <4>2
      <3>3. QED
        BY <3>1, <3>2
    <2>5. QED
      BY <1>1, <1>11, <2>2, <2>3, <2>4 DEF Intact, Last
  <1>12. QED
    BY <1>0, <1>7, <1>8, <1>9, <1>10, <1>11

LEMMA DropWhole ==
  ASSUME UploadInv, NEW r \in DOMAIN request, Upload!Drop(r), ~refused'
  PROVE  FilesAreWhole' /\ LatestHasTheName' /\ (Past \/ Cut \/ Intact)'
  <1>0. UploadTypes /\ RequestsFit /\ SavedOnce /\ FilesAreWhole
        /\ LatestHasTheName /\ (Past \/ Cut \/ Intact)
    BY DropStep DEF UploadInv, WholeUnlessFull
  <1>1. /\ DOMAIN request' = DOMAIN request /\ Len(request') = Len(request)
        /\ \A q \in DOMAIN request \ {r} : request'[q] = request[q]
        /\ page' = page /\ saved' = saved /\ file' = file /\ staged' = 0
        /\ request[r].pc = "drop"
    BY DropStep DEF Moves
  <1>2. \/ request'[r].pc = "answer" /\ request'[r].chunk = request[r].chunk
        \/ request'[r].pc = "over" /\ request'[r].chunk = 0
    BY DropStep, OverType
  <1>3. Busy(r) /\ \A q \in DOMAIN request \ {r} : ~Alone(q)
    BY <1>1 DEF Busy, Alone
  <1>4. ~Intact
    BY <1>1 DEF Intact
  <1>5. FilesAreWhole'
    BY <1>0, <1>1, <1>2 DEF FilesAreWhole, Blocks
  <1>6. ASSUME NEW q \in DOMAIN request \ {r}, q = Len(request), Holds(q),
               page.state \in {"waiting", "unconfirmed"}
        PROVE  FALSE
    <2>1. staged = request[q].file
      BY <1>0, <1>3, <1>6 DEF LatestHasTheName
    <2>2. ~Cut
      BY <1>6, <2>1 DEF Cut
    <2>3. request[q].chunk = page.chunk
      BY <1>0, <1>6 DEF RequestsFit, Fits, Busy, Holds
    <2>4. Past => page.chunk = Last
      BY <1>0, <1>6 DEF Past, SavedOnce
    <2>5. ~Past
      BY <1>6, <2>3, <2>4 DEF Past, Holds
    <2>6. QED
      BY <1>0, <1>4, <2>2, <2>5
  <1>7. LatestHasTheName'
    BY <1>1, <1>2, <1>6 DEF LatestHasTheName, Holds
  <1>8. ASSUME Past PROVE Past'
    BY <1>1, <1>2, <1>8, UploadNumbers DEF Past, Last
  <1>9. ASSUME Cut PROVE Cut'
    <2>1. \A q \in DOMAIN request : Holds(q) => request[q].file # 0
      BY <1>0 DEF RequestsFit, Fits, UploadTypes
    <2>2. QED
      BY <1>1, <1>2, <1>3, <1>9, <2>1 DEF Cut, Busy, Holds, Held
  <1>10. QED
    BY <1>0, <1>4, <1>5, <1>7, <1>8, <1>9

LEMMA MoveWhole ==
  ASSUME UploadInv, NEW r \in DOMAIN request, Upload!Move(r), ~refused'
  PROVE  FilesAreWhole' /\ LatestHasTheName' /\ (Past \/ Cut \/ Intact)'
  <1>0. UploadTypes /\ Fits(r) /\ FilesAreWhole /\ LatestHasTheName
    BY MoveStep DEF UploadInv, WholeUnlessFull, RequestsFit
  <1>1. /\ DOMAIN request' = DOMAIN request
        /\ \A q \in DOMAIN request \ {r} : request'[q] = request[q]
        /\ saved' = saved /\ file' = file /\ page' = page
        /\ request[r].pc = "move" /\ Moves(r)
    BY MoveStep DEF Moves
  <1>2. Busy(r) /\ Holds(r) /\ request[r].chunk = Last
    BY <1>0, <1>1 DEF Busy, Holds, Fits
  <1>3. request'[r].pc \notin {"sent", "write", "rest", "move"}
    BY MoveStep, OverType
  <1>4. request'[r].pc = "row" => Len(file[request'[r].file]) = 2 * Chunks
    <2> SUFFICES ASSUME request'[r].pc = "row"
                 PROVE  Len(file[request'[r].file]) = 2 * Chunks
      OBVIOUS
    <2>1. staged # 0 /\ request'[r].file = staged
      BY MoveStep, OverType
    <2>2. staged = request[r].file
      BY <1>0, <1>2, <2>1 DEF LatestHasTheName, Fits
    <2>3. /\ Len(file[staged]) >= 2 * Chunks /\ Len(file[staged]) <= 2 * Chunks
          /\ Len(file[staged]) \in Nat /\ 2 * Chunks \in Nat
      BY SMTT(20), <1>0, <1>1, <2>1, <2>2, UploadNumbers DEF Fits, Blocks, UploadTypes
    <2>4. QED
      BY <2>1, <2>3
  <1>5. FilesAreWhole'
    BY <1>0, <1>1, <1>4 DEF FilesAreWhole, Blocks
  <1>6. QED
    BY <1>1, <1>2, <1>3, <1>5, LastIsPast

LEMMA RowWhole ==
  ASSUME UploadInv, NEW r \in DOMAIN request, Upload!MakeRow(r), ~refused'
  PROVE  FilesAreWhole' /\ LatestHasTheName' /\ (Past \/ Cut \/ Intact)'
  <1>0. UploadTypes /\ Fits(r) /\ FilesAreWhole
    BY RowStep DEF UploadInv, WholeUnlessFull, RequestsFit
  <1>1. /\ DOMAIN request' = DOMAIN request
        /\ \A q \in DOMAIN request \ {r} : request'[q] = request[q]
        /\ saved' = saved \cup {request[r].file} /\ file' = file /\ page' = page
        /\ request[r].pc = "row" /\ Moves(r)
    BY RowStep DEF Moves
  <1>2. Busy(r) /\ request[r].chunk = Last
    BY <1>0, <1>1 DEF Busy, Fits
  <1>3. request'[r].pc \notin {"sent", "write", "rest", "move", "row"}
    BY RowStep, OverType
  <1>4. FilesAreWhole'
    BY <1>0, <1>1, <1>3 DEF FilesAreWhole, Blocks
  <1>5. QED
    BY <1>1, <1>2, <1>3, <1>4, LastIsPast

LEMMA HandleKeeps ==
  ASSUME UploadInv, NEW r \in DOMAIN request, Upload!Handle(r)
  PROVE  UploadInv'
  <1>1. Accounts'
    BY OpenAccounts, WriteAccounts, DropAccounts, MoveAccounts, RowAccounts
    DEF Upload!Handle
  <1>2. WholeUnlessFull'
    BY OpenWhole, WriteWhole, DropWhole, MoveWhole, RowWhole
    DEF Upload!Handle, WholeUnlessFull
  <1>3. QED
    BY <1>1, <1>2 DEF Accounts, UploadInv

\* The next chunk, or the same again.
LEMMA SendKeeps ==
  ASSUME UploadInv, Upload!Send
  PROVE  UploadInv'
  <1>n. PICK n : n = Len(request) + 1
    OBVIOUS
  <1> DEFINE new == [Upload!Over EXCEPT !.chunk = page.chunk, !.pc = "sent"]
  <1>0. UploadTypes /\ RequestsFit /\ SavedOnce /\ SweepMeetsOne
    BY DEF UploadInv
  <1>1. /\ page.state = "ready" /\ ~sweeping
        /\ UNCHANGED <<file, staged, saved, sweeping, refused>>
        /\ request' = Append(request, new)
        /\ page' = [page EXCEPT !.state = "waiting"]
    BY DEF Upload!Send
  <1>2. /\ page'.chunk = page.chunk /\ page'.state = "waiting"
        /\ page' \in [chunk : 0..(Chunks - 1), attempt : 0..Retries,
                      state : {"ready", "waiting", "ok", "failed",
                               "conflict", "unconfirmed"}]
        /\ page.chunk \in 0..(Chunks - 1)
    BY <1>0, <1>1 DEF UploadTypes
  <1>3. /\ new \in RequestState /\ new.chunk = page.chunk /\ new.pc = "sent"
    BY <1>2, OverType DEF RequestState, Upload!Over
  <1> HIDE DEF new
  <1>4. /\ request' \in Seq(RequestState) /\ Len(request') = n
        /\ DOMAIN request' = DOMAIN request \cup {n} /\ request'[n] = new
        /\ \A q \in DOMAIN request : request'[q] = request[q] /\ q # n
    BY <1>0, <1>1, <1>3, <1>n, AppendedTo DEF UploadTypes
  <1>5. n > 0
    BY <1>0, <1>n DEF UploadTypes
  <1>6. \A q \in DOMAIN request :
            request[q].chunk # Last /\ request[q].pc # "answer"
    BY <1>0, <1>1 DEF RequestsFit, Fits
  <1>7. saved = {}
    BY <1>0, <1>1 DEF SavedOnce
  <1>8. UploadTypes'
    BY <1>0, <1>1, <1>2, <1>4 DEF UploadTypes
  <1>9. Fits(n)'
    BY <1>2, <1>3, <1>4 DEF Fits, Busy, Holds, Blocks, Last
  <1>10. ASSUME NEW q \in DOMAIN request PROVE Fits(q)'
    <2>1. Fits(q) /\ request'[q] = request[q] /\ q # Len(request')
          /\ request[q].chunk # Last /\ request[q].pc # "answer"
      BY <1>0, <1>4, <1>6 DEF RequestsFit
    <2>2. QED
      BY <1>1, <1>2, <2>1 DEF Fits, Busy, Holds, Blocks, Last
  <1>11. RequestsFit'
    BY <1>4, <1>9, <1>10 DEF RequestsFit
  <1>12. SavedOnce' /\ SweepMeetsOne'
    BY <1>1, <1>2, <1>4, <1>5, <1>7 DEF SavedOnce, SweepMeetsOne
  <1>13. ASSUME ~refused'
         PROVE  FilesAreWhole' /\ LatestHasTheName' /\ (Past \/ Cut \/ Intact)'
    <2>1. FilesAreWhole /\ (Past \/ Cut \/ Intact)
      BY <1>1, <1>13 DEF UploadInv, WholeUnlessFull
    <2>2. FilesAreWhole'
      BY <1>1, <1>3, <1>4, <2>1 DEF FilesAreWhole, Blocks
    <2>3. LatestHasTheName'
      BY <1>3, <1>4 DEF LatestHasTheName, Holds
    <2>4. ~Past
      BY <1>1 DEF Past
    <2>5. ASSUME Cut PROVE Cut'
      BY <1>1, <1>2, <1>3, <1>4, <2>5 DEF Cut, Busy, Holds, Held
    <2>6. ASSUME Intact PROVE Intact'
      <3>1. \A q \in DOMAIN request' :
                request'[q].pc # "drop" /\ request'[q].pc # "answer"
        BY <1>3, <1>4, <1>6, <2>6 DEF Intact
      <3>2. Held' = Held /\ 2 * page.chunk <= Held
        BY <1>1, <2>6 DEF Held, Intact
      <3>3. QED
        BY <1>2, <3>1, <3>2 DEF Intact
    <2>7. QED
      BY <2>1, <2>2, <2>3, <2>4, <2>5, <2>6
  <1>14. QED
    BY <1>8, <1>11, <1>12, <1>13 DEF UploadInv, WholeUnlessFull

\* What the page does with what it heard, or did not hear, of its request.
Hears ==
    /\ page.state = "waiting" /\ page'.state # "waiting"
    /\ page' \in [chunk : 0..(Chunks - 1), attempt : 0..Retries,
                  state : {"ready", "waiting", "ok", "failed",
                           "conflict", "unconfirmed"}]
    /\ UNCHANGED <<file, staged, saved, sweeping, refused>>
    /\ Moves(Len(request)) /\ Len(request) \in DOMAIN request
    /\ \/ request'[Len(request)] = request[Len(request)]
       \/ request'[Len(request)] = Upload!Over
    /\ request'[Len(request)].pc # "answer"
    /\ page'.state = "unconfirmed" => page'.chunk = Last
    /\ page'.state # "unconfirmed" /\ page.chunk = Last
            => request'[Len(request)] = Upload!Over
    /\ page'.state = "ok" => saved # {}
    /\ saved # {} => page'.state \in {"ok", "unconfirmed"}
    /\ page.chunk = Last => page'.chunk = Last
    /\ \/ page'.chunk = page.chunk
       \/ /\ page.chunk # Last /\ page'.chunk = page.chunk + 1
          /\ request[Len(request)].pc = "answer"
          /\ request'[Len(request)] = Upload!Over
    /\ page'.state = "ready" /\ page.chunk = Last
            => request[Len(request)].pc = "sent"

LEMMA HearsKeeps ==
  ASSUME UploadInv, Hears
  PROVE  UploadInv'
  <1>n. PICK n : n = Len(request)
    OBVIOUS
  <1>0. UploadTypes /\ RequestsFit /\ SavedOnce /\ SweepMeetsOne
    BY DEF UploadInv
  <1>1. /\ n = Len(request) /\ n \in DOMAIN request /\ DOMAIN request' = DOMAIN request
        /\ Len(request') = n
        /\ \A q \in DOMAIN request \ {n} : request'[q] = request[q]
        /\ request' \in Seq(RequestState)
        /\ request'[n] = request[n] \/ request'[n] = Upload!Over
        /\ page.state = "waiting" /\ page'.state # "waiting"
        /\ UNCHANGED <<file, staged, saved, sweeping, refused>>
    BY <1>n DEF Hears, Moves
  <1>2. /\ page.chunk \in Nat /\ page'.chunk \in Nat
        /\ page.chunk <= page'.chunk /\ page'.chunk <= Last
    BY <1>0, UploadNumbers DEF Hears, UploadTypes, Last
  <1>3. UploadTypes'
    BY <1>0, <1>1 DEF UploadTypes, Hears
  <1>4. \A q \in DOMAIN request : /\ request[q].chunk \in Nat
                                  /\ request[q].chunk <= page'.chunk
    <2>1. ASSUME NEW q \in DOMAIN request PROVE request[q].chunk \in Nat
      <3>1. request[q] \in RequestState
        BY <1>0 DEF UploadTypes
      <3>2. QED
        BY <3>1, UploadNumbers DEF RequestState
    <2>2. \A q \in DOMAIN request : request[q].chunk <= page.chunk
      BY <1>0 DEF RequestsFit, Fits
    <2>3. QED
      BY <1>2, <2>1, <2>2
  <1>5. ASSUME NEW q \in DOMAIN request, q # n PROVE Fits(q)'
    <2>1. /\ Fits(q) /\ request'[q] = request[q] /\ q # Len(request')
          /\ request[q].chunk # Last /\ request[q].pc # "answer"
      BY <1>0, <1>1, <1>5 DEF RequestsFit, Fits
    <2>2. QED
      BY <1>1, <1>4, <2>1 DEF Fits, Busy, Holds, Blocks, Last
  <1>6. Fits(n)'
    <2>1. CASE request'[n] = Upload!Over
      <3>1. request'[n].chunk = 0 /\ request'[n].pc = "over" /\ 0 # Chunks - 1
        BY <2>1, OverType, UploadNumbers
      <3>2. QED
        BY <1>2, <2>1, <3>1 DEF Fits, Busy, Holds, Blocks, Last
    <2>2. CASE request'[n] # Upload!Over
      <3>1. /\ request'[n] = request[n] /\ request[n].pc # "answer"
            /\ page'.chunk = page.chunk /\ Fits(n)
            /\ page.chunk = Last => page'.state = "unconfirmed"
        BY <1>0, <1>1, <2>2 DEF Hears, RequestsFit
      <3>2. Busy(n) /\ request[n].chunk = page.chunk
        BY <1>1, <2>2, <3>1 DEF Fits, Busy
      <3>3. QED
        BY <1>1, <1>4, <3>1, <3>2 DEF Fits, Busy, Holds, Blocks, Last
    <2>3. QED
      BY <2>1, <2>2
  <1>7. RequestsFit'
    BY <1>1, <1>5, <1>6 DEF RequestsFit
  <1>8. SavedOnce'
    <2>1. saved' = {} \/ \E f \in DOMAIN file' : saved' = {f}
      BY <1>0, <1>1 DEF SavedOnce
    <2>2. /\ page'.state = "ok" => saved' # {}
          /\ page'.state = "unconfirmed" => page'.chunk = Last
      BY <1>1 DEF Hears
    <2>3. ASSUME saved' # {}
          PROVE  /\ page'.chunk = Last
                 /\ page'.state \in {"waiting", "ok", "unconfirmed"}
                 /\ \A q \in DOMAIN request' :
                        request'[q].chunk = Last => request'[q].pc = "answer"
      <3>1. page'.chunk = Last /\ page'.state \in {"waiting", "ok", "unconfirmed"}
        BY <1>0, <1>1, <2>3 DEF Hears, SavedOnce
      <3>2. /\ \A q \in DOMAIN request :
                    request[q].chunk = Last => request[q].pc = "answer"
            /\ request[n].pc = "answer"
        BY <1>0, <1>1, <2>3 DEF SavedOnce
      <3>3. request'[n] = Upload!Over
        BY <1>1, <3>2 DEF Hears
      <3>4. request'[n].chunk # Last
        BY <3>3, OverType, UploadNumbers
      <3>5. QED
        BY <1>1, <3>1, <3>2, <3>4
    <2>4. QED
      BY <1>1, <2>1, <2>2, <2>3 DEF SavedOnce, Last
  <1>9. SweepMeetsOne'
    BY <1>0, <1>1 DEF SweepMeetsOne, Busy
  <1>10. \A q \in DOMAIN request : Alone(q) => Alone(q)'
    BY <1>1, OverType DEF Alone, Busy
  <1>11. ASSUME ~refused'
         PROVE  FilesAreWhole' /\ LatestHasTheName' /\ (Past \/ Cut \/ Intact)'
    <2>1. FilesAreWhole /\ LatestHasTheName /\ (Past \/ Cut \/ Intact)
      BY <1>1, <1>11 DEF UploadInv, WholeUnlessFull
    <2>2. FilesAreWhole'
      BY <1>1, <2>1, OverType DEF FilesAreWhole, Blocks
    <2>3. LatestHasTheName'
      <3> SUFFICES ASSUME NEW q \in DOMAIN request, q = n,
                          request'[q].pc \in {"write", "rest", "move"}
                   PROVE  staged = request'[q].file \/ (staged = 0 /\ Alone(q)')
        BY <1>1 DEF LatestHasTheName, Holds
      <3>1. request'[q] = request[q] /\ Holds(q)
        BY <1>1, OverType DEF Holds
      <3>2. QED
        BY <1>1, <1>10, <2>1, <3>1 DEF LatestHasTheName
    <2>4. ASSUME Past PROVE Past'
      <3>1. page.chunk = Last /\ page'.chunk = Last
        BY <1>1, <2>4 DEF Past, Hears
      <3>2. page'.state # "ready"
        <4>1. ASSUME page'.state = "ready" PROVE FALSE
          <5>1. request[n].pc = "sent"
            BY <1>n, <3>1, <4>1 DEF Hears
          <5>2. request[n].chunk = Last
            BY <1>0, <1>1, <3>1, <5>1 DEF RequestsFit, Fits, Busy
          <5>3. QED
            BY <1>1, <2>4, <5>1, <5>2 DEF Past
        <4>2. QED
          BY <4>1
      <3>3. QED
        BY <1>1, <2>4, <3>1, <3>2, OverType DEF Past, Last
    <2>5. ASSUME Cut PROVE Cut'
      <3>1. page'.chunk >= 1 /\ Held' = 0
        BY <1>1, <1>2, <2>5 DEF Cut, Held
      <3>2. \A q \in DOMAIN request' :
                /\ request'[q].pc # "over" => request'[q].chunk >= 1
                /\ request'[q].pc \in {"write", "rest", "move"}
                        => request'[q].file # staged'
        BY <1>1, <2>5, OverType DEF Cut, Busy, Holds
      <3>3. QED
        BY <3>1, <3>2 DEF Cut, Busy, Holds
    <2>6. ASSUME Intact PROVE Intact' \/ Cut'
      <3>1. /\ \A q \in DOMAIN request' : request'[q].pc # "drop"
            /\ request'[n].pc # "answer" /\ Held' = Held
        BY <1>1, <2>6, OverType DEF Intact, Hears, Held
      <3>2. ASSUME 2 * page'.chunk <= Held PROVE Intact'
        BY <1>1, <3>1, <3>2 DEF Intact
      <3>3. CASE page'.chunk = page.chunk
        BY <2>6, <3>2, <3>3 DEF Intact
      <3>4. CASE page'.chunk # page.chunk
        <4>1. /\ page.chunk # Last /\ page'.chunk = page.chunk + 1
              /\ request[n].pc = "answer" /\ request'[n] = Upload!Over
          BY <1>n, <3>4 DEF Hears
        <4>2. 2 * (page.chunk + 1) <= Held \/ (staged = 0 /\ Alone(n))
          BY <1>1, <2>6, <4>1 DEF Intact
        <4>3. ASSUME staged = 0, Alone(n) PROVE Cut'
          <5>1. \A q \in DOMAIN request' : request'[q].pc = "over"
            BY <1>1, <4>1, <4>3, OverType DEF Alone, Busy
          <5>2. page'.chunk >= 1 /\ Held' = 0
            BY <1>1, <1>2, <4>1, <4>3 DEF Held
          <5>3. QED
            BY <5>1, <5>2 DEF Cut, Busy, Holds
        <4>4. QED
          BY <3>2, <4>1, <4>2, <4>3
      <3>5. QED
        BY <3>3, <3>4
    <2>7. QED
      BY <2>1, <2>2, <2>3, <2>4, <2>5, <2>6
  <1>12. QED
    BY <1>3, <1>7, <1>8, <1>9, <1>11 DEF UploadInv, WholeUnlessFull

LEMMA AnswerLostType ==
  ASSUME UploadTypes, page.state = "waiting", NEW bodySent \in BOOLEAN,
         Upload!AnswerLost(bodySent)
  PROVE  /\ page' \in [chunk : 0..(Chunks - 1), attempt : 0..Retries,
                       state : {"ready", "waiting", "ok", "failed",
                                "conflict", "unconfirmed"}]
         /\ page'.chunk = page.chunk
         /\ \/ page'.state = "unconfirmed" /\ page.chunk = Last /\ bodySent
            \/ /\ page'.state \in {"ready", "failed"}
               /\ ~(page.chunk = Last /\ bodySent)
  <1>1. page.attempt \in Nat /\ page.attempt <= Retries /\ Retries \in Nat
    BY UploadNumbers DEF UploadTypes
  <1>2. CASE page.chunk = Last /\ bodySent
    <2>1. page' = [page EXCEPT !.state = "unconfirmed"]
      BY <1>2, FinalIsLast DEF Upload!AnswerLost, Upload!Report
    <2>2. QED
      BY <1>2, <2>1 DEF UploadTypes
  <1>3. CASE ~(page.chunk = Last /\ bodySent)
    <2>1. IF page.attempt < Retries
          THEN page' = [page EXCEPT !.attempt = page.attempt + 1,
                                    !.state = "ready"]
          ELSE page' = [page EXCEPT !.state = "failed"]
      BY <1>3, FinalIsLast
      DEF Upload!AnswerLost, Upload!RetryOr, Upload!Report
    <2>2. CASE page.attempt < Retries
      <3>1. page.attempt + 1 \in 0..Retries
        BY <1>1, <2>2
      <3>2. QED
        BY <1>3, <2>1, <2>2, <3>1 DEF UploadTypes
    <2>3. CASE ~(page.attempt < Retries)
      BY <1>3, <2>1, <2>3 DEF UploadTypes
    <2>4. QED
      BY <2>2, <2>3
  <1>4. QED
    BY <1>2, <1>3

LEMMA LostHears == ASSUME UploadInv, Upload!Lost PROVE Hears
  <1> DEFINE n == Len(request)
  <1>0. UploadTypes /\ SavedOnce /\ RequestsFit
    BY DEF UploadInv
  <1>1. /\ page.state = "waiting" /\ n \in DOMAIN request
        /\ UNCHANGED <<file, staged, saved, sweeping, refused>>
    BY <1>0 DEF Upload!Lost, SavedOnce, UploadTypes
  <1>2. ASSUME request' = request
        PROVE  Moves(n)
    BY <1>0, <1>2 DEF Moves, UploadTypes
  <1>3. ASSUME request' = [request EXCEPT ![n] = Upload!Over]
        PROVE  Moves(n) /\ request'[n] = Upload!Over
    BY <1>0, <1>1, <1>3, MovesTo, OverType
  <1>4. \/ /\ Upload!AnswerLost(TRUE)
           /\ \/ request[n].pc # "answer" /\ request' = request
              \/ request' = [request EXCEPT ![n] = Upload!Over]
        \/ /\ Upload!AnswerLost(FALSE) /\ request[n].pc = "sent"
           /\ request' = [request EXCEPT ![n] = Upload!Over]
    BY DEF Upload!Lost, Upload!Current
  <1>5. saved # {} => page.chunk = Last /\ request[n].pc = "answer"
    BY <1>0, <1>1 DEF SavedOnce
  <1>6. CASE Upload!AnswerLost(TRUE)
             /\ \/ request[n].pc # "answer" /\ request' = request
                \/ request' = [request EXCEPT ![n] = Upload!Over]
    BY <1>0, <1>1, <1>2, <1>3, <1>5, <1>6, AnswerLostType, OverType DEF Hears
  <1>7. CASE Upload!AnswerLost(FALSE) /\ request[n].pc = "sent"
             /\ request' = [request EXCEPT ![n] = Upload!Over]
    BY <1>0, <1>1, <1>3, <1>5, <1>7, AnswerLostType, OverType DEF Hears
  <1>8. QED
    BY <1>4, <1>6, <1>7

LEMMA AnsweredHears == ASSUME UploadInv, Upload!Answered PROVE Hears
  <1> DEFINE n == Len(request)
  <1>0. UploadTypes /\ SavedOnce /\ RequestsFit
    BY DEF UploadInv
  <1>1. /\ page.state = "waiting" /\ n \in DOMAIN request
        /\ request[n].pc = "answer"
        /\ request' = [request EXCEPT ![n] = Upload!Over]
        /\ UNCHANGED <<file, staged, saved, sweeping, refused>>
    BY <1>0 DEF Upload!Answered, Upload!Current, SavedOnce, UploadTypes
  <1>2. Moves(n) /\ request'[n] = Upload!Over
    BY <1>0, <1>1, MovesTo, OverType
  <1>3. /\ request[n].answer \in {"ok", "conflict", "full", "error"}
        /\ request[n].chunk = page.chunk
        /\ request[n].answer = "ok" /\ page.chunk = Last => saved # {}
    BY <1>0, <1>1 DEF RequestsFit, Fits, Busy
  <1>4. saved # {} => page.chunk = Last /\ request[n].answer = "ok"
    BY <1>0, <1>1 DEF SavedOnce
  <1>5. page.chunk \in 0..(Chunks - 1) /\ page.attempt \in 0..Retries
    BY <1>0 DEF UploadTypes
  <1>6. CASE request[n].answer = "ok" /\ page.chunk # Last
    <2>1. page' = [chunk |-> page.chunk + 1, attempt |-> 0, state |-> "ready"]
      BY <1>6, FinalIsLast DEF Upload!Answered, Upload!Current
    <2>2. page.chunk + 1 \in 0..(Chunks - 1) /\ 0 \in 0..Retries
      BY <1>5, <1>6, UploadNumbers DEF Last
    <2>3. QED
      BY <1>1, <1>2, <1>4, <1>6, <2>1, <2>2, OverType DEF Hears
  <1>7. CASE request[n].answer = "ok" /\ page.chunk = Last
    <2>1. page' = [page EXCEPT !.state = "ok"]
      BY <1>7, FinalIsLast DEF Upload!Answered, Upload!Current, Upload!Report
    <2>2. page'.chunk = page.chunk /\ page'.state = "ok"
          /\ page' \in [chunk : 0..(Chunks - 1), attempt : 0..Retries,
                        state : {"ready", "waiting", "ok", "failed",
                                 "conflict", "unconfirmed"}]
      BY <1>0, <2>1 DEF UploadTypes
    <2>3. QED
      BY <1>1, <1>2, <1>3, <1>7, <2>2, OverType DEF Hears
  <1>8. CASE request[n].answer \in {"conflict", "full"}
    <2>1. \E state \in {"conflict", "failed"} :
                page' = [page EXCEPT !.state = state]
      BY <1>8 DEF Upload!Answered, Upload!Current, Upload!Report
    <2>2. page'.chunk = page.chunk /\ page'.state \in {"conflict", "failed"}
          /\ page' \in [chunk : 0..(Chunks - 1), attempt : 0..Retries,
                        state : {"ready", "waiting", "ok", "failed",
                                 "conflict", "unconfirmed"}]
      BY <1>0, <2>1 DEF UploadTypes
    <2>3. QED
      BY <1>1, <1>2, <1>4, <1>8, <2>2, OverType DEF Hears
  <1>9. CASE request[n].answer = "error"
    <2>1. Upload!AnswerLost(TRUE)
      BY <1>9 DEF Upload!Answered, Upload!Current
    <2>2. QED
      BY <1>0, <1>1, <1>2, <1>4, <1>9, <2>1, AnswerLostType, OverType DEF Hears
  <1>10. QED
    BY <1>3, <1>6, <1>7, <1>8, <1>9

\* Threads are cut off; what was heard or not sent stays.
LEMMA RestartKeeps ==
  ASSUME UploadInv, Upload!Restart
  PROVE  UploadInv'
  <1>0. UploadTypes /\ RequestsFit /\ SavedOnce /\ SweepMeetsOne
    BY DEF UploadInv
  <1>1. UNCHANGED <<page, file, staged, saved, sweeping, refused>>
    BY DEF Upload!Restart
  <1>2. request' = [r \in DOMAIN request |->
                        IF request[r].pc \notin {"sent", "answer", "over"}
                        THEN Upload!Over ELSE request[r]]
    BY DEF Upload!Restart, Upload!Running
  <1>3. /\ request' \in Seq(RequestState) /\ Len(request') = Len(request)
        /\ DOMAIN request' = DOMAIN request
    <2>1. DOMAIN request = 1..Len(request) /\ Len(request) \in Nat
      BY <1>0 DEF UploadTypes
    <2>2. request' \in [1..Len(request) -> RequestState]
      BY <1>0, <1>2, <2>1, OverType DEF UploadTypes
    <2>3. QED
      BY <2>1, <2>2
  <1>4. \A q \in DOMAIN request :
            /\ request'[q] = request[q] \/ request'[q] = Upload!Over
            /\ request[q].pc = "answer" => request'[q] = request[q]
    BY <1>2
  <1>5. ASSUME NEW q \in DOMAIN request PROVE Fits(q)'
    <2>1. CASE request'[q] = Upload!Over
      <3>1. request'[q].chunk = 0 /\ request'[q].pc = "over" /\ 0 # Chunks - 1
        BY <2>1, OverType, UploadNumbers
      <3>2. page'.chunk \in Nat
        BY <1>0, <1>1 DEF UploadTypes
      <3>3. QED
        BY <2>1, <3>1, <3>2 DEF Fits, Busy, Holds, Blocks, Last
    <2>2. CASE request'[q] = request[q]
      BY <1>0, <1>1, <1>3, <2>2 DEF RequestsFit, Fits, Busy, Holds, Blocks, Last
    <2>3. QED
      BY <1>4, <2>1, <2>2
  <1>6. SavedOnce'
    <2>1. page.state = "waiting" => Len(request) \in DOMAIN request
      BY <1>0 DEF SavedOnce, UploadTypes
    <2>2. Upload!Over.chunk # Last
      BY OverType, UploadNumbers
    <2>3. saved # {} => \A q \in DOMAIN request' :
                request'[q].chunk = Last => request'[q].pc = "answer"
      BY <1>0, <1>3, <1>4, <2>2 DEF SavedOnce
    <2>4. saved # {} /\ page.state = "waiting"
            => /\ request'[Len(request')].pc = "answer"
               /\ request'[Len(request')].answer = "ok"
      BY <1>0, <1>3, <1>4, <2>1 DEF SavedOnce
    <2>5. QED
      BY <1>0, <1>1, <1>3, <2>3, <2>4 DEF SavedOnce, Last
  <1>7. SweepMeetsOne'
    BY <1>0, <1>1, <1>3, <1>4, OverType DEF SweepMeetsOne, Busy
  <1>8. \A q \in DOMAIN request : Alone(q) => Alone(q)'
    BY <1>3, <1>4, OverType DEF Alone, Busy
  <1>9. ASSUME ~refused'
        PROVE  FilesAreWhole' /\ LatestHasTheName' /\ (Past \/ Cut \/ Intact)'
    <2>1. FilesAreWhole /\ LatestHasTheName /\ (Past \/ Cut \/ Intact)
      BY <1>1, <1>9 DEF UploadInv, WholeUnlessFull
    <2>2. FilesAreWhole'
      BY <1>1, <1>3, <1>4, <2>1, OverType DEF FilesAreWhole, Blocks
    <2>3. LatestHasTheName'
      BY <1>1, <1>3, <1>4, <1>8, <2>1, OverType DEF LatestHasTheName, Holds
    <2>4. ASSUME Past PROVE Past'
      BY <1>1, <1>3, <1>4, <2>4, OverType DEF Past, Last
    <2>5. ASSUME Cut PROVE Cut'
      BY <1>1, <1>3, <1>4, <2>5, OverType DEF Cut, Held, Busy, Holds
    <2>6. ASSUME Intact PROVE Intact'
      BY <1>1, <1>3, <1>4, <1>8, <2>6, OverType DEF Intact, Held, Last
    <2>7. QED
      BY <2>1, <2>2, <2>3, <2>4, <2>5, <2>6
  <1>10. QED
    BY <1>0, <1>1, <1>3, <1>5, <1>6, <1>7, <1>9
    DEF UploadInv, UploadTypes, RequestsFit, WholeUnlessFull

\* The sweep finds an old partial, and takes its name away.
LEMMA SweepKeeps ==
  ASSUME UploadInv, Upload!FindOld \/ Upload!DeleteOld
  PROVE  UploadInv'
  <1>0. UploadTypes /\ RequestsFit /\ SavedOnce /\ SweepMeetsOne
    BY DEF UploadInv
  <1>1. UNCHANGED <<page, request, file, saved, refused>>
    BY DEF Upload!FindOld, Upload!DeleteOld
  <1>2. RequestsFit' /\ SavedOnce'
    BY <1>0, <1>1 DEF RequestsFit, Fits, Busy, Holds, Blocks, Last, SavedOnce
  <1>3. CASE Upload!FindOld
    <2>1. staged' = staged /\ sweeping' \in BOOLEAN
      BY <1>3 DEF Upload!FindOld
    <2>2. SweepMeetsOne'
      BY <1>1, <1>3, OverType
      DEF Upload!FindOld, Upload!Current, SweepMeetsOne, Busy
    <2>3. WholeUnlessFull'
      BY <1>1, <2>1
      DEF UploadInv, WholeUnlessFull, FilesAreWhole, LatestHasTheName, Past, Cut,
          Intact, Alone, Busy, Holds, Held, Blocks, Last
    <2>4. QED
      BY <1>0, <1>1, <1>2, <2>1, <2>2, <2>3 DEF UploadInv, UploadTypes
  <1>4. CASE Upload!DeleteOld
    <2>1. sweeping /\ sweeping' = FALSE /\ staged' = 0
      BY <1>4 DEF Upload!DeleteOld
    <2>2. \A q \in DOMAIN request : q # Len(request) => ~Busy(q)
      BY <1>0, <2>1 DEF SweepMeetsOne
    <2>3. \A q \in DOMAIN request : q = Len(request) => Alone(q)
      BY <2>2 DEF Alone
    <2>4. \A q \in DOMAIN request : Holds(q) => request[q].file # 0
      BY <1>0 DEF RequestsFit, Fits, UploadTypes
    <2>5. Held' = 0
      BY <2>1 DEF Held
    <2>6. ASSUME ~refused'
          PROVE  FilesAreWhole' /\ LatestHasTheName' /\ (Past \/ Cut \/ Intact)'
      <3>1. FilesAreWhole /\ (Past \/ Cut \/ Intact)
        BY <1>1, <2>6 DEF UploadInv, WholeUnlessFull
      <3>2. FilesAreWhole'
        BY <1>1, <3>1 DEF FilesAreWhole, Blocks
      <3>3. LatestHasTheName'
        BY <1>1, <2>1, <2>3 DEF LatestHasTheName, Holds, Alone, Busy
      <3>4. ASSUME Past PROVE Past'
        BY <1>1, <3>4 DEF Past, Last
      <3>5. ASSUME Cut PROVE Cut'
        BY <1>1, <2>1, <2>4, <2>5, <3>5 DEF Cut, Busy, Holds
      <3>6. ASSUME Intact, page.chunk = 0 PROVE Intact'
        BY <1>1, <2>1, <2>3, <2>5, <3>6 DEF Intact, Alone, Busy, Last
      <3>7. ASSUME page.chunk # 0 PROVE Cut'
        <4>1. page.chunk >= 1
          BY <1>0, <3>7 DEF UploadTypes
        <4>2. \A q \in DOMAIN request : Busy(q) => request[q].chunk = page.chunk
          BY <1>0, <2>2 DEF RequestsFit, Fits
        <4>3. QED
          BY <1>1, <2>1, <2>4, <2>5, <4>1, <4>2 DEF Cut, Busy, Holds
      <3>8. QED
        BY <3>1, <3>2, <3>3, <3>4, <3>5, <3>6, <3>7
    <2>7. QED
      BY <1>0, <1>1, <1>2, <2>1, <2>6
      DEF UploadInv, UploadTypes, SweepMeetsOne, WholeUnlessFull
  <1>5. QED
    BY <1>3, <1>4

LEMMA UploadInit == Upload!Init => UploadInv
  <1> SUFFICES ASSUME Upload!Init PROVE UploadInv
    OBVIOUS
  <1>1. UploadTypes
    <2>1. /\ 0 \in 0..(Chunks - 1) /\ 0 \in 0..Retries
          /\ page = [chunk |-> 0, attempt |-> 0, state |-> "ready"]
      BY UploadNumbers DEF Upload!Init
    <2>2. /\ request = <<>> /\ file = <<>> /\ staged = 0 /\ saved = {}
          /\ sweeping = FALSE /\ refused = FALSE
      BY DEF Upload!Init
    <2>3. /\ request \in Seq(RequestState) /\ file \in Seq(Seq({"data"}))
          /\ DOMAIN file = {}
      BY <2>2
    <2>4. QED
      BY <2>1, <2>2, <2>3 DEF UploadTypes
  <1>2. RequestsFit /\ SweepMeetsOne
    BY DEF Upload!Init, RequestsFit, SweepMeetsOne
  <1>3. SavedOnce
    BY DEF Upload!Init, SavedOnce
  <1>4. FilesAreWhole /\ LatestHasTheName
    BY DEF Upload!Init, FilesAreWhole, LatestHasTheName
  <1>5. Intact
    BY DEF Upload!Init, Intact, Held
  <1>6. QED
    BY <1>1, <1>2, <1>3, <1>4, <1>5 DEF UploadInv, WholeUnlessFull

LEMMA UploadStep == UploadInv /\ [Upload!Next]_uploadVars => UploadInv'
  <1> SUFFICES ASSUME UploadInv, [Upload!Next]_uploadVars PROVE UploadInv'
    OBVIOUS
  <1>1. CASE UNCHANGED uploadVars
    <2>1. UploadTypes' /\ RequestsFit'
      BY <1>1 DEF uploadVars, UploadInv, UploadTypes, RequestsFit, Fits, Busy,
                  Holds, Blocks, Last
    <2>2. SavedOnce' /\ SweepMeetsOne'
      BY <1>1 DEF uploadVars, UploadInv, SavedOnce, SweepMeetsOne, Busy, Last
    <2>3. WholeUnlessFull'
      BY <1>1
      DEF uploadVars, UploadInv, WholeUnlessFull, FilesAreWhole, LatestHasTheName,
          Past, Cut, Intact, Alone, Busy, Holds, Held, Blocks, Last
    <2>4. QED
      BY <2>1, <2>2, <2>3 DEF UploadInv
  <1>2. CASE Upload!Next
    BY <1>2, SendKeeps, LostHears, AnsweredHears, HearsKeeps, HandleKeeps,
       RestartKeeps, SweepKeeps DEF Upload!Next
  <1>3. QED
    BY <1>1, <1>2

LEMMA UploadInvariant == MCSpec => []UploadInv
  <1>1. MCInit => UploadInv
    BY UploadInit DEF MCInit
  <1>2. [MCNext]_<<part, vars, uploadVars, spawnVars, cecVars>>
          => [Upload!Next]_uploadVars
    BY DEF MCNext
  <1>3. QED
    BY <1>1, <1>2, UploadStep, PTL DEF MCSpec

\* What the page says of an upload is true, for any number of chunks and of
\* retries, whatever is lost, repeated, swept or cut short: "ok" means that the
\* asset is there, once; a failure that it is not; and as long as no disk is
\* full, its file is what the operator chose.
THEOREM UploadReportsAreTrue == MCSpec => []ReportIsTrue
  <1>1. ASSUME UploadInv PROVE ReportIsTrue
    <2>0. UploadTypes /\ SavedOnce
      BY <1>1 DEF UploadInv
    <2>1. \A f, g \in saved : f = g
      BY <2>0 DEF SavedOnce
    <2>2. /\ page.state = "ok" => saved # {}
          /\ page.state = "failed" => saved = {}
      BY <2>0 DEF SavedOnce
    <2>3. ASSUME ~refused, NEW f \in saved PROVE file[f] = Upload!Whole
      <3>1. file[f] \in Seq({"data"}) /\ Len(file[f]) = 2 * Chunks
        BY <1>1, <2>0, <2>3
        DEF UploadInv, WholeUnlessFull, FilesAreWhole, UploadTypes
      <3>2. file[f] = [b \in 1..(2 * Chunks) |-> file[f][b]]
        BY <3>1
      <3>3. \A b \in 1..(2 * Chunks) : file[f][b] = "data"
        BY <3>1
      <3>4. QED
        BY <3>2, <3>3 DEF Upload!Whole
    <2>4. ~refused => Upload!AssetIsWhole
      BY <2>3 DEF Upload!AssetIsWhole
    <2>5. QED
      BY <2>1, <2>2, <2>4 DEF ReportIsTrue, Upload!ReportIsTrue
  <1>2. UploadInv => ReportIsTrue
    BY <1>1
  <1>3. QED
    BY <1>2, UploadInvariant, PTL

-----------------------------------------------------------------------------
(* The displays. *)

Told == {"on", "standby", "transitioning", "unknown"}

Stages == {"open", "configure", "poll", "transmit", "release", "done"}
Orders == {"query", "on", "off"}
Outcomes == Told \cup {"none", "error", "no-peer", "ack", "nack"}

ThreadState ==
    [adapter : Adapter, command : Orders, at : Stages, outcome : Outcomes,
     wedged : BOOLEAN]

CecTypes ==
    /\ link \in [Adapter -> BOOLEAN]
    /\ peer \in [Adapter -> Cec!Peer]
    /\ addr \in [Adapter -> {"none", "claiming", "claimed"}]
    /\ command \in Orders \cup {"none"}
    /\ todo \in SUBSET Adapter
    /\ DOMAIN results \in SUBSET Adapter
    /\ \A a \in DOMAIN results : results[a] \in Outcomes
    /\ worker \in ThreadState \cup {Cec!NoThread}
    /\ straggler \in ThreadState \cup {Cec!NoThread}
    /\ spoke \in SUBSET (Adapter \X Told)
    /\ hurt \in BOOLEAN

Works == Cec!Running(worker)

\* An adapter is asked once: it is to come, or asked now, or has answered.
AskedOnce ==
    /\ \A a \in todo : a \notin DOMAIN results
    /\ Works => /\ command # "none" /\ worker.command = command
                /\ worker.adapter \notin todo
                /\ worker.adapter \notin DOMAIN results
    /\ command = "none" => todo = {}

\* What a result tells of a display, the display said to this command.
ToldWasHeard ==
    /\ \A a \in DOMAIN results :
          results[a] \in Told => <<a, results[a]>> \in spoke
    /\ Works /\ worker.outcome \in Told
          => <<worker.adapter, worker.outcome>> \in spoke

\* What a display said is the result, or will be.
HeardIsTold ==
    \A s \in spoke :
        \/ s[1] \in DOMAIN results /\ results[s[1]] = s[2]
        \/ /\ Works /\ worker.at \in {"release", "done"}
           /\ s[1] = worker.adapter /\ s[2] = worker.outcome

\* The outcome of the operation that runs is open until it has transmitted.
OutcomeOpen ==
    Works /\ worker.at \notin {"release", "done"} => worker.outcome = "none"

\* Undisturbed, an operation has the address to itself.
OwnsAddress ==
    command # "none" /\ ~hurt =>
        /\ ~Cec!Running(straggler)
        /\ \A a \in todo : link[a]
        /\ Works =>
              /\ ~worker.wedged /\ link[worker.adapter]
              /\ worker.at = "configure" => addr[worker.adapter] = "none"
              /\ worker.at = "poll"
                    => addr[worker.adapter] \in {"claiming", "claimed"}
              /\ worker.at = "transmit" => addr[worker.adapter] = "claimed"

\* Undisturbed, no operation fails.
NoneFails ==
    ~hurt => /\ \A a \in DOMAIN results : results[a] # "error"
             /\ Works => worker.outcome # "error"

CecInv ==
    /\ CecTypes /\ AskedOnce /\ ToldWasHeard /\ HeardIsTold /\ OutcomeOpen
    /\ OwnsAddress /\ NoneFails
    /\ command = "none" => ~Works

LEMMA CecReceiveKeeps ==
    ASSUME CecInv, NEW order \in {"query", "on", "off"}, NEW broken \in SUBSET Adapter,
           Cec!Receive(order, broken)
    PROVE  CecInv'
  <1> USE DEF Works, Cec!Running, Cec!world, Cec!threads,
              Cec!Receive, Cec!Live
  <1>1. CecTypes'
    BY DEF CecInv, CecTypes, Orders
  <1>2. AskedOnce' /\ (command = "none" => ~Works)'
    BY DEF CecInv, CecTypes, AskedOnce
  <1>3. ToldWasHeard' /\ HeardIsTold'
    BY DEF CecInv, CecTypes, ToldWasHeard, HeardIsTold
  <1>4. OutcomeOpen'
    BY DEF CecInv, CecTypes, OutcomeOpen
  <1>5. OwnsAddress'
    BY DEF CecInv, CecTypes, AskedOnce, OwnsAddress
  <1>6. NoneFails'
    BY DEF CecInv, CecTypes, AskedOnce, OwnsAddress, NoneFails
  <1>7. QED
    BY <1>1, <1>2, <1>3, <1>4, <1>5, <1>6 DEF CecInv

LEMMA CecStartsKeeps ==
    ASSUME CecInv, NEW a \in Adapter, Cec!StartsOperation(a)
    PROVE  CecInv'
  <1> USE DEF Works, Cec!Running, Cec!world, Cec!threads,
              Cec!StartsOperation
  <1>1. CecTypes'
    BY DEF CecInv, CecTypes, ThreadState, Orders, Stages, Outcomes
  <1>2. AskedOnce' /\ (command = "none" => ~Works)'
    BY DEF CecInv, CecTypes, AskedOnce, ThreadState, Cec!NoThread
  <1>3. ToldWasHeard' /\ HeardIsTold'
    BY DEF CecInv, CecTypes, ToldWasHeard, HeardIsTold, Told, ThreadState,
           Cec!NoThread
  <1>4. OutcomeOpen'
    BY DEF CecInv, CecTypes, OutcomeOpen, ThreadState
  <1>5. OwnsAddress'
    BY DEF CecInv, CecTypes, AskedOnce, OwnsAddress, ThreadState
  <1>6. NoneFails'
    BY DEF CecInv, CecTypes, AskedOnce, OwnsAddress, NoneFails, ThreadState
  <1>7. QED
    BY <1>1, <1>2, <1>3, <1>4, <1>5, <1>6 DEF CecInv

LEMMA CecCollectKeeps ==
    ASSUME CecInv, Cec!Collect
    PROVE  CecInv'
  <1> USE DEF Works, Cec!Running, Cec!world, Cec!threads,
              Cec!Collect, Cec!ResultIs
  <1>1. CecTypes'
    BY DEF CecInv, CecTypes, ThreadState
  <1>2. AskedOnce' /\ (command = "none" => ~Works)'
    BY DEF CecInv, CecTypes, AskedOnce
  <1>3. ToldWasHeard' /\ HeardIsTold'
    BY DEF CecInv, CecTypes, ToldWasHeard, HeardIsTold, AskedOnce, Told
  <1>4. OutcomeOpen'
    BY DEF CecInv, CecTypes, OutcomeOpen
  <1>5. OwnsAddress'
    BY DEF CecInv, CecTypes, AskedOnce, OwnsAddress
  <1>6. NoneFails'
    BY DEF CecInv, CecTypes, AskedOnce, OwnsAddress, NoneFails
  <1>7. QED
    BY <1>1, <1>2, <1>3, <1>4, <1>5, <1>6 DEF CecInv

LEMMA CecGiveUpKeeps ==
    ASSUME CecInv, Cec!GiveUp
    PROVE  CecInv'
  <1> USE DEF Works, Cec!Running, Cec!world, Cec!threads,
              Cec!GiveUp, Cec!ResultIs
  <1>1. CecTypes'
    BY DEF CecInv, CecTypes, ThreadState, Outcomes
  <1>2. AskedOnce' /\ (command = "none" => ~Works)'
    BY DEF CecInv, CecTypes, AskedOnce
  <1>3. ToldWasHeard' /\ HeardIsTold'
    BY DEF CecInv, CecTypes, ToldWasHeard, HeardIsTold, AskedOnce, Told
  <1>4. OutcomeOpen'
    BY DEF CecInv, CecTypes, OutcomeOpen
  <1>5. OwnsAddress'
    BY DEF CecInv, CecTypes, AskedOnce, OwnsAddress
  <1>6. NoneFails'
    BY DEF CecInv, CecTypes, AskedOnce, OwnsAddress, NoneFails
  <1>7. QED
    BY <1>1, <1>2, <1>3, <1>4, <1>5, <1>6 DEF CecInv

LEMMA CecAnswersKeeps ==
    ASSUME CecInv, Cec!Answers
    PROVE  CecInv'
  <1> USE DEF Works, Cec!Running, Cec!world, Cec!threads,
              Cec!Answers
  <1>1. CecTypes'
    BY DEF CecInv, CecTypes
  <1>2. AskedOnce' /\ (command = "none" => ~Works)'
    BY DEF CecInv, CecTypes, AskedOnce
  <1>3. ToldWasHeard' /\ HeardIsTold'
    BY DEF CecInv, CecTypes, ToldWasHeard, HeardIsTold
  <1>4. OutcomeOpen'
    BY DEF CecInv, CecTypes, OutcomeOpen
  <1>5. OwnsAddress'
    BY DEF CecInv, CecTypes, AskedOnce, OwnsAddress
  <1>6. NoneFails'
    BY DEF CecInv, CecTypes, AskedOnce, OwnsAddress, NoneFails
  <1>7. QED
    BY <1>1, <1>2, <1>3, <1>4, <1>5, <1>6 DEF CecInv

LEMMA CecStragglerEndsKeeps ==
    ASSUME CecInv, Cec!StragglerEnds
    PROVE  CecInv'
  <1> USE DEF Works, Cec!Running, Cec!world, Cec!threads,
              Cec!StragglerEnds
  <1>1. CecTypes'
    BY DEF CecInv, CecTypes
  <1>2. AskedOnce' /\ (command = "none" => ~Works)'
    BY DEF CecInv, CecTypes, AskedOnce
  <1>3. ToldWasHeard' /\ HeardIsTold'
    BY DEF CecInv, CecTypes, ToldWasHeard, HeardIsTold
  <1>4. OutcomeOpen'
    BY DEF CecInv, CecTypes, OutcomeOpen
  <1>5. OwnsAddress'
    BY DEF CecInv, CecTypes, AskedOnce, OwnsAddress
  <1>6. NoneFails'
    BY DEF CecInv, CecTypes, AskedOnce, OwnsAddress, NoneFails
  <1>7. QED
    BY <1>1, <1>2, <1>3, <1>4, <1>5, <1>6 DEF CecInv

LEMMA CecUnwedgesKeeps ==
    ASSUME CecInv, Cec!Unwedges
    PROVE  CecInv'
  <1> USE DEF Works, Cec!Running, Cec!world, Cec!threads,
              Cec!Unwedges
  <1>1. CecTypes'
    BY DEF CecInv, CecTypes, ThreadState
  <1>2. AskedOnce' /\ (command = "none" => ~Works)'
    BY DEF CecInv, CecTypes, AskedOnce
  <1>3. ToldWasHeard' /\ HeardIsTold'
    BY DEF CecInv, CecTypes, ToldWasHeard, HeardIsTold
  <1>4. OutcomeOpen'
    BY DEF CecInv, CecTypes, OutcomeOpen
  <1>5. OwnsAddress'
    BY DEF CecInv, CecTypes, AskedOnce, OwnsAddress
  <1>6. NoneFails'
    BY DEF CecInv, CecTypes, AskedOnce, OwnsAddress, NoneFails
  <1>7. QED
    BY <1>1, <1>2, <1>3, <1>4, <1>5, <1>6 DEF CecInv

LEMMA CecKernelClaimsKeeps ==
    ASSUME CecInv, NEW a \in Adapter, Cec!KernelClaims(a)
    PROVE  CecInv'
  <1> USE DEF Works, Cec!Running, Cec!world, Cec!threads,
              Cec!KernelClaims, Cec!SetAddr
  <1>1. CecTypes'
    BY DEF CecInv, CecTypes
  <1>2. AskedOnce' /\ (command = "none" => ~Works)'
    BY DEF CecInv, CecTypes, AskedOnce
  <1>3. ToldWasHeard' /\ HeardIsTold'
    BY DEF CecInv, CecTypes, ToldWasHeard, HeardIsTold
  <1>4. OutcomeOpen'
    BY DEF CecInv, CecTypes, OutcomeOpen
  <1>5. OwnsAddress'
    BY DEF CecInv, CecTypes, AskedOnce, OwnsAddress
  <1>6. NoneFails'
    BY DEF CecInv, CecTypes, AskedOnce, OwnsAddress, NoneFails
  <1>7. QED
    BY <1>1, <1>2, <1>3, <1>4, <1>5, <1>6 DEF CecInv

LEMMA CecReplugKeeps ==
    ASSUME CecInv, NEW a \in Adapter, NEW to \in {"on", "deaf", "nothing"},
           Cec!Replug(a, to)
    PROVE  CecInv'
  <1> USE DEF Works, Cec!Running, Cec!world, Cec!threads,
              Cec!Replug, Cec!SetAddr
  <1>1. CecTypes'
    BY DEF CecInv, CecTypes, Cec!Peer
  <1>2. AskedOnce' /\ (command = "none" => ~Works)'
    BY DEF CecInv, CecTypes, AskedOnce
  <1>3. ToldWasHeard' /\ HeardIsTold'
    BY DEF CecInv, CecTypes, ToldWasHeard, HeardIsTold
  <1>4. OutcomeOpen'
    BY DEF CecInv, CecTypes, OutcomeOpen
  <1>5. OwnsAddress'
    BY DEF CecInv, CecTypes, AskedOnce, OwnsAddress
  <1>6. NoneFails'
    BY DEF CecInv, CecTypes, AskedOnce, OwnsAddress, NoneFails
  <1>7. QED
    BY <1>1, <1>2, <1>3, <1>4, <1>5, <1>6 DEF CecInv

LEMMA CecRefusesKeeps ==
    ASSUME CecInv, Cec!Refuses
    PROVE  CecInv'
  <1> USE DEF Works, Cec!Running, Cec!world, Cec!threads,
              Cec!Refuses, Cec!Ends
  <1>1. CecTypes'
    <2>1. ASSUME NEW t \in ThreadState PROVE Cec!Ends(t, "error") \in ThreadState
      BY DEF ThreadState, Stages, Outcomes, Cec!Ends
    <2>2. QED
      BY <2>1 DEF CecInv, CecTypes
  <1>2. AskedOnce' /\ (command = "none" => ~Works)'
    BY DEF CecInv, CecTypes, AskedOnce, ThreadState, Cec!NoThread
  <1>3. ToldWasHeard' /\ HeardIsTold'
    BY DEF CecInv, CecTypes, ToldWasHeard, HeardIsTold, Told, ThreadState,
           Cec!NoThread
  <1>4. OutcomeOpen'
    BY DEF CecInv, CecTypes, OutcomeOpen, ThreadState
  <1>5. OwnsAddress'
    BY DEF CecInv, CecTypes, AskedOnce, OwnsAddress, ThreadState
  <1>6. NoneFails'
    BY DEF CecInv, CecTypes, AskedOnce, OwnsAddress, NoneFails, ThreadState
  <1>7. QED
    BY <1>1, <1>2, <1>3, <1>4, <1>5, <1>6 DEF CecInv

LEMMA CecWedgesKeeps ==
    ASSUME CecInv, Cec!Wedges
    PROVE  CecInv'
  <1> USE DEF Works, Cec!Running, Cec!world, Cec!threads,
              Cec!Wedges
  <1>1. CecTypes'
    BY DEF CecInv, CecTypes, ThreadState
  <1>2. AskedOnce' /\ (command = "none" => ~Works)'
    BY DEF CecInv, CecTypes, AskedOnce, ThreadState, Cec!NoThread
  <1>3. ToldWasHeard' /\ HeardIsTold'
    BY DEF CecInv, CecTypes, ToldWasHeard, HeardIsTold, ThreadState,
           Cec!NoThread
  <1>4. OutcomeOpen'
    BY DEF CecInv, CecTypes, OutcomeOpen, ThreadState
  <1>5. OwnsAddress'
    BY DEF CecInv, CecTypes, AskedOnce, OwnsAddress, ThreadState
  <1>6. NoneFails'
    BY DEF CecInv, CecTypes, AskedOnce, OwnsAddress, NoneFails, ThreadState
  <1>7. QED
    BY <1>1, <1>2, <1>3, <1>4, <1>5, <1>6 DEF CecInv

LEMMA CecClaimFailsKeeps ==
    ASSUME CecInv, Cec!ClaimFails
    PROVE  CecInv'
  <1> USE DEF Works, Cec!Running, Cec!world, Cec!threads,
              Cec!ClaimFails, Cec!ClaimTimesOut, Cec!Ends, Cec!Fault
  <1>1. CecTypes'
    <2>1. ASSUME NEW t \in ThreadState PROVE Cec!Ends(t, "error") \in ThreadState
      BY DEF ThreadState, Stages, Outcomes, Cec!Ends
    <2>2. QED
      BY <2>1 DEF CecInv, CecTypes
  <1>2. AskedOnce' /\ (command = "none" => ~Works)'
    BY DEF CecInv, CecTypes, AskedOnce, ThreadState, Cec!NoThread
  <1>3. ToldWasHeard' /\ HeardIsTold'
    BY DEF CecInv, CecTypes, ToldWasHeard, HeardIsTold, Told, ThreadState,
           Cec!NoThread
  <1>4. OutcomeOpen'
    BY DEF CecInv, CecTypes, OutcomeOpen, ThreadState
  <1>5. OwnsAddress'
    BY DEF CecInv, CecTypes, AskedOnce, OwnsAddress, ThreadState
  <1>6. NoneFails'
    BY DEF CecInv, CecTypes, AskedOnce, OwnsAddress, NoneFails, ThreadState
  <1>7. QED
    BY <1>1, <1>2, <1>3, <1>4, <1>5, <1>6 DEF CecInv

LEMMA CecCrashKeeps ==
    ASSUME CecInv, Cec!Crash
    PROVE  CecInv'
  <1> USE DEF Works, Cec!Running, Cec!world, Cec!threads,
              Cec!Crash
  <1>1. CecTypes'
    <2>1. DOMAIN results' = {}
      OBVIOUS
    <2>2. QED
      BY <2>1 DEF CecInv, CecTypes
  <1>2. AskedOnce' /\ (command = "none" => ~Works)'
    BY DEF CecInv, CecTypes, AskedOnce
  <1>3. ToldWasHeard' /\ HeardIsTold'
    BY DEF CecInv, CecTypes, ToldWasHeard, HeardIsTold
  <1>4. OutcomeOpen'
    BY DEF CecInv, CecTypes, OutcomeOpen
  <1>5. OwnsAddress'
    BY DEF CecInv, CecTypes, AskedOnce, OwnsAddress
  <1>6. NoneFails'
    BY DEF CecInv, CecTypes, AskedOnce, OwnsAddress, NoneFails
  <1>7. QED
    BY <1>1, <1>2, <1>3, <1>4, <1>5, <1>6 DEF CecInv

LEMMA CecRestartKeeps ==
    ASSUME CecInv, Cec!Restart
    PROVE  CecInv'
  <1> USE DEF Works, Cec!Running, Cec!world, Cec!threads,
              Cec!Restart
  <1>1. CecTypes'
    BY DEF CecInv, CecTypes
  <1>2. AskedOnce' /\ (command = "none" => ~Works)'
    BY DEF CecInv, CecTypes, AskedOnce
  <1>3. ToldWasHeard' /\ HeardIsTold'
    BY DEF CecInv, CecTypes, ToldWasHeard, HeardIsTold
  <1>4. OutcomeOpen'
    BY DEF CecInv, CecTypes, OutcomeOpen
  <1>5. OwnsAddress'
    BY DEF CecInv, CecTypes, AskedOnce, OwnsAddress
  <1>6. NoneFails'
    BY DEF CecInv, CecTypes, AskedOnce, OwnsAddress, NoneFails
  <1>7. QED
    BY <1>1, <1>2, <1>3, <1>4, <1>5, <1>6 DEF CecInv

LEMMA WorkerStepsKeep ==
    ASSUME CecInv, Cec!WorkerSteps
    PROVE  CecInv'
  <1> USE DEF Works, Cec!Running
  <1>1. /\ Works /\ ~worker.wedged /\ worker \in ThreadState
        /\ command # "none" /\ worker.command = command
        /\ UNCHANGED <<link, up, command, todo, results, straggler, answer,
                       hurt, left, mishaps>>
        /\ spoke' = Cec!Heard
    BY DEF Cec!WorkerSteps, Cec!Step, CecInv, CecTypes, AskedOnce
  <1> DEFINE a == worker.adapter
  <1>2. CASE Cec!Clear(worker, worker') \/ Cec!Configure(worker, worker')
               \/ Cec!Claimed(worker, worker') \/ Cec!Release(worker, worker')
    <2>1. UNCHANGED peer /\ spoke' = spoke
      BY <1>1, <1>2 DEF Cec!WorkerSteps, Cec!Step, Cec!Heard, Cec!Clear,
         Cec!Configure, Cec!Claimed, Cec!Release, Cec!Transmit
    <2>2. worker' \in ThreadState
      BY <1>1, <1>2 DEF Cec!Clear, Cec!Configure, Cec!Claimed, Cec!Release,
         Cec!Goes, Cec!Ends, ThreadState, Stages, Outcomes
    <2>3. addr' \in [Adapter -> {"none", "claiming", "claimed"}]
      BY <1>1, <1>2 DEF Cec!Clear, Cec!Configure, Cec!Claimed, Cec!Release,
         Cec!SetAddr, CecInv, CecTypes
    <2>4. CecTypes'
      BY <1>1, <2>1, <2>2, <2>3 DEF CecInv, CecTypes
    <2>5. /\ worker'.adapter = a /\ worker'.command = worker.command
          /\ ~worker'.wedged /\ worker' # Cec!NoThread
      BY <1>1, <1>2 DEF Cec!Clear, Cec!Configure, Cec!Claimed, Cec!Release,
         Cec!Goes, Cec!Ends, ThreadState, Cec!NoThread
    <2>6. AskedOnce'
      BY <1>1, <2>5 DEF CecInv, AskedOnce
    <2>7. /\ worker'.outcome = worker.outcome \/ worker'.outcome = "error"
          /\ worker.at \in {"open", "configure", "poll", "release"}
          /\ worker.at = "release" =>
                worker'.at = "done" /\ worker'.outcome = worker.outcome
          /\ worker'.at \notin {"release", "done"} =>
                worker'.outcome = worker.outcome /\ worker.at # "release"
      BY <1>1, <1>2 DEF Cec!Clear, Cec!Configure, Cec!Claimed, Cec!Release,
         Cec!Goes, Cec!Ends, ThreadState
    <2>8. ToldWasHeard' /\ HeardIsTold'
      BY <1>1, <2>1, <2>5, <2>7 DEF CecInv, ToldWasHeard, HeardIsTold, Told
    <2>9. OutcomeOpen' /\ (command = "none" => ~Works)'
      BY <1>1, <2>7 DEF CecInv, OutcomeOpen
    <2>10. OwnsAddress'
      BY <1>1, <1>2, <2>5 DEF CecInv, CecTypes, OwnsAddress, Cec!Clear,
         Cec!Configure, Cec!Claimed, Cec!Release, Cec!Goes, Cec!Ends,
         Cec!SetAddr, ThreadState
    <2>11. NoneFails'
      BY <1>1, <1>2, <2>7 DEF CecInv, OwnsAddress, NoneFails, Cec!Clear,
         Cec!Configure, Cec!Claimed, Cec!Release, Cec!Goes, ThreadState
    <2>12. QED
      BY <2>4, <2>6, <2>8, <2>9, <2>10, <2>11 DEF CecInv
  <1>3. CASE Cec!Transmit(worker, worker')
    <2>1. /\ worker.at = "transmit" /\ UNCHANGED addr
          /\ worker' = [worker EXCEPT !.at = "release",
                                      !.outcome = Cec!Outcome(worker)]
          /\ peer' = Cec!Obeys(worker)
      BY <1>3 DEF Cec!Transmit
    <2>2. a \in Adapter /\ peer[a] \in Cec!Peer
      BY <1>1 DEF CecInv, CecTypes, ThreadState
    <2>3. /\ Cec!Outcome(worker) \in Outcomes \ {"none"}
          /\ Cec!Outcome(worker) \in Told =>
                /\ worker.command = "query"
                /\ Cec!Outcome(worker) \notin {"error", "no-peer"}
          /\ worker.command = "query"
             /\ Cec!Outcome(worker) \notin {"error", "no-peer"}
                => Cec!Outcome(worker) \in Told
          /\ addr[a] = "claimed" => Cec!Outcome(worker) # "error"
      BY <2>2 DEF Cec!Outcome, Cec!Reported, Outcomes, Told, Cec!Peer
    <2>4. PICK o \in Outcomes : o = Cec!Outcome(worker)
      BY <2>3
    <2>5. worker' = [worker EXCEPT !.at = "release", !.outcome = o]
      BY <2>1, <2>4
    <2>6. /\ worker' \in ThreadState /\ worker' # Cec!NoThread
          /\ worker'.adapter = a /\ worker'.command = worker.command
          /\ ~worker'.wedged /\ worker'.at = "release" /\ worker'.outcome = o
      BY <1>1, <2>5 DEF ThreadState, Stages, Cec!NoThread
    <2>7. peer' \in [Adapter -> Cec!Peer]
      BY <2>1, <2>2 DEF Cec!Obeys, CecInv, CecTypes, Cec!Peer
    <2>8. spoke' = IF o \in Told THEN spoke \cup {<<a, o>>} ELSE spoke
      BY <1>1, <2>1, <2>3, <2>4 DEF Cec!Heard
    <2>9. CecTypes'
      BY <1>1, <2>1, <2>2, <2>6, <2>7, <2>8 DEF CecInv, CecTypes
    <2>10. AskedOnce'
      BY <1>1, <2>6 DEF CecInv, AskedOnce
    <2>11. ToldWasHeard' /\ HeardIsTold'
      BY <1>1, <2>1, <2>6, <2>8 DEF CecInv, ToldWasHeard, HeardIsTold
    <2>12. OutcomeOpen' /\ (command = "none" => ~Works)'
      BY <1>1, <2>6 DEF CecInv, OutcomeOpen
    <2>13. OwnsAddress' /\ NoneFails'
      BY <1>1, <2>1, <2>3, <2>4, <2>6 DEF CecInv, OwnsAddress, NoneFails
    <2>14. QED
      BY <2>9, <2>10, <2>11, <2>12, <2>13 DEF CecInv
  <1>4. QED
    BY <1>2, <1>3 DEF Cec!WorkerSteps, Cec!Step

LEMMA StragglerStepsKeep ==
    ASSUME CecInv, Cec!StragglerSteps
    PROVE  CecInv'
  <1> USE DEF Works, Cec!Running
  <1>1. /\ Cec!Step(straggler, straggler')
        /\ hurt' = (hurt \/ command # "none")
        /\ UNCHANGED <<link, up, command, todo, results, worker, answer, spoke,
                       left, mishaps>>
        /\ straggler \in ThreadState
    BY DEF Cec!StragglerSteps, Cec!Step, CecInv, CecTypes
  <1>2. Cec!Outcome(straggler) \in Outcomes
    BY <1>1 DEF Cec!Outcome, Cec!Reported, CecInv, CecTypes, ThreadState,
       Outcomes, Told, Cec!Peer
  <1>3. straggler' \in ThreadState
    <2>1. PICK o \in Outcomes : o = Cec!Outcome(straggler)
      BY <1>2
    <2>2. CASE Cec!Transmit(straggler, straggler')
      BY <1>1, <2>1, <2>2 DEF Cec!Transmit, ThreadState, Stages
    <2>3. /\ \A at \in Stages : Cec!Goes(straggler, at) \in ThreadState
          /\ Cec!Ends(straggler, "error") \in ThreadState
      BY <1>1 DEF Cec!Goes, Cec!Ends, ThreadState, Stages, Outcomes
    <2>4. CASE ~Cec!Transmit(straggler, straggler')
      <3>1. \/ \E at \in Stages : straggler' = Cec!Goes(straggler, at)
            \/ straggler' = Cec!Ends(straggler, "error")
        BY <1>1, <2>4 DEF Cec!Step, Cec!Clear, Cec!Configure, Cec!Claimed,
           Cec!Release, Stages
      <3>2. QED
        BY <2>3, <3>1
    <2>5. QED
      BY <2>2, <2>4
  <1>4. peer' \in [Adapter -> Cec!Peer]
    BY <1>1 DEF Cec!Step, Cec!Transmit, Cec!Obeys, CecInv, CecTypes, Cec!Peer,
       ThreadState
  <1>5. addr' \in [Adapter -> {"none", "claiming", "claimed"}]
    BY <1>1 DEF Cec!Step, Cec!Transmit, Cec!Clear, Cec!Configure, Cec!Claimed,
       Cec!Release, Cec!SetAddr, CecInv, CecTypes
  <1>6. CecTypes' /\ AskedOnce'
    <2>1. hurt' \in BOOLEAN
      BY <1>1 DEF CecInv, CecTypes
    <2>2. CecTypes'
      BY <1>1, <1>3, <1>4, <1>5, <2>1 DEF CecInv, CecTypes
    <2>3. QED
      BY <1>1, <2>2 DEF CecInv, AskedOnce
  <1>7. ToldWasHeard' /\ HeardIsTold' /\ OutcomeOpen'
    BY <1>1 DEF CecInv, ToldWasHeard, HeardIsTold, OutcomeOpen
  <1>8. OwnsAddress' /\ NoneFails' /\ (command = "none" => ~Works)'
    BY <1>1 DEF CecInv, CecTypes, OwnsAddress, NoneFails
  <1>9. QED
    BY <1>6, <1>7, <1>8 DEF CecInv

LEMMA CecInit == Cec!Init => CecInv
  <1> SUFFICES ASSUME Cec!Init PROVE CecInv
    OBVIOUS
  <1>1. CecTypes
    <2>1. /\ DOMAIN results = {}
          /\ addr \in [Adapter -> {"none", "claiming", "claimed"}]
      BY DEF Cec!Init
    <2>2. QED
      BY <2>1 DEF Cec!Init, CecTypes
  <1>2. ~Works
    BY DEF Cec!Init, Works, Cec!Running
  <1>3. QED
    BY <1>1, <1>2 DEF Cec!Init, CecInv, AskedOnce, ToldWasHeard, HeardIsTold,
       OutcomeOpen, OwnsAddress, NoneFails

LEMMA CecStep == CecInv /\ [Cec!Next]_cecVars => CecInv'
  <1> SUFFICES ASSUME CecInv, [Cec!Next]_cecVars PROVE CecInv'
    OBVIOUS
  <1>1. CASE UNCHANGED cecVars
    BY <1>1
    DEF cecVars, CecInv, CecTypes, AskedOnce, ToldWasHeard, HeardIsTold,
        OutcomeOpen, OwnsAddress, NoneFails, Works, Cec!Running, Cec!NoThread
  <1>2. CASE Cec!Command
    BY <1>2, CecReceiveKeeps, CecStartsKeeps, CecCollectKeeps, CecGiveUpKeeps,
       CecAnswersKeeps DEF Cec!Command
  <1>3. CASE Cec!Environment
    BY <1>3, StragglerStepsKeep, CecStragglerEndsKeeps, CecUnwedgesKeeps,
       CecKernelClaimsKeeps, CecReplugKeeps, CecRefusesKeeps, CecWedgesKeeps,
       CecClaimFailsKeeps, CecCrashKeeps, CecRestartKeeps DEF Cec!Environment
  <1>4. QED
    BY <1>1, <1>2, <1>3, WorkerStepsKeep DEF Cec!Next

LEMMA CecInvariant == MCSpec => []CecInv
  <1>1. MCInit => CecInv
    BY CecInit DEF MCInit
  <1>2. [MCNext]_<<part, vars, uploadVars, spawnVars, cecVars>>
          => [Cec!Next]_cecVars
    BY DEF MCNext
  <1>3. QED
    BY <1>1, <1>2, CecStep, PTL DEF MCSpec

\* What the status of the displays promises: "on" and "standby" were said, and
\* by every display that told its state to this very command; and no result is
\* "error" unless something went wrong while the command ran.  For any number
\* of adapters, and of threads given up, cables replugged and viewers that die
\* with an address claimed.
THEOREM OutcomesAreHonest == MCSpec => OutcomeIsHonest
  <1> DEFINE Honest ==
        /\ answer'.status \in {"on", "standby"} =>
             /\ \E a \in Adapter : <<a, answer'.status>> \in spoke
             /\ \A s \in spoke : s[2] \in {answer'.status, "unknown"}
        /\ "error" \in Cec!Said => hurt
  <1>1. ASSUME CecInv, Cec!Answers PROVE Honest
    <2>1. ~Works /\ answer' = Cec!Reply
      BY <1>1 DEF Cec!Answers, Works
    <2>2. "error" \in Cec!Said => hurt
      BY <1>1 DEF Cec!Said, CecInv, NoneFails
    <2>3. ASSUME answer'.status \in {"on", "standby"}
          PROVE  /\ command = "query" /\ answer'.status = Cec!PowerStatus
      BY <2>1, <2>3 DEF Cec!Reply, Cec!Status, Cec!Sent
    <2>4. ASSUME NEW v \in {"on", "standby"}, Cec!PowerStatus = v
          PROVE  Cec!Said \cap {"on", "standby", "transitioning"} = {v}
      BY <2>4 DEF Cec!PowerStatus
    <2>5. ASSUME NEW v \in Told, v \in Cec!Said
          PROVE  \E a \in Adapter : <<a, v>> \in spoke
      BY <1>1, <2>5 DEF Cec!Said, CecInv, CecTypes, ToldWasHeard
    <2>6. ASSUME NEW s \in spoke PROVE s[2] \in Cec!Said /\ s[2] \in Told
      BY <1>1, <2>1 DEF Cec!Said, CecInv, CecTypes, HeardIsTold
    <2>7. ASSUME NEW v \in {"on", "standby"}, answer'.status = v
          PROVE  /\ \E a \in Adapter : <<a, v>> \in spoke
                 /\ \A s \in spoke : s[2] \in {v, "unknown"}
      <3>1. Cec!Said \cap {"on", "standby", "transitioning"} = {v}
        BY <2>3, <2>4, <2>7
      <3>2. \E a \in Adapter : <<a, v>> \in spoke
        BY <2>5, <3>1 DEF Told
      <3>3. \A s \in spoke : s[2] \in {v, "unknown"}
        BY <2>6, <3>1 DEF Told
      <3>4. QED
        BY <3>2, <3>3
    <2>8. QED
      BY <2>2, <2>7
  <1>2. CecInv /\ [MCNext]_<<part, vars, uploadVars, spawnVars, cecVars>>
          => [Cec!Answers => Honest]_Cec!vars
    BY <1>1
  <1>3. QED
    BY <1>2, CecInvariant, PTL DEF MCSpec, OutcomeIsHonest, Cec!OutcomeIsHonest
=============================================================================

------------------------------- MODULE WsAuth -------------------------------
(***************************************************************************)
(* Authorization of the /ws sockets and its revocation                     *)
(* (src/src/anthias_server/app/consumers.py, app/signals.py).              *)
(*                                                                         *)
(* A socket's user is resolved once, during the handshake.  A change of    *)
(* credentials commits to the database, bumps the process's generation and *)
(* then publishes force_disconnect, which may get lost.  Credentials are   *)
(* numbered by the change that made them.                                  *)
(***************************************************************************)
EXTENDS Integers, Sequences

CONSTANTS
    Socket,
    Writer,         \* request threads that save settings or a User
    MaxChanges,     \* bound: saves
    MaxFrames,      \* bound: asset updates
    MaxHandshakes   \* bound: connections

Anonymous == -1

ASSUME WsAssumption ==
    MaxChanges \in Nat /\ MaxFrames \in Nat /\ MaxHandshakes \in Nat

VARIABLES
    auth,       \* settings['auth_backend'] is set
    cred,       \* number of the current credentials
    gen,        \* _auth_generation
    writer,     \* what each saving thread has still to do
    sock,       \* the sockets, from the stamp on the scope to the close
    inbox,      \* channel-layer messages for each socket
    revoked,    \* history: credentials below this are revoked in-process
    delivered,  \* history: the last frame that reached a client
    changes, frames, handshakes \* bounds

bounds == <<changes, frames, handshakes>>
vars == <<auth, cred, gen, writer, sock, inbox, revoked, delivered, bounds>>

Closed == [pc |-> "closed", stamp |-> 0, cookie |-> Anonymous,
           user |-> Anonymous]
Quiet == [auth |-> FALSE, user |-> Anonymous, revoked |-> 0]
Version == Nat \cup {Anonymous}

\* own: published by this process, so that the generations compare.
Message ==
    [type : {"asset_update"}]
        \cup [type : {"force_disconnect"}, own : {TRUE}, generation : 0..gen]
        \cup [type : {"force_disconnect"}, own : {FALSE}, generation : Nat]

TypeOK ==
    /\ auth \in BOOLEAN
    /\ cred \in Nat /\ gen \in Nat /\ revoked \in 0..cred
    /\ writer \in [Writer -> [pc : {"idle", "bump", "publish", "enable"},
                              enables : BOOLEAN,
                              version : 0..cred, generation : 0..gen]]
    /\ sock \in [Socket -> [pc : {"closed", "stamped", "resolved", "open"},
                            stamp : 0..gen, cookie : Version,
                            user : Version]]
    /\ inbox \in [Socket -> Seq(Message)]
    /\ delivered \in [auth : BOOLEAN, user : Version, revoked : Nat]
    /\ changes \in Nat /\ frames \in Nat /\ handshakes \in Nat

Init ==
    /\ auth \in BOOLEAN
    /\ cred = 0 /\ gen = 0 /\ revoked = 0
    /\ writer = [w \in Writer |->
                    [pc |-> "idle", enables |-> FALSE, version |-> 0,
                     generation |-> 0]]
    /\ sock = [s \in Socket |-> Closed]
    /\ inbox = [s \in Socket |-> <<>>]
    /\ delivered = Quiet
    /\ changes = MaxChanges /\ frames = MaxFrames
    /\ handshakes = MaxHandshakes

-----------------------------------------------------------------------------
(* Handshake: stamp_auth_generation(), AuthMiddlewareStack, connect(). *)

\* A browser connects with some session, made with these or older credentials.
Stamp(s, cookie) ==
    /\ sock[s].pc = "closed"
    /\ handshakes > 0
    /\ handshakes' = handshakes - 1
    /\ sock' = [sock EXCEPT ![s] = [pc |-> "stamped", stamp |-> gen,
                                    cookie |-> cookie, user |-> Anonymous]]
    /\ inbox' = [inbox EXCEPT ![s] = <<>>]
    /\ UNCHANGED <<auth, cred, gen, writer, revoked, delivered, changes,
                   frames>>

\* A session is worth something while its credentials are the current ones.
ResolveUser(s) ==
    /\ sock[s].pc = "stamped"
    /\ sock' = [sock EXCEPT
            ![s].pc = "resolved",
            ![s].user = IF sock[s].cookie = cred THEN cred ELSE Anonymous]
    /\ UNCHANGED <<auth, cred, gen, writer, inbox, revoked, delivered, bounds>>

IsAuthorized(s) ==
    \/ ~auth
    \/ sock[s].stamp = gen /\ sock[s].user # Anonymous

\* connect(): group_add and accept, or a refused handshake.
Connect(s) ==
    /\ sock[s].pc = "resolved"
    /\ sock' = [sock EXCEPT ![s] = IF IsAuthorized(s)
                                   THEN [@ EXCEPT !.pc = "open"] ELSE Closed]
    /\ UNCHANGED <<auth, cred, gen, writer, inbox, revoked, delivered, bounds>>

ClientCloses(s) ==
    /\ sock[s].pc = "open"
    /\ sock' = [sock EXCEPT ![s] = Closed]
    /\ UNCHANGED <<auth, cred, gen, writer, inbox, revoked, delivered, bounds>>

-----------------------------------------------------------------------------
(* The channel layer: a message reaches the open sockets or gets lost. *)

Broadcast(m) ==
    \/ inbox' = [s \in Socket |-> IF sock[s].pc = "open"
                                  THEN Append(inbox[s], m) ELSE inbox[s]]
    \/ inbox' = inbox

NotifyAssetUpdate ==
    /\ frames > 0
    /\ frames' = frames - 1
    /\ Broadcast([type |-> "asset_update"])
    /\ UNCHANGED <<auth, cred, gen, writer, sock, revoked, delivered, changes,
                   handshakes>>

\* asset_update(): the frame is sent or suppressed.
AssetUpdate(s) ==
    /\ sock[s].pc = "open" /\ inbox[s] # <<>>
    /\ Head(inbox[s]).type = "asset_update"
    /\ inbox' = [inbox EXCEPT ![s] = Tail(inbox[s])]
    /\ delivered' = IF IsAuthorized(s)
                    THEN [auth |-> auth, user |-> sock[s].user,
                          revoked |-> revoked]
                    ELSE delivered
    /\ UNCHANGED <<auth, cred, gen, writer, sock, revoked, bounds>>

\* Mutant: the event closes whatever socket it reaches.
SparedNever(s, m) == FALSE

\* A socket stamped after the bump the event belongs to.
Spared(s, m) == m.own /\ sock[s].stamp >= m.generation

ForceDisconnect(s) ==
    LET m == Head(inbox[s]) IN
    /\ sock[s].pc = "open" /\ inbox[s] # <<>>
    /\ m.type = "force_disconnect"
    /\ sock' = [sock EXCEPT ![s] = IF Spared(s, m) THEN @ ELSE Closed]
    /\ inbox' = [inbox EXCEPT ![s] = Tail(inbox[s])]
    /\ UNCHANGED <<auth, cred, gen, writer, revoked, delivered, bounds>>

-----------------------------------------------------------------------------
(* Saves, and disconnect_all() after them. *)

\* The write, committed; the rest is the thread's next steps.
Save(w, enables) ==
    /\ writer[w].pc = "idle"
    /\ changes > 0
    /\ changes' = changes - 1
    /\ writer' = [writer EXCEPT ![w].pc = "bump", ![w].enables = enables,
                                ![w].version = cred']
    /\ UNCHANGED <<gen, sock, inbox, revoked, delivered, frames, handshakes>>

\* auth_backend is switched and no User written: the view itself reaps.
ToggleAuth(w) == auth' = ~auth /\ cred' = cred /\ Save(w, FALSE)

\* A username alone: sessions keep resolving, sockets are reaped all the same.
ChangeUsername(w) == auth' = auth /\ cred' = cred /\ Save(w, FALSE)

\* A password, or a deleted User: sessions made before stop resolving.
ChangeCredentials(w) == auth' = auth /\ cred' = cred + 1 /\ Save(w, FALSE)

\* One save that sets the credentials and turns authentication on.
ChangeAndEnable(w) ==
    ~auth /\ auth' = auth /\ cred' = cred + 1 /\ Save(w, TRUE)

BumpBy(w, counter, generation) ==
    /\ writer[w].pc = "bump"
    /\ gen' = counter
    /\ revoked' = IF writer[w].version > revoked THEN writer[w].version
                  ELSE revoked
    /\ writer' = [writer EXCEPT ![w].pc = "publish",
                                ![w].generation = generation]
    /\ UNCHANGED <<auth, cred, sock, inbox, delivered, bounds>>

\* Mutant: revocation is left to the fan-out.
BumpForgotten(w) == BumpBy(w, gen, gen)

\* disconnect_all(): the increment, under _auth_generation_lock.
Bump(w) == BumpBy(w, gen + 1, gen + 1)

Publish(w) ==
    /\ writer[w].pc = "publish"
    /\ writer' = [writer EXCEPT
            ![w].pc = IF writer[w].enables THEN "enable" ELSE "idle"]
    /\ Broadcast([type |-> "force_disconnect", own |-> TRUE,
                  generation |-> writer[w].generation])
    /\ UNCHANGED <<auth, cred, gen, sock, revoked, delivered, bounds>>

\* Back in the view: the flag, without a second disconnect_all().
Enable(w) ==
    /\ writer[w].pc = "enable"
    /\ auth' = TRUE
    /\ writer' = [writer EXCEPT ![w].pc = "idle"]
    /\ UNCHANGED <<cred, gen, sock, inbox, revoked, delivered, bounds>>

\* manage.py changepassword: another process's counter, only the event.
ChangeElsewhere ==
    /\ changes > 0
    /\ changes' = changes - 1
    /\ cred' = cred + 1
    /\ Broadcast([type |-> "force_disconnect", own |-> FALSE,
                  generation |-> 1])
    /\ UNCHANGED <<auth, gen, writer, sock, revoked, delivered, frames,
                   handshakes>>

Next ==
    \/ \E s \in Socket, c \in 0..cred \cup {Anonymous} : Stamp(s, c)
    \/ \E s \in Socket : ResolveUser(s) \/ Connect(s) \/ ClientCloses(s)
    \/ \E s \in Socket : AssetUpdate(s) \/ ForceDisconnect(s)
    \/ NotifyAssetUpdate
    \/ \E w \in Writer : ToggleAuth(w) \/ ChangeUsername(w)
    \/ \E w \in Writer : ChangeCredentials(w) \/ ChangeAndEnable(w)
    \/ \E w \in Writer : Bump(w) \/ Publish(w) \/ Enable(w)
    \/ ChangeElsewhere

Spec == Init /\ [][Next]_vars

-----------------------------------------------------------------------------
(* Properties *)

\* While authentication is on, no frame reaches a socket without a user, nor
\* one whose credentials a completed change has revoked, however handshake and
\* change interleave and whether or not force_disconnect ever arrives.
NoFrameAfterRevocation ==
    delivered.auth => /\ delivered.user # Anonymous
                      /\ delivered.user >= delivered.revoked

\* What this process's own event closes was stamped before its change.
ReapsOnlyOlder ==
    \A s \in Socket :
        (/\ inbox[s] # <<>> /\ inbox'[s] = Tail(inbox[s])
         /\ sock[s].pc = "open" /\ sock'[s].pc = "closed"
         /\ Head(inbox[s]).own)
            => sock[s].stamp < gen

\* A reconnect made after a change is not closed by that change's own event.
RevocationSparesReconnects == [][ReapsOnlyOlder]_vars
=============================================================================

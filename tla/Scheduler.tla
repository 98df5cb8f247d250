------------------------------ MODULE Scheduler ------------------------------
(***************************************************************************)
(* The viewer's playlist scheduler                                         *)
(* (src/src/anthias_viewer/scheduling.py).                                 *)
(*                                                                         *)
(* The main thread calls get_next_asset() for every slot it shows.  It     *)
(* reads a database that the server and the Celery worker write, a clock   *)
(* that opens and closes play windows, and three fields                    *)
(* (extra_asset, reverse and, through settings, the shuffle switch) that   *)
(* the subscriber thread writes.  Every read of such shared state and the  *)
(* use of what was read are separate actions.                              *)
(*                                                                         *)
(* What evaluate_playlist() would return is one value: a Snapshot.  An     *)
(* operator's edit moves the database to any other snapshot, the passing   *)
(* of time only to one of the same catalogue.  See PlaylistEval for how a  *)
(* snapshot is computed from the rows.                                     *)
(***************************************************************************)
EXTENDS Integers, Sequences, FiniteSets

CONSTANTS
    Occ,            \* occurrence ids: the slots of the flattened playlist
    Asset,          \* asset ids
    AssetOf,        \* the asset of an occurrence
    Playlist,       \* playlists that may have repeat=False
    Snapshots,      \* the evaluations the database can give
    Cap,            \* WINDOWED_DEADLINE_CAP_SECONDS
    ReshuffleAfter, \* cycles between reshuffles: the literal 5
    MaxClock,       \* bound: last instant of the clock
    MaxEvents,      \* bound: edits, flips and commands of one behaviour
    NoOcc, NoAsset  \* "no occurrence", "no asset"

None == -1

\* list: the active occurrences in play order.  once: the repeat=False
\* ancestors of each occurrence.  windowed: some candidate carries a window
\* filter.  fields: the version of the listed assets' other fields.
\* catalogue: identifies the rows the evaluation was made from.  ready: the
\* assets get_specific_asset() finds and that are not processing.
SnapshotType ==
    [list : Seq(Occ), once : [Occ -> SUBSET Playlist], windowed : BOOLEAN,
     fields : Nat, catalogue : Nat,
     ready : SUBSET Asset]

IsOrderOf(q, L) ==
    /\ Len(q) = Len(L)
    /\ \A i \in 1..Len(L) : \E j \in 1..Len(q) : q[j] = L[i]
    /\ \A j \in 1..Len(q) : \E i \in 1..Len(L) : q[j] = L[i]

ASSUME SchedulerAssumption ==
    /\ AssetOf \in [Occ -> Asset]
    /\ NoOcc \notin Occ
    /\ NoAsset \notin Asset
    /\ Snapshots \subseteq SnapshotType
    /\ \A s \in Snapshots : \A i, j \in 1..Len(s.list) :
            s.list[i] = s.list[j] => i = j
    /\ Cap \in Nat \ {0}
    /\ ReshuffleAfter \in Nat \ {0}
    /\ MaxClock \in Nat
    /\ MaxEvents \in Nat

VARIABLES
    \* The world the scheduler reads.
    db,         \* what evaluate_playlist() would return now
    clock,      \* timezone.now(), also the granularity of file times
    mtime,      \* get_db_mtime(): when the database was last written
    shuffle,    \* settings['shuffle_playlist']
    events,     \* bound: events left
    \* The Scheduler object.
    order,      \* the occurrences of self.assets, in their order
    loaded,     \* the evaluation the dicts in self.assets come from
    deadline, counter, index, reverse, extra, current, lastMtime,
    played,     \* _played
    members,    \* _members
    \* The main thread inside get_next_asset().
    pc,
    lookup,     \* extra asset it has looked up, and whether it may be shown
    mode,       \* how update_playlist() was called
    \* What is on the screen, and history for the properties.
    shown,      \* asset the last call returned, NoAsset for None
    slot,       \* occurrence it returned, NoOcc when not from the rotation
    round,      \* occurrences of the rotation shown since loaded changed
    evaluatedAt \* clock when loaded was evaluated

world == <<db, clock, mtime, shuffle, events>>
position == <<order, loaded, deadline, counter, index, evaluatedAt>>
once == <<played, members>>
display == <<current, shown, slot, round>>
thread == <<pc, lookup, mode>>
vars == <<world, position, once, display, thread, reverse, extra, lastMtime>>

NoLookup == [asset |-> NoAsset, ready |-> FALSE]

\* Besides the types: the position stays inside the list and the list is the
\* loaded evaluation's, so no index error can stop the main thread.
TypeOK ==
    /\ IsOrderOf(order, loaded.list)
    /\ index < Len(order) \/ index = 0
    /\ db \in Snapshots
    /\ clock \in Nat /\ mtime \in Nat /\ lastMtime \in Nat
    /\ evaluatedAt \in Nat
    /\ shuffle \in BOOLEAN
    /\ events \in Nat
    /\ order \in Seq(Occ)
    /\ loaded \in SnapshotType
    /\ deadline \in Nat \cup {None}
    /\ counter \in 0..ReshuffleAfter
    /\ index \in Nat
    /\ reverse \in BOOLEAN
    /\ extra \in Asset \cup {NoAsset}
    /\ current \in Asset \cup {NoAsset}
    /\ played \in [Playlist -> SUBSET Occ]
    /\ members \in [Playlist -> SUBSET Occ]
    /\ pc \in {"start", "extra", "refresh", "mtime", "generate", "walk"}
    /\ lookup \in [asset : Asset \cup {NoAsset}, ready : BOOLEAN]
    /\ mode \in {"boot", "keep", "reshuffle"}
    /\ shown \in Asset \cup {NoAsset}
    /\ slot \in Occ \cup {NoOcc}
    /\ round \subseteq Occ

EmptySnapshot ==
    [list |-> <<>>, once |-> [o \in Occ |-> {}], windowed |-> FALSE,
     fields |-> 0, catalogue |-> 0, ready |-> {}]

\* Scheduler.__init__: the fields, then update_playlist().
Init ==
    /\ db \in Snapshots
    /\ clock = 1 /\ mtime = 1
    /\ shuffle \in BOOLEAN
    /\ events = MaxEvents
    /\ order = <<>> /\ loaded = EmptySnapshot
    /\ deadline = None /\ counter = 0 /\ index = 0
    /\ reverse = FALSE /\ extra = NoAsset /\ current = NoAsset
    /\ lastMtime = 0 /\ evaluatedAt = 0
    /\ played = [p \in Playlist |-> {}]
    /\ members = [p \in Playlist |-> {}]
    /\ pc = "mtime" /\ lookup = NoLookup /\ mode = "boot"
    /\ shown = NoAsset /\ slot = NoOcc /\ round = {}

-----------------------------------------------------------------------------
(* The world: writers of the database, the clock, the subscriber thread. *)

\* A committed write, by an operator or a task; the file time is the clock's.
\* It changes a row the playlist depends on, or only columns it does not.
Write(s) ==
    /\ events > 0
    /\ s = db \/ s.catalogue # db.catalogue
    /\ db' = s
    /\ mtime' = clock
    /\ events' = events - 1
    /\ UNCHANGED <<clock, shuffle, position, once, display, thread, reverse,
                   extra, lastMtime>>

\* A play window opens or closes: the same rows evaluate differently.
WindowFlip(s) ==
    /\ events > 0
    /\ s # db
    /\ s.catalogue = db.catalogue
    /\ db.windowed
    /\ db' = s
    /\ events' = events - 1
    /\ UNCHANGED <<clock, mtime, shuffle, position, once, display, thread,
                   reverse, extra, lastMtime>>

Tick ==
    /\ clock < MaxClock
    /\ clock' = clock + 1
    /\ UNCHANGED <<db, mtime, shuffle, events, position, once, display,
                   thread, reverse, extra, lastMtime>>

\* "reload" brings in a changed shuffle setting.
ToggleShuffle ==
    /\ events > 0
    /\ shuffle' = ~shuffle
    /\ events' = events - 1
    /\ UNCHANGED <<db, clock, mtime, position, once, display, thread, reverse,
                   extra, lastMtime>>

\* skip_asset(back=True)
Previous ==
    /\ events > 0
    /\ reverse' = TRUE
    /\ events' = events - 1
    /\ UNCHANGED <<db, clock, mtime, shuffle, position, once, display, thread,
                   extra, lastMtime>>

\* navigate_to_asset
NavigateToAsset(a) ==
    /\ events > 0
    /\ extra' = a
    /\ events' = events - 1
    /\ UNCHANGED <<db, clock, mtime, shuffle, position, once, display, thread,
                   reverse, lastMtime>>

-----------------------------------------------------------------------------
(* get_next_asset(): the operator's jump. *)

LookUpExtra ==
    /\ pc = "start"
    /\ IF extra = NoAsset
       THEN pc' = "refresh" /\ UNCHANGED lookup
       ELSE /\ lookup' = [asset |-> extra, ready |-> extra \in db.ready]
            /\ pc' = "extra"
    /\ UNCHANGED <<world, position, once, display, mode, reverse, extra,
                   lastMtime>>

\* current_asset_id is taken from extra_asset as it is now, the asset returned
\* is the one looked up before.
TakeExtra ==
    /\ pc = "extra"
    /\ extra' = NoAsset
    /\ lookup' = NoLookup
    /\ IF lookup.ready
       THEN /\ current' = extra
            /\ shown' = lookup.asset
            /\ slot' = NoOcc
            /\ pc' = "start"
            /\ UNCHANGED round
       ELSE pc' = "refresh" /\ UNCHANGED display
    /\ UNCHANGED <<world, position, once, mode, reverse, lastMtime>>

-----------------------------------------------------------------------------
(* refresh_playlist() and update_playlist(). *)

DatabaseModified == mtime > lastMtime
CyclesDone == shuffle /\ counter >= ReshuffleAfter

\* Mutant: an empty playlist is not re-evaluated.
DeadlinePassedIfListed ==
    Len(order) > 0 /\ deadline # None /\ deadline <= clock

DeadlinePassed == deadline # None /\ deadline <= clock

RefreshPlaylist ==
    /\ pc = "refresh"
    /\ \/ /\ DatabaseModified
          /\ mode' = "keep" /\ pc' = "mtime"
       \/ /\ ~DatabaseModified /\ CyclesDone
          /\ mode' = "reshuffle" /\ pc' = "mtime"
       \/ /\ ~DatabaseModified /\ ~CyclesDone /\ DeadlinePassed
          /\ mode' = "keep" /\ pc' = "mtime"
       \/ /\ ~DatabaseModified /\ ~CyclesDone /\ ~DeadlinePassed
          /\ pc' = "walk" /\ UNCHANGED mode
    /\ UNCHANGED <<world, position, once, display, lookup, reverse, extra,
                   lastMtime>>

\* The file time is read before the rows are.
ReadMtime ==
    /\ pc = "mtime"
    /\ lastMtime' = mtime
    /\ pc' = "generate"
    /\ UNCHANGED <<world, position, once, display, lookup, mode, reverse,
                   extra>>

\* _sync_play_once_state
MembersOf(s) ==
    [p \in Playlist |->
        {o \in Occ : p \in s.once[o]
                     /\ \E i \in 1..Len(s.list) : s.list[i] = o}]

\* Mutant: any refresh starts a new play-through.
SyncPlayOnceStateRestarts(s) ==
    /\ members' = MembersOf(s)
    /\ played' = [p \in Playlist |-> {}]

SyncPlayOnceState(s) ==
    /\ members' = MembersOf(s)
    /\ played' = [p \in Playlist |->
                    IF MembersOf(s)[p] # members[p] THEN {} ELSE played[p]]

\* Every order generate_asset_list() may return for the evaluation s.
Orders(s) ==
    IF shuffle
    THEN {q \in [1..Len(s.list) -> Occ] : IsOrderOf(q, s.list)}
    ELSE {s.list}

\* Mutant: only what is listed is asked for its windows.
DeadlineOfListed(s) ==
    IF s.windowed /\ Len(s.list) > 0 THEN clock + Cap ELSE None

\* compute_deadline
NewDeadline(s) == IF s.windowed THEN clock + Cap ELSE None

\* sorted(occurrence ids) of both lists agree: no occurrence is listed twice.
SameMembership(s) == IsOrderOf(order, s.list)

KeepsPlayThrough(s) == shuffle /\ mode # "reshuffle" /\ SameMembership(s)

\* new_assets == self.assets and new_deadline == self.deadline
NothingChanged(s, q) ==
    /\ ~shuffle \/ mode = "reshuffle"
    /\ q = order /\ s.once = loaded.once /\ s.fields = loaded.fields
    /\ NewDeadline(s) = deadline

NewIndex(q) == IF Len(q) > 0 THEN index % Len(q) ELSE 0

\* update_playlist() from the evaluation on.  It keeps the order and position
\* of the running play-through, or takes the new list.
UpdatePlaylist ==
    /\ pc = "generate"
    /\ \E q \in Orders(db) :
        LET keeps == KeepsPlayThrough(db) \/ NothingChanged(db, q) IN
        /\ order' = IF keeps THEN order ELSE q
        /\ counter' = IF keeps THEN counter ELSE 0
        /\ index' = IF keeps THEN index ELSE NewIndex(q)
    /\ loaded' = db
    /\ deadline' = NewDeadline(db)
    /\ SyncPlayOnceState(db)
    /\ evaluatedAt' = clock
    /\ round' = IF db = loaded THEN round ELSE {}
    /\ pc' = IF mode = "boot" THEN "start" ELSE "walk"
    /\ UNCHANGED <<world, current, shown, slot, lookup, mode, reverse,
                   extra, lastMtime>>

-----------------------------------------------------------------------------
(* get_next_asset(): the walk over the rotation. *)

PlayedOut(o) == \E p \in loaded.once[o] : o \in played[p]

\* The position the walk looks at first: two back from index (the slot before
\* the one on screen) if the operator asked for the previous asset.
WalkFrom == IF reverse THEN index - 2 ELSE index

\* What the walk looks at after k steps, as a position of self.assets.
At(k) == (WalkFrom + k) % Len(order)
Candidate(k) == order[At(k) + 1]

\* The walk breaks off at step k: what it has passed over has played out.
BreaksAt(k) ==
    /\ ~PlayedOut(Candidate(k))
    /\ \A j \in 0..(k - 1) : PlayedOut(Candidate(j))

\* Mutant: the list starts over at its second entry.
AdvanceFromOne(k) == IF At(k) + 1 < Len(order) THEN At(k) + 1 ELSE 1

Advance(k) == (At(k) + 1) % Len(order)

\* The walk passes the end of the list: index becomes 0 at one of its steps.
Wraps(k) == \E j \in 0..k : j < Len(order) /\ Advance(j) = 0

\* The counter is only compared with ReshuffleAfter, so it saturates there.
CountCycle(k) ==
    IF shuffle /\ Wraps(k) /\ counter < ReshuffleAfter
    THEN counter + 1 ELSE counter

ReturnNone ==
    /\ current' = NoAsset /\ shown' = NoAsset /\ slot' = NoOcc
    /\ UNCHANGED round

MarkPlayed(o) ==
    played' = [p \in Playlist |->
                IF p \in loaded.once[o] THEN played[p] \cup {o} ELSE played[p]]

EmptyPlaylist ==
    /\ pc = "walk"
    /\ Len(order) = 0
    /\ ReturnNone
    /\ pc' = "start"
    /\ UNCHANGED <<world, position, once, lookup, mode, reverse, extra,
                   lastMtime>>

\* Every occurrence has played out its repeat=False budget.
NothingLeftToPlay ==
    /\ pc = "walk"
    /\ Len(order) > 0
    /\ \A j \in 0..(Len(order) - 1) : PlayedOut(Candidate(j))
    /\ index' = At(Len(order))
    /\ counter' = CountCycle(Len(order))
    /\ reverse' = FALSE
    /\ ReturnNone
    /\ pc' = "start"
    /\ UNCHANGED <<world, order, loaded, deadline, evaluatedAt, once, lookup,
                   mode, extra, lastMtime>>

Show(k) ==
    LET o == Candidate(k) IN
    /\ index' = Advance(k)
    /\ counter' = CountCycle(k)
    /\ MarkPlayed(o)
    /\ current' = AssetOf[o]
    /\ shown' = AssetOf[o]
    /\ slot' = o
    /\ round' = round \cup {o}

ShowNext ==
    /\ pc = "walk"
    /\ \E k \in 0..(Len(order) - 1) : BreaksAt(k) /\ Show(k)
    /\ reverse' = FALSE
    /\ pc' = "start"
    /\ UNCHANGED <<world, order, loaded, deadline, evaluatedAt, members,
                   lookup, mode, extra, lastMtime>>

GetNextAsset ==
    \/ LookUpExtra \/ TakeExtra
    \/ RefreshPlaylist \/ ReadMtime \/ UpdatePlaylist
    \/ EmptyPlaylist \/ NothingLeftToPlay \/ ShowNext

Environment ==
    \/ \E s \in Snapshots : Write(s)
    \/ \E s \in Snapshots : WindowFlip(s)
    \/ Tick
    \/ ToggleShuffle
    \/ Previous
    \/ \E a \in Asset : NavigateToAsset(a)

Next == GetNextAsset \/ Environment

Spec == Init /\ [][Next]_vars

\* asset_loop() calls get_next_asset() for ever: each of its waits has a
\* timeout, so the main thread always comes back.  Nothing else is fair but
\* the clock.
FairSpec == Spec /\ WF_vars(GetNextAsset) /\ WF_vars(Tick)

-----------------------------------------------------------------------------
(* Properties *)

Listed == {order[i] : i \in 1..Len(order)}

\* A repeat=False occurrence is not shown again by the rotation while the
\* evaluation it came from stands, whatever refreshes, reshuffles, jumps and
\* "previous" commands come in between.
PlaysOnce ==
    [][ (pc = "walk" /\ pc' = "start" /\ slot' # NoOcc
          /\ loaded.once[slot'] # {})
            => slot' \notin round ]_vars

\* The list in memory never goes stale unnoticed: when the database would now
\* give another one, the next refresh sees a newer file time, or a deadline of
\* at most Cap after the evaluation is pending.  Only a write in the very tick
\* of the file time that was read is out of its sight.  (Between reading the
\* file time and the rows, the evaluation is still to come.)
DriftIsNoticed ==
    pc # "generate" =>
        \/ loaded = db
        \/ DatabaseModified
        \/ deadline # None /\ deadline <= evaluatedAt + Cap
        \/ evaluatedAt = lastMtime /\ mtime = lastMtime

\* A write the file time shows, and a deadline that has passed, are both
\* followed by a new evaluation.
EditReachesScreen ==
    /\ (mtime > lastMtime) ~> (mtime = lastMtime)
    /\ (deadline # None /\ deadline <= clock)
            ~> (deadline = None \/ deadline > clock)

\* No repeating occurrence starves: one that stays listed is shown again and
\* again, in list order as well as under shuffle with its reshuffles.
NoOccurrenceStarves ==
    \A o \in Occ :
        <>[](o \in Listed /\ loaded.once[o] = {}) => []<>(slot = o)

-----------------------------------------------------------------------------
(* What the comments and docs say and the code does not do. *)

\* "End-of-cycle reshuffle: the current play-through is over".
ReshuffleOnlyAtCycleEnd ==
    [][ (pc = "generate" /\ mode = "reshuffle" /\ order' # order)
            => index = 0 ]_vars

\* "Get the current asset being displayed on the screen".
CurrentIsOnScreen == current = shown

\* "a 60s cap tick must not restart a finished play-through": a refresh that
\* no write caused leaves the play-through of a playlist that is still in the
\* list alone.
CapTickKeepsPlayThrough ==
    [][ \A p \in Playlist :
            (pc = "generate" /\ db.catalogue = loaded.catalogue
                /\ members[p] # {} /\ MembersOf(db)[p] # {})
                => played'[p] = played[p] ]_vars

=============================================================================

-------------------------- MODULE SchedulerProofs ---------------------------
(***************************************************************************)
(* Proofs about the schedule the viewer plays, for any occurrences,        *)
(* playlists and evaluations.                                              *)
(*                                                                         *)
(* The argument: what the scheduler remembers of a play-through belongs to *)
(* the evaluation it has loaded.  The order is one of that evaluation's    *)
(* list, the members of each repeat=False playlist are that evaluation's,  *)
(* and so only a change of the evaluation can forget that an occurrence    *)
(* was played.                                                             *)
(*                                                                         *)
(* A list that has gone stale is noticed.  The argument: the file time is  *)
(* read before the rows and never runs ahead of the clock, so a later      *)
(* write shows in it unless it falls into that very tick; and a window     *)
(* that can flip was in the rows that were read, which set the deadline.   *)
(***************************************************************************)
EXTENDS Scheduler, TLAPS

\* What the rotation has shown of a repeat=False playlist since the evaluation
\* changed is on record as played.
ShownIsPlayed ==
    \A o \in round : \A p \in loaded.once[o] : o \in played[p]

IInv == TypeOK /\ members = MembersOf(loaded) /\ ShownIsPlayed

-----------------------------------------------------------------------------
(* Positions and orders. *)

\* What Python's % gives for a list that is not empty.
LEMMA ModBounds ==
    ASSUME NEW a \in Int, NEW n \in Nat, n > 0
    PROVE  a % n \in 0..(n - 1)
  BY Z3

\* Every list is an order of itself.
LEMMA OrderOfItself == \A q : IsOrderOf(q, q)
  BY DEF IsOrderOf

\* An order of a list of occurrences is one, too.
LEMMA OrdersAreLists ==
    ASSUME NEW s \in SnapshotType, NEW q \in Orders(s)
    PROVE  q \in Seq(Occ) /\ IsOrderOf(q, s.list)
  <1>1. s.list \in Seq(Occ) /\ Len(s.list) \in Nat
    BY DEF SnapshotType
  <1>2. CASE shuffle
    <2>1. q \in [1..Len(s.list) -> Occ] /\ IsOrderOf(q, s.list)
      BY <1>2 DEF Orders
    <2>2. QED
      BY <1>1, <2>1
  <1>3. CASE ~shuffle
    BY <1>1, <1>3, OrderOfItself DEF Orders
  <1>4. QED
    BY <1>2, <1>3

\* The walk looks at slots of the list.
LEMMA PositionsAreListed ==
    ASSUME TypeOK, Len(order) > 0, NEW k \in Nat
    PROVE  At(k) \in 0..(Len(order) - 1) /\ Candidate(k) \in Occ
             /\ Advance(k) \in 0..(Len(order) - 1)
  <1>1. order \in Seq(Occ) /\ Len(order) \in Nat /\ WalkFrom + k \in Int
    BY DEF TypeOK, WalkFrom
  <1>2. At(k) \in 0..(Len(order) - 1)
    BY <1>1, ModBounds DEF At
  <1>3. Candidate(k) \in Occ
    BY <1>1, <1>2 DEF Candidate
  <1>4. Advance(k) \in 0..(Len(order) - 1)
    BY <1>1, <1>2, ModBounds DEF Advance
  <1>5. QED
    BY <1>2, <1>3, <1>4

LEMMA CountCycleType ==
    ASSUME TypeOK, NEW k
    PROVE  CountCycle(k) \in 0..ReshuffleAfter
  BY SchedulerAssumption DEF TypeOK, CountCycle

LEMMA InitIInv == Init => IInv
  <1> SUFFICES ASSUME Init PROVE IInv
    OBVIOUS
  <1>1. EmptySnapshot \in SnapshotType
    BY DEF EmptySnapshot, SnapshotType
  <1>2. /\ order = <<>> /\ loaded.list = <<>>
        /\ Len(order) = 0 /\ order \in Seq(Occ)
    BY DEF Init, EmptySnapshot
  <1>3. TypeOK
    <2>1. IsOrderOf(order, loaded.list)
      BY <1>2, OrderOfItself
    <2>2. loaded \in SnapshotType /\ shuffle \in BOOLEAN
      BY <1>1 DEF Init
    <2>3. lookup \in [asset : Asset \cup {NoAsset}, ready : BOOLEAN]
      BY DEF Init, NoLookup
    <2>4. /\ played \in [Playlist -> SUBSET Occ]
          /\ members \in [Playlist -> SUBSET Occ]
      BY DEF Init
    <2>5. /\ db \in Snapshots /\ events \in Nat
          /\ counter \in 0..ReshuffleAfter /\ deadline \in Nat \cup {None}
      BY SchedulerAssumption DEF Init
    <2>6. QED
      BY <1>2, <2>1, <2>2, <2>3, <2>4, <2>5 DEF Init, TypeOK
  <1>4. members = MembersOf(loaded)
    BY DEF Init, MembersOf, EmptySnapshot
  <1>5. QED
    BY <1>3, <1>4 DEF Init, IInv, ShownIsPlayed

-----------------------------------------------------------------------------
(* The steps. *)

\* Steps of the world, and of the thread as long as it only reads.
LEMMA ReadingKeeps ==
    ASSUME IInv, UNCHANGED <<position, once, round>>, TypeOK'
    PROVE  IInv'
  BY DEF IInv, ShownIsPlayed, position, once, MembersOf

LEMMA EnvironmentKeeps == ASSUME IInv, Environment PROVE IInv'
  <1>1. TypeOK'
    <2>1. shuffle' \in BOOLEAN /\ reverse' \in BOOLEAN
      BY DEF IInv, TypeOK, Environment, Write, WindowFlip, Tick, ToggleShuffle,
             Previous, NavigateToAsset
    <2>2. /\ db' \in Snapshots /\ clock' \in Nat /\ mtime' \in Nat
          /\ events' \in Nat /\ extra' \in Asset \cup {NoAsset}
      BY DEF IInv, TypeOK, Environment, Write, WindowFlip, Tick, ToggleShuffle,
             Previous, NavigateToAsset
    <2>3. UNCHANGED <<position, once, display, thread, lastMtime>>
      BY DEF Environment, Write, WindowFlip, Tick, ToggleShuffle, Previous,
             NavigateToAsset
    <2>4. QED
      BY <2>1, <2>2, <2>3 DEF IInv, TypeOK, position, once, display, thread
  <1>2. UNCHANGED <<position, once, round>>
    BY DEF Environment, Write, WindowFlip, Tick, ToggleShuffle, Previous,
           NavigateToAsset, display
  <1>3. QED
    BY <1>1, <1>2, ReadingKeeps

LEMMA LookingKeeps ==
    ASSUME IInv, LookUpExtra \/ TakeExtra \/ RefreshPlaylist \/ ReadMtime
    PROVE  IInv'
  <1>1. TypeOK'
    <2>1. lookup' \in [asset : Asset \cup {NoAsset}, ready : BOOLEAN]
      <3>1. (extra \in db.ready) \in BOOLEAN
        OBVIOUS
      <3>2. PICK b \in BOOLEAN : b = (extra \in db.ready)
        BY <3>1, Zenon
      <3>3. lookup' \in {lookup, NoLookup, [asset |-> extra, ready |-> b]}
        BY <3>2, Zenon
        DEF LookUpExtra, TakeExtra, RefreshPlaylist, ReadMtime
      <3>4. NoLookup \in [asset : Asset \cup {NoAsset}, ready : BOOLEAN]
        BY DEF NoLookup
      <3>5. [asset |-> extra, ready |-> b]
              \in [asset : Asset \cup {NoAsset}, ready : BOOLEAN]
        BY DEF IInv, TypeOK
      <3>6. QED
        BY <3>3, <3>4, <3>5 DEF IInv, TypeOK
    <2>2. /\ extra' \in Asset \cup {NoAsset} /\ lastMtime' \in Nat
          /\ current' \in Asset \cup {NoAsset} /\ slot' \in Occ \cup {NoOcc}
          /\ shown' \in Asset \cup {NoAsset}
          /\ pc' \in {"start", "extra", "refresh", "mtime", "generate", "walk"}
          /\ mode' \in {"boot", "keep", "reshuffle"}
      BY DEF IInv, TypeOK, LookUpExtra, TakeExtra, RefreshPlaylist, ReadMtime,
             display
    <2>3. UNCHANGED <<world, position, once, reverse, round>>
      BY DEF LookUpExtra, TakeExtra, RefreshPlaylist, ReadMtime, display
    <2>4. QED
      BY <2>1, <2>2, <2>3 DEF IInv, TypeOK, world, position, once
  <1>2. UNCHANGED <<position, once, round>>
    BY DEF LookUpExtra, TakeExtra, RefreshPlaylist, ReadMtime, display
  <1>3. QED
    BY <1>1, <1>2, ReadingKeeps

LEMMA UpdateKeeps == ASSUME IInv, UpdatePlaylist PROVE IInv'
  <1>0. TypeOK /\ db \in SnapshotType
    BY SchedulerAssumption DEF IInv, TypeOK
  <1>1. PICK q \in Orders(db) :
          /\ \/ KeepsPlayThrough(db) /\ UNCHANGED <<order, counter, index>>
             \/ NothingChanged(db, q) /\ UNCHANGED <<order, counter, index>>
             \/ order' = q /\ counter' = 0 /\ index' = NewIndex(q)
    BY DEF UpdatePlaylist
  <1>2. q \in Seq(Occ) /\ IsOrderOf(q, db.list) /\ Len(q) \in Nat
    BY <1>0, OrdersAreLists
  <1>3. loaded' = db /\ deadline' = NewDeadline(db) /\ SyncPlayOnceState(db)
    BY DEF UpdatePlaylist
  <1>4. order' \in Seq(Occ) /\ IsOrderOf(order', db.list)
    BY <1>0, <1>1, <1>2
    DEF TypeOK, KeepsPlayThrough, SameMembership, NothingChanged
  <1>5. index' \in Nat /\ (index' < Len(order') \/ index' = 0)
    <2>1. NewIndex(q) \in Nat /\ (NewIndex(q) < Len(q) \/ NewIndex(q) = 0)
      BY <1>0, <1>2, ModBounds DEF NewIndex, TypeOK
    <2>2. QED
      BY <1>0, <1>1, <2>1 DEF TypeOK
  <1>6. counter' \in 0..ReshuffleAfter
    BY <1>0, <1>1, SchedulerAssumption DEF TypeOK
  <1>7. deadline' \in Nat \cup {None}
    BY <1>0, <1>3, SchedulerAssumption DEF NewDeadline, TypeOK
  <1>8. /\ members' = MembersOf(db)
        /\ played' = [p \in Playlist |->
                        IF MembersOf(db)[p] # members[p] THEN {}
                        ELSE played[p]]
    BY <1>3 DEF SyncPlayOnceState
  <1>9. /\ members' \in [Playlist -> SUBSET Occ]
        /\ played' \in [Playlist -> SUBSET Occ]
    BY <1>0, <1>8 DEF MembersOf, TypeOK
  <1>10. /\ round' = IF db = loaded THEN round ELSE {}
         /\ evaluatedAt' = clock /\ pc' \in {"start", "walk"}
         /\ UNCHANGED <<world, current, shown, slot, lookup, mode, reverse,
                        extra, lastMtime>>
    BY DEF UpdatePlaylist
  <1>11. TypeOK'
    BY <1>0, <1>3, <1>4, <1>5, <1>6, <1>7, <1>9, <1>10 DEF TypeOK, world
  <1>12. members' = MembersOf(loaded)'
    BY <1>3, <1>8 DEF MembersOf
  <1>13. ShownIsPlayed'
    <2>1. CASE db = loaded
      <3>1. played' = played
        BY <1>0, <1>8, <2>1 DEF IInv, TypeOK
      <3>2. QED
        BY <1>3, <1>10, <2>1, <3>1 DEF IInv, ShownIsPlayed
    <2>2. CASE db # loaded
      BY <1>10, <2>2 DEF ShownIsPlayed
    <2>3. QED
      BY <2>1, <2>2
  <1>14. QED
    BY <1>11, <1>12, <1>13 DEF IInv

LEMMA NothingShownKeeps ==
    ASSUME IInv, EmptyPlaylist \/ NothingLeftToPlay
    PROVE  IInv'
  <1>1. /\ index' \in Nat /\ (index' < Len(order) \/ index' = 0)
        /\ counter' \in 0..ReshuffleAfter
    <2>1. CASE EmptyPlaylist
      BY <2>1 DEF EmptyPlaylist, position, IInv, TypeOK
    <2>2. CASE NothingLeftToPlay
      <3>1. Len(order) \in Nat /\ Len(order) > 0
        BY <2>2 DEF NothingLeftToPlay, IInv, TypeOK
      <3>2. QED
        BY <2>2, <3>1, PositionsAreListed, CountCycleType
        DEF NothingLeftToPlay, IInv
    <2>3. QED
      BY <2>1, <2>2
  <1>2. /\ UNCHANGED <<world, order, loaded, deadline, evaluatedAt, once, round,
                       lookup, mode, extra, lastMtime>>
        /\ current' = NoAsset /\ shown' = NoAsset /\ slot' = NoOcc
        /\ pc' = "start" /\ reverse' \in BOOLEAN
    BY DEF EmptyPlaylist, NothingLeftToPlay, ReturnNone, position, IInv, TypeOK
  <1>3. TypeOK'
    BY <1>1, <1>2 DEF IInv, TypeOK, world, once
  <1>4. QED
    BY <1>2, <1>3 DEF IInv, ShownIsPlayed, MembersOf, once

LEMMA ShowKeeps == ASSUME IInv, ShowNext PROVE IInv'
  <1>0. TypeOK /\ Len(order) \in Nat
    BY DEF IInv, TypeOK
  <1>1. PICK k \in 0..(Len(order) - 1) : BreaksAt(k) /\ Show(k)
    BY DEF ShowNext
  <1>2. Len(order) > 0 /\ k \in Nat
    BY <1>0, <1>1
  <1>3. PICK o \in Occ : o = Candidate(k)
    BY <1>0, <1>2, PositionsAreListed
  <1>4. /\ index' \in 0..(Len(order) - 1) /\ counter' \in 0..ReshuffleAfter
        /\ current' = AssetOf[o] /\ shown' = AssetOf[o] /\ slot' = o
        /\ round' = round \cup {o} /\ MarkPlayed(o)
    BY <1>0, <1>1, <1>2, <1>3, PositionsAreListed, CountCycleType DEF Show
  <1>5. /\ reverse' = FALSE /\ pc' = "start"
        /\ UNCHANGED <<world, order, loaded, deadline, evaluatedAt, members,
                       lookup, mode, extra, lastMtime>>
    BY DEF ShowNext
  <1>6. played' \in [Playlist -> SUBSET Occ]
    BY <1>0, <1>4 DEF MarkPlayed, TypeOK
  <1>7. TypeOK'
    <2>1. AssetOf[o] \in Asset
      BY SchedulerAssumption
    <2>2. index' \in Nat /\ index' < Len(order) /\ round' \subseteq Occ
      BY <1>0, <1>4 DEF TypeOK
    <2>3. QED
      BY <1>0, <1>4, <1>5, <1>6, <2>1, <2>2 DEF TypeOK, world
  <1>8. ShownIsPlayed'
    <2> SUFFICES ASSUME NEW x \in round', NEW p \in loaded.once[x]
                 PROVE  x \in played'[p]
      BY <1>5 DEF ShownIsPlayed
    <2>1. x \in Occ /\ loaded.once[x] \subseteq Playlist
      BY <1>0, <1>4 DEF TypeOK, SnapshotType
    <2>2. played'[p] = IF p \in loaded.once[o] THEN played[p] \cup {o}
                       ELSE played[p]
      BY <1>4, <2>1 DEF MarkPlayed
    <2>3. CASE x = o
      BY <2>2, <2>3
    <2>4. CASE x \in round
      BY <2>2, <2>4 DEF IInv, ShownIsPlayed
    <2>5. QED
      BY <1>4, <2>3, <2>4
  <1>9. QED
    BY <1>5, <1>7, <1>8 DEF IInv, MembersOf

LEMMA SchedulerInvariant == Spec => []IInv
  <1>1. IInv /\ [Next]_vars => IInv'
    <2> SUFFICES ASSUME IInv, [Next]_vars PROVE IInv'
      OBVIOUS
    <2>1. CASE UNCHANGED vars
      BY <2>1 DEF vars, world, position, once, display, thread, IInv, TypeOK,
                  ShownIsPlayed, MembersOf
    <2>2. CASE Next
      BY <2>2, EnvironmentKeeps, LookingKeeps, UpdateKeeps, NothingShownKeeps,
         ShowKeeps DEF Next, GetNextAsset
    <2>3. QED
      BY <2>1, <2>2
  <1>2. QED
    BY <1>1, InitIInv, PTL DEF Spec

\* The main thread stays inside its list: order and index always belong to the
\* evaluation it loaded, whatever is written, flips or is commanded meanwhile.
THEOREM SchedulerTypeOK == Spec => []TypeOK
  <1>1. IInv => TypeOK
    BY DEF IInv
  <1>2. QED
    BY <1>1, SchedulerInvariant, PTL

\* A repeat=False occurrence is shown once while its evaluation stands, for any
\* playlists and evaluations, and any refreshes, reshuffles, jumps and
\* "previous" commands in between.
THEOREM OnceMeansOnce == Spec => PlaysOnce
  <1> DEFINE ShowsAgain == pc = "walk" /\ pc' = "start" /\ slot' # NoOcc
                             /\ loaded.once[slot'] # {} /\ slot' \in round
  <1>1. IInv /\ [Next]_vars => [~ShowsAgain]_vars
    <2> SUFFICES ASSUME IInv, Next, ShowsAgain PROVE FALSE
      OBVIOUS
    <2>1. ShowNext
      BY DEF Next, GetNextAsset, LookUpExtra, TakeExtra, RefreshPlaylist,
             ReadMtime, UpdatePlaylist, EmptyPlaylist, NothingLeftToPlay,
             ReturnNone, Environment, Write, WindowFlip, Tick, ToggleShuffle,
             Previous, NavigateToAsset, thread
    <2>2. PICK k \in 0..(Len(order) - 1) : BreaksAt(k) /\ Show(k)
      BY <2>1 DEF ShowNext
    <2>3. slot' = Candidate(k) /\ ~PlayedOut(slot')
      BY <2>2 DEF Show, BreaksAt
    <2>4. PICK p \in loaded.once[slot'] : TRUE
      OBVIOUS
    <2>5. QED
      BY <2>3, <2>4 DEF PlayedOut, IInv, ShownIsPlayed
  <1>2. [~ShowsAgain]_vars
          => [(pc = "walk" /\ pc' = "start" /\ slot' # NoOcc
                 /\ loaded.once[slot'] # {}) => slot' \notin round]_vars
    OBVIOUS
  <1>3. QED
    BY <1>1, <1>2, SchedulerInvariant, PTL DEF Spec, PlaysOnce

-----------------------------------------------------------------------------
(* What changes after an evaluation is noticed. *)

\* File times are never ahead of the clock, the one on record was read before
\* the rows were, and an evaluation that windows can change has its deadline.
TimesInOrder ==
    /\ mtime <= clock /\ lastMtime <= mtime /\ evaluatedAt <= clock
    /\ pc # "generate" => lastMtime <= evaluatedAt
    /\ loaded.windowed => deadline = evaluatedAt + Cap

NoticeInv == TimesInOrder /\ DriftIsNoticed

LEMMA InitNotices == Init => NoticeInv
  BY DEF Init, NoticeInv, TimesInOrder, DriftIsNoticed, DatabaseModified,
         EmptySnapshot

\* A write in a tick after the one of the file time on record shows in it.
LEMMA WriteIsNoticed ==
    ASSUME TypeOK, NoticeInv, NEW s \in Snapshots, Write(s)
    PROVE  NoticeInv'
  <1>1. /\ mtime' = clock /\ clock' = clock
        /\ UNCHANGED <<position, thread, lastMtime>>
    BY DEF Write
  <1>2. TimesInOrder'
    BY <1>1 DEF NoticeInv, TimesInOrder, TypeOK, position, thread
  <1>3. DriftIsNoticed'
    BY <1>1 DEF NoticeInv, TimesInOrder, DriftIsNoticed, DatabaseModified,
                TypeOK, position, thread
  <1>4. QED
    BY <1>2, <1>3 DEF NoticeInv

\* A window that opens or closes writes nothing, but the deadline is pending.
LEMMA FlipIsNoticed ==
    ASSUME TypeOK, NoticeInv, NEW s \in Snapshots, WindowFlip(s)
    PROVE  NoticeInv'
  <1>1. UNCHANGED <<clock, mtime, position, thread, lastMtime>> /\ db.windowed
    BY DEF WindowFlip
  <1>2. TimesInOrder'
    BY <1>1 DEF NoticeInv, TimesInOrder, position, thread
  <1>3. DriftIsNoticed'
    <2>1. CASE loaded = db
      <3>1. deadline = evaluatedAt + Cap /\ evaluatedAt + Cap # None
        BY <1>1, <2>1, SchedulerAssumption
        DEF NoticeInv, TimesInOrder, TypeOK, None
      <3>2. QED
        BY <1>1, <3>1, SchedulerAssumption
        DEF DriftIsNoticed, TypeOK, position, thread
    <2>2. CASE loaded # db
      BY <1>1, <2>2
      DEF NoticeInv, DriftIsNoticed, DatabaseModified, position, thread
    <2>3. QED
      BY <2>1, <2>2
  <1>4. QED
    BY <1>2, <1>3 DEF NoticeInv

LEMMA EnvironmentIsNoticed ==
    ASSUME TypeOK, NoticeInv, Environment
    PROVE  NoticeInv'
  <1>1. CASE \E s \in Snapshots : Write(s)
    BY <1>1, WriteIsNoticed
  <1>2. CASE \E s \in Snapshots : WindowFlip(s)
    BY <1>2, FlipIsNoticed
  <1>3. CASE Tick \/ ToggleShuffle \/ Previous
               \/ \E a \in Asset : NavigateToAsset(a)
    <2>1. /\ clock' \in {clock, clock + 1}
          /\ UNCHANGED <<db, mtime, position, thread, lastMtime>>
      BY <1>3 DEF Tick, ToggleShuffle, Previous, NavigateToAsset
    <2>2. TimesInOrder'
      BY <2>1 DEF NoticeInv, TimesInOrder, TypeOK, position, thread
    <2>3. DriftIsNoticed'
      BY <2>1 DEF NoticeInv, DriftIsNoticed, DatabaseModified, position, thread
    <2>4. QED
      BY <2>2, <2>3 DEF NoticeInv
  <1>4. QED
    BY <1>1, <1>2, <1>3 DEF Environment

\* The file time is read before the rows: what is written in between is in the
\* rows, and shows in the file time once more.
LEMMA ThreadNotices ==
    ASSUME TypeOK, NoticeInv, GetNextAsset
    PROVE  NoticeInv'
  <1>1. CASE ReadMtime
    <2>1. /\ lastMtime' = mtime /\ pc' = "generate"
          /\ UNCHANGED <<world, position>>
      BY <1>1 DEF ReadMtime
    <2>2. QED
      BY <2>1 DEF NoticeInv, TimesInOrder, DriftIsNoticed, TypeOK, world,
                  position
  <1>2. CASE UpdatePlaylist
    <2>1. /\ pc = "generate" /\ loaded' = db /\ deadline' = NewDeadline(db)
          /\ evaluatedAt' = clock /\ UNCHANGED <<world, lastMtime>>
      BY <1>2 DEF UpdatePlaylist
    <2>2. TimesInOrder'
      BY <2>1 DEF NoticeInv, TimesInOrder, TypeOK, NewDeadline, world
    <2>3. DriftIsNoticed'
      BY <2>1 DEF DriftIsNoticed, world
    <2>4. QED
      BY <2>2, <2>3 DEF NoticeInv
  <1>3. CASE GetNextAsset /\ ~ReadMtime /\ ~UpdatePlaylist
    <2>1. /\ UNCHANGED <<world, loaded, deadline, evaluatedAt, lastMtime>>
          /\ pc # "generate"
      BY <1>3 DEF GetNextAsset, LookUpExtra, TakeExtra, RefreshPlaylist,
                  EmptyPlaylist, NothingLeftToPlay, ShowNext, position
    <2>2. TimesInOrder'
      BY <2>1 DEF NoticeInv, TimesInOrder, world
    <2>3. DriftIsNoticed'
      BY <2>1 DEF NoticeInv, DriftIsNoticed, DatabaseModified, world
    <2>4. QED
      BY <2>2, <2>3 DEF NoticeInv
  <1>4. QED
    BY <1>1, <1>2, <1>3

\* For any evaluations, writes and windows, the list in memory is the database's
\* own, or the refresh that replaces it is due: a newer file time, or a deadline
\* at most Cap after the evaluation.  Only a write in the very tick of the file
\* time on record escapes.
THEOREM DriftAlwaysNoticed == Spec => []DriftIsNoticed
  <1>1. TypeOK /\ NoticeInv /\ [Next]_vars => NoticeInv'
    <2> SUFFICES ASSUME TypeOK, NoticeInv, [Next]_vars PROVE NoticeInv'
      OBVIOUS
    <2>1. CASE UNCHANGED vars
      BY <2>1 DEF vars, world, position, thread, NoticeInv, TimesInOrder,
                  DriftIsNoticed, DatabaseModified
    <2>2. CASE Next
      BY <2>2, EnvironmentIsNoticed, ThreadNotices DEF Next
    <2>3. QED
      BY <2>1, <2>2
  <1>2. NoticeInv => DriftIsNoticed
    BY DEF NoticeInv
  <1>3. QED
    BY <1>1, <1>2, InitNotices, SchedulerTypeOK, PTL DEF Spec
=============================================================================

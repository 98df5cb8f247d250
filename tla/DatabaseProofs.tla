--------------------------- MODULE DatabaseProofs ---------------------------
(***************************************************************************)
(* Proofs about the database: what its rows say is to be played, its file  *)
(* under backup and restore, and the account it keeps beside anthias.conf. *)
(*                                                                         *)
(* An evaluation, for every table, length of day, depth and cap: a play    *)
(* window means what it says, and an answer without a deadline stays true. *)
(* Nothing is needed of the expansion except that it is a function of the  *)
(* rows; that it lists the right slots is checked, not proved.             *)
(*                                                                         *)
(* A backup and a restore, for any number of commits, kills and failures:  *)
(* until a restore writes over the file, and again once it has removed the *)
(* log of the old one with nobody looking, file and log belong together:   *)
(* the log holds what the file has not got, whoever is connected writes to *)
(* the log that has the name, and no commit is lost by copying the log     *)
(* back.  In between, the database is replaced, and what happens to        *)
(* somebody connected then is written off as disturbed.  What was committed *)
(* when a download was asked for therefore stays in file and log until the *)
(* snapshot, and in the archive from then on.                              *)
(*                                                                         *)
(* The account, for any number of threads, names, passwords and failures:  *)
(* once the database is migrated, no copy of the settings asks for a login *)
(* before there is an account: not the file, not the dictionary, and not   *)
(* what a thread has read and has still to assign or to write.  A request  *)
(* asks for one only behind the step that found or made the account;       *)
(* accounts never go; and the migration, the one step that takes over      *)
(* settings older than the account, leaves the flag only where its         *)
(* transaction holds a row.                                                *)
(***************************************************************************)
EXTENDS PlaylistEval, AccountPromise, BackupPromise, TLAPS

CONSTANTS
    MaxCommits, MaxFaults,              \* of Backup
    Thread, Name, Word, None, MaxCuts   \* of OperatorAccount

VARIABLES
    orphan, conn, produce, error, recover, carried, replaced, ok, faults,
    creds, tx, req, cuts

File == INSTANCE Backup
Account == INSTANCE OperatorAccount WITH faults <- cuts, MaxFaults <- MaxCuts

-----------------------------------------------------------------------------
(* What an evaluation says of the rows. *)

\* The clock stays a clock.
ClockOK ==
    /\ table \in Inputs
    /\ day \in AllDays
    /\ time \in Time

LEMMA ClockInvariant == EvalAssumption => (Spec => []ClockOK)
<1> SUFFICES ASSUME EvalAssumption PROVE Spec => []ClockOK
    OBVIOUS
<1> USE DEF EvalAssumption, AllDays, Time
<1>1. Init => ClockOK
    BY DEF Init, ClockOK
<1>2. ClockOK /\ [Next]_vars => ClockOK'
    <2> SUFFICES ASSUME ClockOK, [Next]_vars PROVE ClockOK'
        OBVIOUS
    <2>1. CASE Poll
        BY <2>1 DEF Poll, ClockOK
    <2>2. CASE Tick
        BY <2>2 DEF Tick, ClockOK
    <2>3. CASE UNCHANGED vars
        BY <2>3 DEF vars, ClockOK
    <2> QED BY <2>1, <2>2, <2>3 DEF Next
<1> QED BY <1>1, <1>2, PTL DEF Spec

-----------------------------------------------------------------------------
LEMMA PlayDaysAreDays ==
    ASSUME NEW w
    PROVE GetPlayDays(w) \subseteq AllDays
BY DEF GetPlayDays, AllDays

(* A window opens on its days only, so what is open at a moment opened     *)
(* that day or, overnight, the day before.                                 *)
LEMMA WindowMeaning ==
    ASSUME EvalAssumption, NEW w \in Window,
           NEW d \in AllDays, NEW t \in Time
    PROVE MatchesPlayWindow(w, d, t) <=> InWindow(w, d, t)
<1> DEFINE D == GetPlayDays(w)
<1> DEFINE Open(e) ==
      IF HasTimes(w)
      THEN /\ w.from <= e
           /\ e < (IF w.from <= w.to THEN w.to ELSE w.to + DayLength)
      ELSE e < DayLength
<1>1. D \subseteq AllDays
    BY PlayDaysAreDays
<1>2. /\ DayLength \in Nat \ {0}
      /\ t \in Nat /\ t < DayLength
      /\ w.from \in Int /\ w.to \in Int /\ w.from < DayLength /\ w.to < DayLength
    BY DEF EvalAssumption, Window, Time, NoTime
<1>3. HasTimes(w) => w.from \in Nat /\ w.to \in Nat
    BY DEF EvalAssumption, HasTimes, Window, Time, NoTime
<1>4. InWindow(w, d, t) <=>
        \/ d \in D /\ Open(t)
        \/ Yesterday(d) \in D /\ Open(t + DayLength)
    <2>1. \A s \in AllDays : d = (s % 7) + 1 <=> s = Yesterday(d)
        BY DEF AllDays, Yesterday
    <2>2. InWindow(w, d, t) <=>
            \E s \in D : \/ d = s /\ Open(t)
                         \/ d = (s % 7) + 1 /\ Open(t + DayLength)
        BY DEF InWindow
    <2> QED BY <1>1, <2>1, <2>2
<1> HIDE DEF D
<1>5. CASE ~HasTimes(w)
    <2>1. Open(t) /\ ~Open(t + DayLength)
        BY <1>2, <1>5
    <2> QED BY <1>4, <1>5, <2>1 DEF MatchesPlayWindow, D
<1>6. CASE HasTimes(w) /\ w.from <= w.to
    <2>1. /\ Open(t) <=> w.from <= t /\ t < w.to
          /\ ~Open(t + DayLength)
        BY <1>2, <1>3, <1>6
    <2> QED BY <1>4, <1>6, <2>1 DEF MatchesPlayWindow, D
<1>7. CASE HasTimes(w) /\ ~(w.from <= w.to)
    <2>1. /\ Open(t) <=> t >= w.from
          /\ Open(t + DayLength) <=> t < w.to
          /\ t < w.to => t < w.from
        BY <1>2, <1>3, <1>7
    <2> QED BY <1>4, <1>7, <2>1 DEF MatchesPlayWindow, D
<1> QED BY <1>5, <1>6, <1>7

(* PlayWindowMixin._matches_play_window() agrees with the meaning of a     *)
(* window at every moment, for assets and playlists alike.                 *)
THEOREM WindowsAreExact ==
    EvalAssumption => (Spec => []WindowsMeanWhatTheySay)
<1> SUFFICES ASSUME EvalAssumption PROVE Spec => []WindowsMeanWhatTheySay
    OBVIOUS
<1>1. ClockOK => WindowsMeanWhatTheySay
    <2> SUFFICES ASSUME ClockOK, NEW x \in Row
                 PROVE MatchesPlayWindow(table.window[x], day, time)
                       <=> InWindow(table.window[x], day, time)
        BY DEF WindowsMeanWhatTheySay, WindowsMeanWhatTheySay
    <2>1. table \in Table
        BY DEF EvalAssumption, ClockOK
    <2>2. table.window[x] \in Window
        BY <2>1 DEF Table
    <2> QED BY <2>2, WindowMeaning DEF ClockOK
<1> QED BY <1>1, ClockInvariant, PTL

-----------------------------------------------------------------------------
(* A row without a filter is admitted always or never.                     *)
LEMMA NoFilterNoFlip ==
    ASSUME NEW w, ~HasWindowFilter(w), NEW d \in AllDays, NEW t
    PROVE MatchesPlayWindow(w, d, t)
BY DEF HasWindowFilter, MatchesPlayWindow

(* When compute_deadline() finds no boundary, the active slots are the     *)
(* same at any two moments.                                                *)
LEMMA NoBoundaryNoFlip ==
    ASSUME EvalAssumption,
           NEW in, ComputeDeadline(in) = NoDeadline,
           NEW d \in AllDays, NEW t, NEW e \in AllDays, NEW u
    PROVE ActiveOccurrences(in, d, t) = ActiveOccurrences(in, e, u)
<1> DEFINE O == ExpandOccurrences(in)
<1> DEFINE Active(k, dd, tt) ==
      \A x \in RowsOf(O[k]) : Admits(in, x, dd, tt)
<1>1. \A k \in DOMAIN O : ~HasBoundary(in, O[k])
    BY DEF EvalAssumption, ComputeDeadline, NoDeadline
<1> HIDE DEF O
<1>2. ASSUME NEW k \in DOMAIN O
      PROVE Active(k, d, t) <=> Active(k, e, u)
    <2>1. CASE \E x \in RowsOf(O[k]) : ~in.enabled[x]
        BY <2>1 DEF Admits
    <2>2. CASE \A x \in RowsOf(O[k]) : in.enabled[x]
        <3>1. \A x \in RowsOf(O[k]) : ~HasWindowFilter(in.window[x])
            BY <1>1, <2>2 DEF HasBoundary
        <3>2. \A x \in RowsOf(O[k]) :
                Admits(in, x, d, t) /\ Admits(in, x, e, u)
            BY <2>2, <3>1, NoFilterNoFlip DEF Admits
        <3> QED BY <3>2
    <2> QED BY <2>1, <2>2
<1>3. /\ ActiveOccurrences(in, d, t) = {k \in DOMAIN O : Active(k, d, t)}
      /\ ActiveOccurrences(in, e, u) = {k \in DOMAIN O : Active(k, e, u)}
    BY DEF ActiveOccurrences, O
<1> HIDE DEF Active
<1> QED BY <1>2, <1>3

(* The strengthening: without a deadline there is no boundary in the rows. *)
NoFlipInv ==
    /\ due \in {NoDeadline} \cup 0..Cap
    /\ due = NoDeadline => ComputeDeadline(table) = NoDeadline
    /\ NoFlipWithoutDeadline

LEMMA DeadlineType ==
    ASSUME EvalAssumption, NEW in
    PROVE ComputeDeadline(in) \in {NoDeadline} \cup 0..Cap
<1>1. ComputeDeadline(in) \in {NoDeadline, Cap}
    BY DEF ComputeDeadline
<1> QED BY <1>1 DEF EvalAssumption, NoDeadline

(* The viewer, left without a deadline, holds the list a fresh evaluation  *)
(* would give it at any later moment.                                      *)
THEOREM NothingFlipsUnasked ==
    EvalAssumption => (Spec => []NoFlipWithoutDeadline)
<1> SUFFICES ASSUME EvalAssumption
             PROVE  Spec => []NoFlipWithoutDeadline
    OBVIOUS
<1>1. Init => NoFlipInv
    BY DeadlineType DEF Init, NoFlipInv, NoFlipWithoutDeadline
<1>2. NoFlipInv /\ ClockOK /\ ClockOK' /\ [Next]_vars => NoFlipInv'
    <2> SUFFICES ASSUME NoFlipInv, ClockOK, ClockOK', [Next]_vars
                 PROVE  NoFlipInv'
        OBVIOUS
    <2>1. CASE Poll
        BY <2>1, DeadlineType DEF Poll, NoFlipInv, NoFlipWithoutDeadline
    <2>2. CASE Tick
        <3>1. /\ due' \in {NoDeadline} \cup 0..Cap
              /\ (due' = NoDeadline => due = NoDeadline)
            BY <2>2 DEF EvalAssumption, Tick, NoFlipInv, NoDeadline
        <3>2. due = NoDeadline =>
                ActiveOccurrences(table, day, time)
                  = ActiveOccurrences(table, day', time')
            BY <2>2, NoBoundaryNoFlip DEF Tick, NoFlipInv, ClockOK
        <3> QED BY <2>2, <3>1, <3>2
                DEF Tick, NoFlipInv, NoFlipWithoutDeadline
    <2>3. CASE UNCHANGED vars
        BY <2>3 DEF vars, NoFlipInv, NoFlipWithoutDeadline
    <2> QED BY <2>1, <2>2, <2>3 DEF Next
<1>3. NoFlipInv => NoFlipWithoutDeadline
    BY DEF NoFlipInv, NoFlipWithoutDeadline
<1> QED BY <1>1, <1>2, <1>3, ClockInvariant, PTL DEF Spec

-----------------------------------------------------------------------------
(* The file of the database. *)

\* Whoever writes to the log by its name finds it there.
LogHasItsName ==
    /\ ~log.named => log.frames = {} /\ log.pending = {}
    /\ \A c \in File!Client : conn[c] = "named" => log.named

\* The file is ours until a restore replaces it, and nothing makes it so again.
RestoreReplaces ==
    /\ recover \in {"idle", "upload"} => main.of = {File!Ours}
    /\ replaced => recover \in {"extracted", "clear"}
    /\ replaced \/ disturbed => File!Theirs \in main.of
    /\ replaced /\ ~disturbed => File!Connected = {}

\* File and log belong together.
Together ==
    ~replaced /\ ~disturbed =>
        /\ \A c \in File!Client : conn[c] # "orphan"
        /\ log.frames \subseteq main.rows \cup log.pending
        /\ log.named => log.of \in main.of

\* How far a download has got, and where what was committed is by then.
PackedSoFar ==
    /\ floor # {} => ~replaced /\ ~disturbed
    /\ produce = "snapshot" => floor \subseteq File!Current
    /\ produce = "live" => floor \subseteq main.rows
    /\ produce = "tar" \/ archive.whole => floor \subseteq archive.rows
    /\ archive.whole => produce = "ended"
    /\ produce = "idle" => reader = "none"
    /\ produce = "ended" =>
           archive.whole \/ error \/ reader \in {"none", "gone", "aborted", "late"}

FileInv ==
    /\ File!TypeOK
    /\ LogHasItsName /\ RestoreReplaces /\ Together /\ PackedSoFar
    /\ File!DownloadHoldsCommits /\ File!CommitsSurvive
         /\ File!OldLogIsNotReplayed

-----------------------------------------------------------------------------
Settled == ~replaced /\ ~disturbed

LEMMA OursIsSettled ==
  ASSUME FileInv, main.of = {File!Ours}
  PROVE  Settled
  BY DEF FileInv, RestoreReplaces, Settled, File!Ours, File!Theirs

\* Copying a log back.
LEMMA WriteBackType ==
  ASSUME File!TypeOK, NEW l \in File!Log
  PROVE  /\ File!WriteBack(main, l) \in [of : SUBSET {File!Ours, File!Theirs},
                                    rows : SUBSET (0..MaxCommits)]
         /\ File!WriteBack(main, l).rows = main.rows \cup l.pending
         /\ File!Theirs \in main.of => File!Theirs \in File!WriteBack(main, l).of
         /\ l.pending # {} => File!WriteBack(main, l).of = main.of \cup {l.of}
         /\ l.pending = {} => File!WriteBack(main, l).of = main.of
  BY DEF File!TypeOK, File!WriteBack, File!Log

LEMMA NoLogType ==
  /\ File!NoLog \in File!Log /\ ~File!NoLog.named /\ File!NoLog.frames = {}
       /\ File!NoLog.pending = {}
  BY DEF File!NoLog, File!Log

\* Where file and log belong together, copying the log back changes what is
\* in the file, and not whose it is or what was committed.
LEMMA SettledLog ==
  ASSUME FileInv, Settled, NEW c \in File!Client, conn[c] # "none"
  PROVE  /\ conn[c] = "named" /\ File!LogOf(c) = log /\ log.named
         /\ File!WriteBack(main, log).of = main.of
         /\ main.rows \subseteq File!WriteBack(main, log).rows
         /\ log.frames \subseteq File!WriteBack(main, log).rows
  <1>1. conn[c] = "named" /\ log \in File!Log
    BY DEF FileInv, File!TypeOK, Together, Settled
  <1>2. File!LogOf(c) = log /\ log.named
    BY <1>1 DEF File!LogOf, FileInv, LogHasItsName
  <1>3. log.of \in main.of /\ log.frames \subseteq main.rows \cup log.pending
    BY <1>2 DEF FileInv, Together, Settled
  <1>4. File!WriteBack(main, log).of = main.of
    <2>1. main.of \cup {log.of} = main.of
      BY <1>3
    <2>2. \/ File!WriteBack(main, log).of = main.of \cup {log.of}
          \/ File!WriteBack(main, log).of = main.of
      BY <1>1, WriteBackType DEF FileInv
    <2>3. QED
      BY <2>1, <2>2
  <1>5. File!WriteBack(main, log).rows = main.rows \cup log.pending
    BY <1>1, WriteBackType DEF FileInv
  <1>6. QED
    BY <1>1, <1>2, <1>3, <1>4, <1>5

-----------------------------------------------------------------------------
\* What somebody does to the file leaves a download where it was.
FileFrame == <<produce, error, reader, archive, floor, replaced, carried, ok>>

LEMMA FileKeepsDownload ==
  ASSUME FileInv, UNCHANGED FileFrame, disturbed' => disturbed \/ replaced,
         Settled => main.rows \subseteq main'.rows
           /\ File!Current \subseteq File!Current'
  PROVE  PackedSoFar' /\ File!DownloadHoldsCommits'
  <1>1. floor # {} => Settled /\ ~replaced' /\ ~disturbed'
    BY DEF FileInv, PackedSoFar, Settled, FileFrame
  <1>2. PackedSoFar'
    BY <1>1 DEF FileInv, PackedSoFar, FileFrame, Settled
  <1>3. File!DownloadHoldsCommits'
    BY DEF FileInv, File!DownloadHoldsCommits, FileFrame
  <1>4. QED
    BY <1>2, <1>3

LEMMA OpensKeeps ==
  ASSUME FileInv, NEW c \in File!Client, File!Opens(c)
  PROVE  FileInv'
  <1>0. File!TypeOK
    BY DEF FileInv
  <1>1. /\ UNCHANGED <<FileFrame, main, orphan, count, faults, recover>>
        /\ conn[c] = "none" /\ conn' = [conn EXCEPT ![c] = "named"]
        /\ disturbed' = (disturbed \/ replaced)
    BY DEF File!Opens, File!Connect, File!download, FileFrame
  <1>2. \/ /\ ~log.named
           /\ log' = [File!NoLog EXCEPT !.named = TRUE,
                          !.of = IF main.of = {File!Ours}
                            THEN File!Ours ELSE File!Theirs]
        \/ log.named /\ log' = log
        \/ log.named /\ log' = [log EXCEPT !.pending = log.frames]
    BY DEF File!Opens, File!Connect
  <1>3. log \in File!Log
    BY <1>0 DEF File!TypeOK
  <1>4. /\ log' \in File!Log /\ log'.named
        /\ log'.frames = log.frames
        /\ log.frames \subseteq main.rows \cup log.pending
               => log'.frames \subseteq main.rows \cup log'.pending
        /\ \/ ~log.named /\ log'.of = IF main.of = {File!Ours}
                THEN File!Ours ELSE File!Theirs
           \/ log.named /\ log'.of = log.of
    <2>1. CASE /\ ~log.named
               /\ log' = [File!NoLog EXCEPT !.named = TRUE,
                              !.of = IF main.of = {File!Ours}
                                THEN File!Ours ELSE File!Theirs]
      <3>1. log.frames = {}
        BY <2>1 DEF FileInv, LogHasItsName
      <3>2. /\ log' \in File!Log /\ log'.named /\ log'.frames = {}
            /\ log'.of = IF main.of = {File!Ours} THEN File!Ours ELSE File!Theirs
        BY <2>1 DEF File!NoLog, File!Log
      <3>3. QED
        BY <2>1, <3>1, <3>2, NoLogType
    <2>2. CASE log.named /\ log' = log
      BY <1>3, <2>2
    <2>3. CASE log.named /\ log' = [log EXCEPT !.pending = log.frames]
      <3>1. /\ log' \in File!Log /\ log'.named /\ log'.frames = log.frames
            /\ log'.pending = log.frames /\ log'.of = log.of
        BY <1>3, <2>3 DEF File!Log
      <3>2. QED
        BY <2>3, <3>1
    <2>4. QED
      BY <1>2, <2>1, <2>2, <2>3
  <1>5. File!TypeOK'
    BY <1>0, <1>1, <1>4 DEF File!TypeOK, FileFrame
  <1>6. LogHasItsName'
    BY <1>4 DEF LogHasItsName
  <1>7. RestoreReplaces'
    BY <1>1 DEF FileInv, RestoreReplaces, FileFrame
  <1>8. ~disturbed' => Settled
    BY <1>0, <1>1 DEF Settled, File!TypeOK
  <1>9. Together'
    <2>1. SUFFICES ASSUME Settled PROVE Together'
      BY <1>8 DEF Together
    <2>2. \A d \in File!Client : conn'[d] # "orphan"
      BY <1>0, <1>1, <2>1 DEF FileInv, Together, Settled, File!TypeOK
    <2>3. log'.frames \subseteq main'.rows \cup log'.pending
      BY <1>1, <1>4, <2>1 DEF FileInv, Together, Settled
    <2>4. main.of \in {{File!Ours}, {File!Theirs}}
      BY <2>1 DEF FileInv, File!OldLogIsNotReplayed, Settled
    <2>5. log'.of \in main'.of
      BY <1>1, <1>4, <2>1, <2>4 DEF FileInv, Together, Settled
    <2>6. QED
      BY <2>2, <2>3, <2>5 DEF Together
  <1>10. File!Current' = File!Current
    BY <1>1, <1>4 DEF File!Current
  <1>11. PackedSoFar' /\ File!DownloadHoldsCommits'
    BY <1>1, <1>10, FileKeepsDownload
  <1>12. File!CommitsSurvive' /\ File!OldLogIsNotReplayed'
    BY <1>1, <1>10 DEF FileInv, File!CommitsSurvive, File!OldLogIsNotReplayed
  <1>13. QED
    BY <1>5, <1>6, <1>7, <1>9, <1>11, <1>12 DEF FileInv

\* A step of somebody connected, which keeps file and log together.
StaysTogether ==
    /\ main'.of = main.of
    /\ main.rows \subseteq main'.rows /\ File!Current \subseteq File!Current'
    /\ 1..count' \subseteq (1..count) \cup File!Current'
    /\ log'.frames \subseteq main'.rows \cup log'.pending
    /\ log'.named => log'.of \in main'.of

LEMMA ConnectedKeeps ==
  ASSUME FileInv, File!TypeOK', LogHasItsName', UNCHANGED <<FileFrame,
           disturbed>>,
         recover' = recover \/ (~replaced /\ recover' \notin {"idle", "upload"}),
         File!Connected # {},
         \A c \in File!Client : conn'[c] \in {conn[c], "none"},
         File!Theirs \in main.of => File!Theirs \in main'.of,
         Settled => StaysTogether
  PROVE  FileInv'
  <1> USE DEF FileFrame
  <1>1. main.of = {File!Ours} => Settled
    BY OursIsSettled
  <1>2. File!TypeOK /\ (~disturbed => Settled)
    BY DEF FileInv, RestoreReplaces, Settled
  <1>3. main'.of = {File!Ours} => main.of = {File!Ours}
    <2>1. ASSUME main.of # {File!Ours}, main'.of = {File!Ours} PROVE FALSE
      <3>1. CASE Settled
        BY <2>1, <3>1 DEF StaysTogether
      <3>2. CASE ~Settled
        BY <2>1, <3>2 DEF FileInv, RestoreReplaces, Settled, File!Ours,
             File!Theirs
      <3>3. QED
        BY <3>1, <3>2
    <2>2. QED
      BY <2>1
  <1>4. RestoreReplaces'
    <2>1. recover' \in {"idle", "upload"} => main'.of = {File!Ours}
      BY <1>1 DEF FileInv, RestoreReplaces, StaysTogether
    <2>2. replaced' /\ ~disturbed' => File!Connected' = {}
      BY <1>2 DEF Settled
    <2>3. QED
      BY <2>1, <2>2 DEF FileInv, RestoreReplaces
  <1>5. Together'
    BY DEF FileInv, Together, Settled, StaysTogether
  <1>6. PackedSoFar' /\ File!DownloadHoldsCommits'
    BY FileKeepsDownload DEF StaysTogether
  <1>7. File!CommitsSurvive'
    BY <1>1, <1>3 DEF FileInv, File!CommitsSurvive, StaysTogether
  <1>8. File!OldLogIsNotReplayed'
    BY <1>2 DEF FileInv, File!OldLogIsNotReplayed, StaysTogether
  <1>9. QED
    BY <1>4, <1>5, <1>6, <1>7, <1>8 DEF FileInv

LEMMA DisconnectStep ==
  ASSUME FileInv, NEW c \in File!Client, conn[c] # "none", File!Disconnect(c)
  PROVE  /\ main' \in [of : SUBSET {File!Ours, File!Theirs}, rows : SUBSET (0..MaxCommits)]
         /\ log' \in File!Log /\ orphan' \in File!Log /\ count' = count
         /\ conn' = [conn EXCEPT ![c] = "none"]
         /\ \A d \in File!Client : conn'[d] \in {conn[d], "none"}
         /\ LogHasItsName'
         /\ File!Theirs \in main.of => File!Theirs \in main'.of
         /\ Settled => StaysTogether
  <1>0. File!TypeOK
    BY DEF FileInv
  <1>1. /\ count' = count /\ conn' = [conn EXCEPT ![c] = "none"]
        /\ \A d \in File!Client : conn'[d] \in {conn[d], "none"}
    BY <1>0 DEF File!Disconnect, File!TypeOK
  <1>2. CASE File!Connected = {c}
    <2>1. main' = File!WriteBack(main, File!LogOf(c)) /\ log' = File!NoLog
            /\ orphan' = File!NoLog
      BY <1>2 DEF File!Disconnect
    <2>2. File!LogOf(c) \in File!Log
      BY <1>0 DEF File!LogOf, File!TypeOK
    <2>3. \A d \in File!Client : conn'[d] = "none"
      BY <1>0, <1>1, <1>2 DEF File!Connected, File!TypeOK
    <2>4. LogHasItsName'
      BY <2>1, <2>3 DEF LogHasItsName, File!NoLog
    <2>5. Settled => StaysTogether
      <3>1. SUFFICES ASSUME Settled PROVE StaysTogether
        OBVIOUS
      <3>2. File!LogOf(c) = log
        BY <3>1, SettledLog
      <3>3. /\ main'.of = main.of /\ main.rows \subseteq main'.rows
            /\ log.frames \subseteq main'.rows
        BY <2>1, <3>1, <3>2, SettledLog
      <3>4. log'.frames = {} /\ ~log'.named
        BY <2>1, NoLogType
      <3>5. QED
        BY <1>1, <3>3, <3>4 DEF StaysTogether, File!Current
    <2>6. QED
      BY <1>0, <1>1, <2>1, <2>2, <2>4, <2>5, WriteBackType, NoLogType
  <1>3. CASE File!Connected # {c}
    <2>1. /\ UNCHANGED <<main, log>>
          /\ orphan' = orphan \/ orphan' = File!NoLog
      BY <1>3 DEF File!Disconnect
    <2>2. LogHasItsName'
      BY <1>1, <2>1 DEF FileInv, LogHasItsName, File!NoLog
    <2>3. Settled => StaysTogether
      BY <1>1, <2>1 DEF FileInv, Together, Settled, StaysTogether, File!Current
    <2>4. QED
      BY <1>0, <1>1, <2>1, <2>2, <2>3, NoLogType DEF File!TypeOK
  <1>4. QED
    BY <1>2, <1>3

LEMMA ClosesKeeps ==
  ASSUME FileInv, NEW c \in File!Client, File!Closes(c)
  PROVE  FileInv'
  <1>0. File!TypeOK
    BY DEF FileInv
  <1>1. UNCHANGED <<FileFrame, recover, disturbed, faults>>
          /\ conn[c] # "none" /\ File!Disconnect(c)
    BY DEF File!Closes, File!download, File!restore, FileFrame
  <1>2. File!TypeOK'
    BY <1>0, <1>1, DisconnectStep DEF File!TypeOK, FileFrame
  <1>3. File!Connected # {}
    BY <1>1 DEF File!Connected
  <1>4. QED
    BY <1>1, <1>2, <1>3, DisconnectStep, ConnectedKeeps

LEMMA CommitsKeeps ==
  ASSUME File!BackupAssumption, FileInv, NEW c \in File!Client, File!Commits(c)
  PROVE  FileInv'
  <1>0. File!TypeOK
    BY DEF FileInv
  <1> DEFINE With(l) == [l EXCEPT !.frames = @ \cup {count + 1},
                                  !.pending = @ \cup {count + 1}]
  <1>1. /\ UNCHANGED <<FileFrame, recover, disturbed, faults, main, conn>>
        /\ conn[c] # "none" /\ count < MaxCommits /\ count' = count + 1
        /\ \/ conn[c] = "orphan" /\ orphan' = With(orphan) /\ UNCHANGED log
           \/ conn[c] # "orphan" /\ log' = With(log) /\ UNCHANGED orphan
    BY DEF File!Commits, File!download, File!restore, FileFrame
  <1>2. count \in Nat /\ count + 1 \in 0..MaxCommits
    BY <1>0, <1>1 DEF File!TypeOK, File!BackupAssumption
  <1>3. ASSUME NEW l \in File!Log
        PROVE  /\ With(l) \in File!Log /\ With(l).named = l.named
                    /\ With(l).of = l.of
               /\ With(l).frames = l.frames \cup {count + 1}
               /\ With(l).pending = l.pending \cup {count + 1}
    BY <1>2 DEF File!Log
  <1> HIDE DEF With
  <1>4. log \in File!Log /\ orphan \in File!Log
    BY <1>0 DEF File!TypeOK
  <1>5. File!TypeOK'
    BY <1>0, <1>1, <1>2, <1>3, <1>4 DEF File!TypeOK, FileFrame
  <1>6. LogHasItsName'
    <2>1. CASE conn[c] = "orphan"
      BY <1>1, <2>1 DEF FileInv, LogHasItsName, File!NoLog
    <2>2. CASE conn[c] # "orphan"
      <3>1. log.named
        BY <1>0, <1>1, <2>2 DEF FileInv, LogHasItsName, File!TypeOK
      <3>2. log'.named
        BY <1>1, <1>3, <1>4, <2>2, <3>1
      <3>3. QED
        BY <3>2 DEF LogHasItsName
    <2>3. QED
      BY <2>1, <2>2
  <1>7. Settled => StaysTogether
    <2>1. SUFFICES ASSUME Settled PROVE StaysTogether
      OBVIOUS
    <2>2. conn[c] = "named" /\ log.named /\ log' = With(log)
      BY <1>1, <2>1, SettledLog
    <2>3. /\ log'.of = log.of
          /\ log'.frames = log.frames \cup {count + 1}
          /\ log'.pending = log.pending \cup {count + 1}
      BY <1>3, <1>4, <2>2
    <2>4. log.of \in main.of /\ log.frames \subseteq main.rows \cup log.pending
      BY <2>1, <2>2 DEF FileInv, Together, Settled
    <2>5. 1..count' \subseteq (1..count) \cup File!Current'
      <3>1. 1..(count + 1) \subseteq (1..count) \cup {count + 1}
        BY <1>2
      <3>2. QED
        BY <1>1, <2>3, <3>1 DEF File!Current
    <2>6. File!Current \subseteq File!Current'
      BY <1>1, <2>3 DEF File!Current
    <2>7. QED
      BY <1>1, <2>3, <2>4, <2>5, <2>6 DEF StaysTogether
  <1>8. /\ File!Connected # {}
        /\ \A d \in File!Client : conn'[d] \in {conn[d], "none"}
    BY <1>1 DEF File!Connected
  <1>9. QED
    BY <1>1, <1>5, <1>6, <1>7, <1>8, ConnectedKeeps

LEMMA CheckpointsKeeps ==
  ASSUME FileInv, NEW c \in File!Client, File!Checkpoints(c)
  PROVE  FileInv'
  <1>0. File!TypeOK
    BY DEF FileInv
  <1>1. /\ UNCHANGED <<FileFrame, recover, disturbed, faults, conn, count>>
        /\ conn[c] # "none" /\ main' = File!WriteBack(main, File!LogOf(c))
        /\ \/ UNCHANGED log /\ orphan' = [orphan EXCEPT !.pending = {}]
              /\ conn[c] = "orphan"
           \/ UNCHANGED orphan /\ log' = [log EXCEPT !.pending = {}]
    BY DEF File!Checkpoints, File!download, File!restore, FileFrame
  <1>2. File!LogOf(c) \in File!Log /\ log \in File!Log /\ orphan \in File!Log
    BY <1>0 DEF File!LogOf, File!TypeOK
  <1>3. /\ log' \in File!Log /\ orphan' \in File!Log
        /\ log'.named = log.named /\ log'.frames = log.frames /\ log'.of = log.of
    BY <1>1, <1>2 DEF File!Log
  <1>4. main' \in [of : SUBSET {File!Ours, File!Theirs}, rows : SUBSET (0..MaxCommits)]
    BY <1>0, <1>1, <1>2, WriteBackType
  <1>5. File!TypeOK'
    BY <1>0, <1>1, <1>3, <1>4 DEF File!TypeOK, FileFrame
  <1>6. LogHasItsName'
    <2>1. log'.pending = log.pending \/ log'.pending = {}
      BY <1>1, <1>2 DEF File!Log
    <2>2. QED
      BY <1>1, <1>3, <2>1 DEF FileInv, LogHasItsName
  <1>7. Settled => StaysTogether
    <2>1. SUFFICES ASSUME Settled PROVE StaysTogether
      OBVIOUS
    <2>2. File!LogOf(c) = log
      BY <1>1, <2>1, SettledLog
    <2>3. /\ main'.of = main.of /\ main.rows \subseteq main'.rows
          /\ log.frames \subseteq main'.rows
      BY <1>1, <2>1, <2>2, SettledLog
    <2>4. log.named => log.of \in main.of
      BY <2>1 DEF FileInv, Together, Settled
    <2>5. QED
      BY <1>1, <1>3, <2>3, <2>4 DEF StaysTogether, File!Current
  <1>8. /\ File!Connected # {}
        /\ File!Theirs \in main.of => File!Theirs \in main'.of
        /\ \A d \in File!Client : conn'[d] \in {conn[d], "none"}
    BY <1>0, <1>1, <1>2, WriteBackType DEF File!Connected
  <1>9. QED
    BY <1>0, <1>1, <1>2, <1>5, <1>6, <1>7, <1>8, WriteBackType, ConnectedKeeps

LEMMA OtherKilledKeeps ==
  ASSUME File!BackupAssumption, FileInv, File!OtherKilled
  PROVE  FileInv'
  <1>0. File!TypeOK
    BY DEF FileInv
  <1>1. /\ UNCHANGED <<FileFrame, recover, disturbed, main, log, count>>
        /\ conn["other"] # "none" /\ conn' = [conn EXCEPT !["other"] = "none"]
        /\ orphan' = orphan \/ orphan' = File!NoLog
    BY DEF File!OtherKilled, File!download, File!restore, FileFrame
  <1>2. faults' \in 0..MaxFaults
    BY <1>0 DEF File!OtherKilled, File!Fault, File!TypeOK, File!BackupAssumption
  <1>3. /\ conn' \in [File!Client -> {"none", "named", "orphan"}]
        /\ \A d \in File!Client : conn'[d] \in {conn[d], "none"}
    BY <1>0, <1>1 DEF File!TypeOK
  <1>4. File!TypeOK'
    BY <1>0, <1>1, <1>2, <1>3, NoLogType DEF File!TypeOK, FileFrame
  <1>5. LogHasItsName'
    BY <1>1, <1>3 DEF FileInv, LogHasItsName
  <1>6. Settled => StaysTogether
    BY <1>1 DEF FileInv, Together, Settled, StaysTogether, File!Current
  <1>7. File!Connected # {}
    BY <1>1 DEF File!Connected, File!Client
  <1>8. QED
    BY <1>1, <1>3, <1>4, <1>5, <1>6, <1>7, ConnectedKeeps

LEMMA ServerKilledKeeps ==
  ASSUME File!BackupAssumption, FileInv, File!ServerKilled
  PROVE  FileInv'
  <1>0. File!TypeOK
    BY DEF FileInv
  <1>1. /\ UNCHANGED <<main, log, count, archive, floor, carried, ok>>
        /\ conn' = [conn EXCEPT !["snapshot"] = "none", !["recover"] = "none"]
        /\ orphan' = orphan \/ orphan' = File!NoLog
        /\ produce' = "ended" /\ error' = FALSE
        /\ reader' = IF reader \in {"none", "complete", "late"} THEN reader ELSE "aborted"
        /\ recover' = IF recover = "idle" THEN "idle" ELSE "done"
        /\ replaced' = FALSE /\ disturbed' = (disturbed \/ replaced)
    BY DEF File!ServerKilled
  <1>2. faults' \in 0..MaxFaults
    BY <1>0 DEF File!ServerKilled, File!Fault, File!TypeOK, File!BackupAssumption
  <1>3. conn' \in [File!Client -> {"none", "named", "orphan"}]
        /\ \A d \in File!Client : conn'[d] \in {conn[d], "none"}
    BY <1>0, <1>1 DEF File!TypeOK
  <1>4. File!TypeOK'
    BY <1>0, <1>1, <1>2, <1>3, NoLogType DEF File!TypeOK
  <1>5. LogHasItsName'
    BY <1>1, <1>3 DEF FileInv, LogHasItsName
  <1>6. RestoreReplaces'
    BY <1>1 DEF FileInv, RestoreReplaces
  <1>7. (~replaced' /\ ~disturbed') => (~replaced /\ ~disturbed)
    BY <1>1
  <1>8. Together'
    BY <1>1, <1>3, <1>7 DEF FileInv, Together
  <1>9. PackedSoFar'
    <2>1. floor' # {} => ~replaced' /\ ~disturbed'
      BY <1>1 DEF FileInv, PackedSoFar
    <2>2. reader' \in {"none", "aborted", "late"} \/ archive'.whole
      BY <1>1 DEF FileInv, File!DownloadHoldsCommits
    <2>3. QED
      BY <1>1, <2>1, <2>2 DEF FileInv, PackedSoFar
  <1>10. File!DownloadHoldsCommits'
    BY <1>1 DEF FileInv, File!DownloadHoldsCommits
  <1>11. File!CommitsSurvive' /\ File!OldLogIsNotReplayed'
    BY <1>1, <1>7 DEF FileInv, File!CommitsSurvive, File!OldLogIsNotReplayed,
        File!Current
  <1>12. QED
    BY <1>4, <1>5, <1>6, <1>8, <1>9, <1>10, <1>11 DEF FileInv

-----------------------------------------------------------------------------
\* A download reads the file, and changes nothing of it or of a restore.
LEMMA DownloadKeeps ==
  ASSUME File!BackupAssumption, FileInv, File!Download
  PROVE  FileInv'
  <1>0. File!TypeOK
    BY DEF FileInv
  <1>1. UNCHANGED <<main, log, orphan, conn, count, recover, carried, replaced,
          ok,
                    disturbed>>
    BY DEF File!Download, File!Asked, File!Snapshot, File!SnapshotFails,
        File!TarLive, File!TarEnds, File!TarFails,
           File!PipeCloses, File!ErrorKept, File!BrokenPipe, File!ClientLeaves,
               File!EndOfPipe, File!Drained, File!JoinTimesOut,
           File!file, File!restore
  <1>2. LogHasItsName' /\ RestoreReplaces' /\ Together'
    BY <1>1 DEF FileInv, LogHasItsName, RestoreReplaces, Together, File!Connected
  <1>3. File!CommitsSurvive' /\ File!OldLogIsNotReplayed'
          /\ File!Current' = File!Current
    BY <1>1 DEF FileInv, File!CommitsSurvive, File!OldLogIsNotReplayed,
         File!Current
  <1>4. faults' \in 0..MaxFaults
    BY <1>0
    DEF File!Download, File!Asked, File!Snapshot, File!SnapshotFails,
        File!TarLive, File!TarEnds, File!TarFails,
        File!PipeCloses, File!ErrorKept, File!BrokenPipe, File!ClientLeaves,
            File!EndOfPipe, File!Drained, File!JoinTimesOut,
        File!Fault, File!TypeOK, File!BackupAssumption
  <1>5. File!LogOf("snapshot") \in File!Log
          /\ File!Current \subseteq 0..MaxCommits
    BY <1>0 DEF File!LogOf, File!TypeOK, File!Log, File!Current
  <1>6. /\ archive' \in [rows : SUBSET (0..MaxCommits), whole : BOOLEAN]
        /\ floor' \subseteq 0..MaxCommits
        /\ produce' \in {"idle", "snapshot", "live", "tar", "failing", "closed",
                         "ended"}
        /\ error' \in BOOLEAN
        /\ reader' \in {"none", "reading", "gone", "drained", "aborted",
                         "complete", "late"}
        /\ PackedSoFar' /\ File!DownloadHoldsCommits'
    <2> USE <1>0, <1>1, <1>3 DEF File!restore, File!file
    <2>1. CASE File!Asked
      <3>1. /\ produce = "idle" /\ produce' = "snapshot" /\ reader' = "reading"
            /\ floor' = IF replaced \/ disturbed THEN {} ELSE File!Current
            /\ UNCHANGED <<error, archive>>
        BY <2>1 DEF File!Asked
      <3>2. ~archive.whole
        BY <3>1 DEF FileInv, PackedSoFar
      <3>3. PackedSoFar' /\ File!DownloadHoldsCommits'
        BY <3>1, <3>2 DEF PackedSoFar, File!DownloadHoldsCommits
      <3>4. QED
        BY <1>5, <3>1, <3>3 DEF File!TypeOK
    <2>2. CASE File!Snapshot
      <3>1. /\ produce = "snapshot" /\ conn["snapshot"] # "none"
                 /\ produce' = "tar"
            /\ archive' = [archive EXCEPT !.rows = main.rows \cup File!LogOf("snapshot").frames]
            /\ UNCHANGED <<error, reader, floor>>
        BY <2>2 DEF File!Snapshot
      <3>2. /\ archive' \in [rows : SUBSET (0..MaxCommits), whole : BOOLEAN]
            /\ archive'.rows = main.rows \cup File!LogOf("snapshot").frames
            /\ archive'.whole = archive.whole
        BY <1>5, <3>1 DEF File!TypeOK, File!Log
      <3>3. ~archive.whole
        BY <3>1 DEF FileInv, PackedSoFar
      <3>4. floor \subseteq archive'.rows
        <4>1. CASE floor = {}
          BY <4>1
        <4>2. CASE floor # {}
          <5>1. Settled /\ floor \subseteq File!Current
            BY <3>1, <4>2 DEF FileInv, PackedSoFar, Settled
          <5>2. File!LogOf("snapshot") = log
            BY <3>1, <5>1, SettledLog DEF File!Client
          <5>3. QED
            BY <3>2, <5>1, <5>2 DEF File!Current
        <4>3. QED
          BY <4>1, <4>2
      <3>5. PackedSoFar' /\ File!DownloadHoldsCommits'
        BY <3>1, <3>2, <3>3, <3>4 DEF FileInv, PackedSoFar,
             File!DownloadHoldsCommits
      <3>6. QED
        BY <3>1, <3>2, <3>5 DEF File!TypeOK
    <2>3. CASE File!SnapshotFails
      <3>1. /\ produce = "snapshot"
                 /\ produce' = IF File!HasWalTail THEN "failing" ELSE "live"
            /\ UNCHANGED <<error, reader, archive, floor>>
        BY <2>3 DEF File!SnapshotFails
      <3>2. ~File!HasWalTail => floor \subseteq main.rows
        <4>1. ~File!HasWalTail => log.frames = {}
          BY DEF File!HasWalTail, FileInv, LogHasItsName
        <4>2. QED
          BY <3>1, <4>1 DEF FileInv, PackedSoFar, File!Current
      <3>3. PackedSoFar' /\ File!DownloadHoldsCommits'
        BY <3>1, <3>2 DEF FileInv, PackedSoFar, File!DownloadHoldsCommits
      <3>4. QED
        BY <3>1, <3>3 DEF File!TypeOK
    <2>4. CASE File!TarLive
      <3>1. /\ produce = "live" /\ produce' = "tar"
            /\ archive' = [archive EXCEPT !.rows = main.rows]
            /\ UNCHANGED <<error, reader, floor>>
        BY <2>4 DEF File!TarLive
      <3>2. /\ archive' \in [rows : SUBSET (0..MaxCommits), whole : BOOLEAN]
            /\ archive'.rows = main.rows /\ archive'.whole = archive.whole
        BY <3>1 DEF File!TypeOK
      <3>3. ~archive.whole /\ floor \subseteq main.rows
        BY <3>1 DEF FileInv, PackedSoFar
      <3>4. PackedSoFar' /\ File!DownloadHoldsCommits'
        BY <3>1, <3>2, <3>3 DEF FileInv, PackedSoFar, File!DownloadHoldsCommits
      <3>5. QED
        BY <3>1, <3>2, <3>4 DEF File!TypeOK
    <2>5. CASE File!TarEnds
      <3>1. /\ produce = "tar" /\ produce' = "ended"
            /\ archive' = [archive EXCEPT !.whole = TRUE]
            /\ UNCHANGED <<error, reader, floor>>
        BY <2>5 DEF File!TarEnds
      <3>2. /\ archive' \in [rows : SUBSET (0..MaxCommits), whole : BOOLEAN]
            /\ archive'.rows = archive.rows /\ archive'.whole
        BY <3>1 DEF File!TypeOK
      <3>3. floor \subseteq archive.rows
        BY <3>1 DEF FileInv, PackedSoFar
      <3>4. PackedSoFar' /\ File!DownloadHoldsCommits'
        BY <3>1, <3>2, <3>3 DEF FileInv, PackedSoFar, File!DownloadHoldsCommits
      <3>5. QED
        BY <3>1, <3>2, <3>4 DEF File!TypeOK
    <2>6. CASE File!TarFails \/ File!PipeCloses \/ File!ErrorKept
      <3>1. PackedSoFar' /\ File!DownloadHoldsCommits'
        BY <2>6 DEF File!TarFails, File!PipeCloses, File!ErrorKept, FileInv,
            PackedSoFar,
                    File!DownloadHoldsCommits
      <3>2. QED
        BY <2>6, <3>1 DEF File!TarFails, File!PipeCloses, File!ErrorKept,
             File!TypeOK
    <2>7. CASE File!BrokenPipe \/ File!ClientLeaves \/ File!EndOfPipe
      <3>1. PackedSoFar' /\ File!DownloadHoldsCommits'
        BY <2>7 DEF File!BrokenPipe, File!ClientLeaves, File!EndOfPipe, FileInv,
            PackedSoFar,
                    File!DownloadHoldsCommits
      <3>2. QED
        BY <2>7, <3>1 DEF File!BrokenPipe, File!ClientLeaves, File!EndOfPipe,
            File!TypeOK
    <2>8. CASE File!Drained \/ File!JoinTimesOut
      <3>1. PackedSoFar' /\ File!DownloadHoldsCommits'
        BY <2>8 DEF File!Drained, File!JoinTimesOut, FileInv, PackedSoFar,
             File!DownloadHoldsCommits
      <3>2. QED
        BY <2>8, <3>1 DEF File!Drained, File!JoinTimesOut, File!TypeOK
    <2>9. QED
      BY <2>1, <2>2, <2>3, <2>4, <2>5, <2>6, <2>7, <2>8 DEF File!Download
  <1>7. File!TypeOK'
    BY <1>0, <1>1, <1>4, <1>6 DEF File!TypeOK
  <1>8. QED
    BY <1>2, <1>3, <1>6, <1>7 DEF FileInv

-----------------------------------------------------------------------------
\* The steps of a restore between those that touch the database.
LEMMA PassesKeeps ==
  ASSUME File!BackupAssumption, FileInv,
         File!Uploaded \/ File!Rejected \/ File!MembersEnd
           \/ File!MemberFails \/ File!Finish
  PROVE  FileInv'
  <1> USE DEF File!file, File!download, FileFrame
  <1>0. File!TypeOK
    BY DEF FileInv
  <1>1. /\ UNCHANGED <<main, log, orphan, conn, count, replaced, disturbed>>
        /\ UNCHANGED <<produce, error, reader, archive, floor>>
        /\ recover' \in {"upload", "clear", "done"}
        /\ recover' = "upload" => recover = "idle"
        /\ recover' = "done" => recover \in {"upload", "migrating"}
    BY DEF File!Uploaded, File!Rejected, File!MembersEnd, File!MemberFails,
        File!Finish, File!Recover
  <1>2. faults' \in 0..MaxFaults
    <2>1. faults \in 0..MaxFaults
      BY <1>0 DEF File!TypeOK
    <2>2. faults' = faults \/ (faults > 0 /\ faults' = faults - 1)
      BY DEF File!Uploaded, File!Rejected, File!MembersEnd, File!MemberFails,
          File!Finish, File!Fault
    <2>3. QED
      BY <2>1, <2>2 DEF File!BackupAssumption
  <1>3. carried' \in BOOLEAN /\ ok' \in BOOLEAN
    BY <1>0 DEF File!Uploaded, File!Rejected, File!MembersEnd, File!MemberFails,
        File!Finish, File!TypeOK
  <1>4. File!TypeOK'
    BY <1>0, <1>1, <1>2, <1>3 DEF File!TypeOK
  <1>5. LogHasItsName' /\ Together'
    BY <1>1 DEF FileInv, LogHasItsName, Together
  <1>6. RestoreReplaces'
    BY <1>1 DEF FileInv, RestoreReplaces, File!Connected
  <1>7. PackedSoFar' /\ File!DownloadHoldsCommits'
    BY <1>1 DEF FileInv, PackedSoFar, File!DownloadHoldsCommits, File!Current
  <1>8. File!CommitsSurvive' /\ File!OldLogIsNotReplayed'
    BY <1>1 DEF FileInv, File!CommitsSurvive, File!OldLogIsNotReplayed,
         File!Current
  <1>9. QED
    BY <1>4, <1>5, <1>6, <1>7, <1>8 DEF FileInv

LEMMA ExtractKeeps ==
  ASSUME File!BackupAssumption, FileInv, File!ExtractDb
  PROVE  FileInv'
  <1>0. File!TypeOK
    BY DEF FileInv
  <1>1. /\ recover = "upload" /\ recover' = "extracted" /\ replaced' = carried
        /\ UNCHANGED <<log, orphan, conn, count, produce, error, reader, archive,
                       carried, ok, faults>>
    BY DEF File!ExtractDb, File!Recover
  <1>2. main.of = {File!Ours} /\ ~replaced /\ ~disturbed
    BY <1>1, OursIsSettled DEF FileInv, RestoreReplaces, Settled
  <1>3. LogHasItsName'
    BY <1>1 DEF FileInv, LogHasItsName
  <1>4. CASE carried
    <2>1. /\ main' = [of |-> {File!Theirs}, rows |-> {0}] /\ floor' = {}
          /\ disturbed' = (disturbed \/ File!Connected # {})
      BY <1>4 DEF File!ExtractDb
    <2>2. 0 \in 0..MaxCommits
      BY DEF File!BackupAssumption
    <2>3. File!TypeOK'
      BY <1>0, <1>1, <2>1, <2>2 DEF File!TypeOK
    <2>4. main'.of = {File!Theirs} /\ replaced'
      BY <1>1, <1>4, <2>1
    <2>5. RestoreReplaces'
      BY <1>1, <2>1, <2>4 DEF RestoreReplaces, File!Connected
    <2>6. Together'
      BY <2>4 DEF Together
    <2>7. PackedSoFar' /\ File!DownloadHoldsCommits'
      BY <1>1, <2>1 DEF FileInv, PackedSoFar, File!DownloadHoldsCommits
    <2>8. File!CommitsSurvive' /\ File!OldLogIsNotReplayed'
      BY <2>4 DEF File!CommitsSurvive, File!OldLogIsNotReplayed, File!Ours,
          File!Theirs
    <2>9. QED
      BY <1>3, <2>3, <2>5, <2>6, <2>7, <2>8 DEF FileInv
  <1>5. CASE ~carried
    <2>1. UNCHANGED <<main, floor, disturbed, replaced>>
      BY <1>0, <1>1, <1>2, <1>5 DEF File!ExtractDb, File!TypeOK
    <2>2. File!TypeOK'
      BY <1>0, <1>1, <2>1 DEF File!TypeOK
    <2>3. RestoreReplaces' /\ Together'
      BY <1>1, <1>2, <2>1 DEF FileInv, RestoreReplaces, Together
    <2>4. PackedSoFar' /\ File!DownloadHoldsCommits'
      BY <1>1, <2>1 DEF FileInv, PackedSoFar, File!DownloadHoldsCommits,
           File!Current
    <2>5. File!CommitsSurvive' /\ File!OldLogIsNotReplayed'
      BY <1>1, <2>1 DEF FileInv, File!CommitsSurvive, File!OldLogIsNotReplayed,
          File!Current
    <2>6. QED
      BY <1>3, <2>2, <2>3, <2>4, <2>5 DEF FileInv
  <1>6. QED
    BY <1>4, <1>5

\* The log of the old file goes; whoever has it open keeps it without a name.
LEMMA ClearKeeps ==
  ASSUME FileInv, File!Clear
  PROVE  FileInv'
  <1>0. File!TypeOK
    BY DEF FileInv
  <1>1. /\ recover = "clear" /\ recover' \in {"migrate", "done"}
             /\ replaced' = FALSE
        /\ UNCHANGED <<main, count, carried, ok, disturbed, faults>>
        /\ UNCHANGED <<produce, error, reader, archive, floor>>
    BY DEF File!Clear, File!Recover, File!download
  <1>2. CASE replaced
    <2>1. /\ log' = File!NoLog
          /\ orphan' = IF \E c \in File!Client : conn[c] = "named"
               THEN log ELSE File!NoLog
          /\ conn' = [c \in File!Client |->
                          IF conn[c] = "named" THEN "orphan" ELSE conn[c]]
      BY <1>2 DEF File!Clear, File!SidecarsCleared
    <2>2. File!TypeOK'
      <3>1. conn' \in [File!Client -> {"none", "named", "orphan"}]
        BY <1>0, <2>1 DEF File!TypeOK
      <3>2. log \in File!Log
        BY <1>0 DEF File!TypeOK
      <3>3. orphan' = log \/ orphan' = File!NoLog
        BY <2>1
      <3>4. log' \in File!Log /\ orphan' \in File!Log
        BY <2>1, <3>2, <3>3, NoLogType
      <3>5. /\ main' \in [of : SUBSET {File!Ours, File!Theirs}, rows : SUBSET (0..MaxCommits)]
            /\ archive' \in [rows : SUBSET (0..MaxCommits), whole : BOOLEAN]
            /\ floor' \subseteq 0..MaxCommits /\ count' \in 0..MaxCommits
            /\ faults' \in 0..MaxFaults
        BY <1>0, <1>1 DEF File!TypeOK
      <3>6. /\ error' \in BOOLEAN /\ carried' \in BOOLEAN /\ replaced' \in BOOLEAN
            /\ ok' \in BOOLEAN /\ disturbed' \in BOOLEAN
            /\ produce' = produce /\ reader' = reader
            /\ recover' \in {"migrate", "done"}
        BY <1>0, <1>1 DEF File!TypeOK
      <3>7. QED
        BY <1>0, <3>1, <3>4, <3>5, <3>6 DEF File!TypeOK
    <2>3. LogHasItsName'
      BY <2>1, NoLogType DEF LogHasItsName
    <2>4. File!Theirs \in main.of /\ main.of # {File!Ours}
      BY <1>2 DEF FileInv, RestoreReplaces, File!Ours, File!Theirs
    <2>5. RestoreReplaces'
      BY <1>1, <2>4 DEF RestoreReplaces
    <2>6. Together'
      <3>1. SUFFICES ASSUME ~disturbed PROVE Together'
        BY <1>1 DEF Together
      <3>2. \A c \in File!Client : conn[c] = "none"
        BY <1>2, <3>1 DEF FileInv, RestoreReplaces, File!Connected
      <3>3. \A c \in File!Client : conn'[c] # "orphan"
        BY <2>1, <3>2
      <3>4. QED
        BY <2>1, <3>3, NoLogType DEF Together
    <2>7. PackedSoFar'
      BY <1>1, <1>2 DEF FileInv, PackedSoFar
    <2>8. File!DownloadHoldsCommits' /\ File!CommitsSurvive'
            /\ File!OldLogIsNotReplayed'
      BY <1>1, <2>4
      DEF FileInv, File!DownloadHoldsCommits, File!CommitsSurvive,
          File!OldLogIsNotReplayed
    <2>9. QED
      BY <2>2, <2>3, <2>5, <2>6, <2>7, <2>8 DEF FileInv
  <1>3. CASE ~replaced
    <2>1. UNCHANGED <<log, orphan, conn>> /\ replaced' = replaced
      BY <1>0, <1>1, <1>3 DEF File!Clear, File!SidecarsCleared, File!TypeOK
    <2>2. File!TypeOK'
      BY <1>0, <1>1, <2>1 DEF File!TypeOK
    <2>3. LogHasItsName' /\ RestoreReplaces' /\ Together'
      BY <1>1, <1>3, <2>1 DEF FileInv, LogHasItsName, RestoreReplaces, Together
    <2>4. PackedSoFar' /\ File!DownloadHoldsCommits'
      BY <1>1, <2>1 DEF FileInv, PackedSoFar, File!DownloadHoldsCommits,
           File!Current
    <2>5. File!CommitsSurvive' /\ File!OldLogIsNotReplayed'
      BY <1>1, <2>1 DEF FileInv, File!CommitsSurvive, File!OldLogIsNotReplayed,
          File!Current
    <2>6. QED
      BY <2>2, <2>3, <2>4, <2>5 DEF FileInv
  <1>4. QED
    BY <1>2, <1>3

LEMMA ClearFailsKeeps ==
  ASSUME File!BackupAssumption, FileInv, File!ClearFails
  PROVE  FileInv'
  <1>0. File!TypeOK
    BY DEF FileInv
  <1>1. /\ recover' = "done" /\ replaced' = FALSE
        /\ disturbed' = (disturbed \/ replaced)
        /\ UNCHANGED <<main, log, orphan, conn, count, carried, ok>>
        /\ UNCHANGED <<produce, error, reader, archive, floor>>
    BY DEF File!ClearFails, File!Recover, File!download, File!file
  <1>2. faults' \in 0..MaxFaults
    BY <1>0 DEF File!ClearFails, File!Fault, File!TypeOK, File!BackupAssumption
  <1>3. File!TypeOK'
    BY <1>0, <1>1, <1>2 DEF File!TypeOK
  <1>4. LogHasItsName' /\ RestoreReplaces' /\ Together'
    BY <1>1 DEF FileInv, LogHasItsName, RestoreReplaces, Together
  <1>5. PackedSoFar' /\ File!DownloadHoldsCommits'
    BY <1>1 DEF FileInv, PackedSoFar, File!DownloadHoldsCommits, File!Current
  <1>6. File!CommitsSurvive' /\ File!OldLogIsNotReplayed'
    BY <1>1 DEF FileInv, File!CommitsSurvive, File!OldLogIsNotReplayed,
         File!Current
  <1>7. QED
    BY <1>3, <1>4, <1>5, <1>6 DEF FileInv

LEMMA CloseAllKeeps ==
  ASSUME FileInv, File!CloseAll
  PROVE  FileInv'
  <1>0. File!TypeOK
    BY DEF FileInv
  <1>1. /\ recover = "migrate" /\ recover' = "migrating"
        /\ UNCHANGED <<FileFrame, disturbed, faults>>
        /\ ~replaced
    BY DEF File!CloseAll, File!Recover, File!download, FileFrame, FileInv,
        RestoreReplaces
  <1>2. CASE conn["recover"] # "none"
    <2>1. File!Disconnect("recover") /\ "recover" \in File!Client
      BY <1>2 DEF File!CloseAll, File!Client
    <2>2. File!TypeOK'
      BY <1>0, <1>1, <1>2, <2>1, DisconnectStep DEF File!TypeOK, FileFrame
    <2>3. File!Connected # {}
      BY <1>2, <2>1 DEF File!Connected
    <2>4. QED
      BY <1>1, <1>2, <2>1, <2>2, <2>3, DisconnectStep, ConnectedKeeps
  <1>3. CASE conn["recover"] = "none"
    <2>1. UNCHANGED <<main, log, orphan, conn, count>>
      BY <1>3 DEF File!CloseAll, File!file
    <2>2. File!TypeOK'
      BY <1>0, <1>1, <2>1 DEF File!TypeOK, FileFrame
    <2>3. LogHasItsName' /\ RestoreReplaces' /\ Together'
      BY <1>1, <2>1 DEF FileInv, LogHasItsName, RestoreReplaces, Together,
           FileFrame
    <2>4. PackedSoFar' /\ File!DownloadHoldsCommits'
      BY <1>1, <2>1
      DEF FileInv, PackedSoFar, File!DownloadHoldsCommits, File!Current, FileFrame
    <2>5. File!CommitsSurvive' /\ File!OldLogIsNotReplayed'
      BY <1>1, <2>1 DEF FileInv, File!CommitsSurvive, File!OldLogIsNotReplayed,
          File!Current
    <2>6. QED
      BY <2>2, <2>3, <2>4, <2>5 DEF FileInv
  <1>4. QED
    BY <1>2, <1>3

-----------------------------------------------------------------------------
LEMMA InitFileInv ==
  ASSUME File!BackupAssumption, File!Init
  PROVE  FileInv
  <1>1. 0 \in 0..MaxCommits /\ MaxFaults \in 0..MaxFaults
    BY DEF File!BackupAssumption
  <1>2. File!TypeOK
    BY <1>1, NoLogType DEF File!Init, File!TypeOK
  <1>3. LogHasItsName /\ RestoreReplaces /\ Together
    BY NoLogType DEF File!Init, LogHasItsName, RestoreReplaces, Together,
        File!Connected, File!Theirs,
                     File!Ours
  <1>4. PackedSoFar /\ File!DownloadHoldsCommits
    BY DEF File!Init, PackedSoFar, File!DownloadHoldsCommits
  <1>5. 1..count = {}
    BY DEF File!Init
  <1>6. File!CommitsSurvive /\ File!OldLogIsNotReplayed
    BY <1>5 DEF File!Init, File!CommitsSurvive, File!OldLogIsNotReplayed
  <1>7. QED
    BY <1>2, <1>3, <1>4, <1>6 DEF FileInv

LEMMA StutterKeeps ==
  ASSUME FileInv, UNCHANGED File!vars
  PROVE  FileInv'
  <1> USE DEF File!vars, File!file, File!download, File!restore
  <1>1. File!TypeOK'
    BY DEF FileInv, File!TypeOK
  <1>2. LogHasItsName' /\ RestoreReplaces' /\ Together'
    BY DEF FileInv, LogHasItsName, RestoreReplaces, Together, File!Connected
  <1>3. PackedSoFar' /\ File!DownloadHoldsCommits'
    BY DEF FileInv, PackedSoFar, File!DownloadHoldsCommits, File!Current
  <1>4. File!CommitsSurvive' /\ File!OldLogIsNotReplayed'
    BY DEF FileInv, File!CommitsSurvive, File!OldLogIsNotReplayed, File!Current
  <1>5. QED
    BY <1>1, <1>2, <1>3, <1>4 DEF FileInv

LEMMA NextKeeps ==
  ASSUME File!BackupAssumption, FileInv, [File!Next]_File!vars
  PROVE  FileInv'
  BY OpensKeeps, ClosesKeeps, CommitsKeeps, CheckpointsKeeps, OtherKilledKeeps,
     ServerKilledKeeps, DownloadKeeps, PassesKeeps, ExtractKeeps, ClearKeeps,
     ClearFailsKeeps, CloseAllKeeps, StutterKeeps DEF File!Next, File!Restore

\* Every reachable state satisfies the inductive invariant.
THEOREM BackupInvariant ==
  ASSUME File!BackupAssumption
  PROVE  File!Spec => []FileInv
  <1>1. File!Init => FileInv
    BY InitFileInv
  <1>2. FileInv /\ [File!Next]_File!vars => FileInv'
    BY NextKeeps
  <1>3. QED
    BY <1>1, <1>2, PTL DEF File!Spec

\* A download that completes once the thread that packed it has ended is whole
\* and holds what was committed when it was asked for (backup_helper.py:
\* stream_backup(), _has_wal_tail(), producer.join(timeout=5)).
THEOREM DownloadsHoldCommits ==
  ASSUME File!BackupAssumption
  PROVE  File!Spec => []DownloadHoldsCommits
  <1>1. FileInv => DownloadHoldsCommits
    BY DEF FileInv, DownloadHoldsCommits, File!DownloadHoldsCommits, Current,
        File!Current,
           Ours, File!Ours, Theirs, File!Theirs
  <1>2. QED
    BY <1>1, BackupInvariant, PTL

\* No commit is lost before a database is restored over it
\* (backup_helper.py: _clear_db_sidecars() only for a replaced database).
THEOREM CommitsAreKept ==
  ASSUME File!BackupAssumption
  PROVE  File!Spec => []CommitsSurvive
  <1>1. FileInv => CommitsSurvive
    BY DEF FileInv, CommitsSurvive, File!CommitsSurvive, Current, File!Current,
           Ours, File!Ours, Theirs, File!Theirs
  <1>2. QED
    BY <1>1, BackupInvariant, PTL

\* No frame of the old log gets into a restored database that nobody looked at
\* while it was being replaced (backup_helper.py: recover()).
THEOREM OldLogsAreNotReplayed ==
  ASSUME File!BackupAssumption
  PROVE  File!Spec => []OldLogIsNotReplayed
  <1>1. FileInv => OldLogIsNotReplayed
    BY DEF FileInv, OldLogIsNotReplayed, File!OldLogIsNotReplayed, Current,
        File!Current,
           Ours, File!Ours, Theirs, File!Theirs
  <1>2. QED
    BY <1>1, BackupInvariant, PTL

-----------------------------------------------------------------------------
(* The account. *)

Asks(settings) == settings["auth_backend"]

\* What a thread carries asks for no login before there is an account.
ThreadsAreBacked ==
    \A t \in Thread :
        /\ migrated /\ Asks(req[t].seen) => users # <<>>
        /\ req[t].pc = "update" => users # <<>>
        /\ req[t].pc = "set" /\ req[t].ask => users # <<>>

\* Nor do the file and, while it is in use, the dictionary.
StoresAreBacked ==
    migrated => /\ Asks(conf) => users # <<>>
                /\ phase \in {"keying", "serving"} /\ Asks(mem) => users # <<>>

\* The transaction of the migration holds a row whenever the flag stays.
MigrationBacks ==
    /\ phase \in {"promoted", "replaced"} => ~migrated
    /\ phase = "promoted" /\ creds = "hash" => tx # <<>>
    /\ phase = "replaced" /\ Asks(conf) => tx # <<>>

OnlyServing == \A t \in Thread : phase # "serving" => req[t] = Account!At("idle")

AccountInv ==
    /\ Account!TypeOK
    /\ ThreadsAreBacked /\ StoresAreBacked /\ MigrationBacks /\ OnlyServing

PC == Account!Load \cup Account!Later \cup {"check", "update", "create", "set",
  "write"}

LEMMA BlankType == Account!Blank \in Account!Settings /\ ~Asks(Account!Blank)
  BY DEF Account!Blank, Account!Settings, Asks, Account!Field

LEMMA AtType ==
    ASSUME NEW pc \in PC
    PROVE  Account!At(pc) \in Account!Request /\ Account!At(pc).pc = pc
             /\ Account!At(pc).seen = Account!Blank
  BY BlankType DEF Account!At, Account!Request, PC, Account!Load, Account!Later,
      Account!Kind

LEMMA KeptType ==
    ASSUME req \in [Thread -> Account!Request], NEW t \in Thread, NEW pc \in PC
    PROVE  /\ Account!Kept(t, pc) \in Account!Request
           /\ Account!Kept(t, pc).pc = pc
                /\ Account!Kept(t, pc).seen = Account!Blank
           /\ Account!Kept(t, pc).ask = req[t].ask
  <1>1. /\ req[t].kind \in Account!Kind /\ req[t].ask \in BOOLEAN
        /\ req[t].toggle \in BOOLEAN
    BY DEF Account!Request
  <1>2. Account!At(pc) \in Account!Request /\ Account!At(pc).pc = pc
          /\ Account!At(pc).seen = Account!Blank
    BY AtType
  <1>3. QED
    BY <1>1, <1>2 DEF Account!Kept, Account!Request

\* An upsert leaves rows, and at least one.
LEMMA UpsertType ==
    ASSUME NEW rows \in Seq(Account!Row), NEW row \in Account!Row
    PROVE  Account!Upsert(rows, row) \in Seq(Account!Row)
             /\ Account!Upsert(rows, row) # <<>>
  <1>1. CASE \E i \in DOMAIN rows : rows[i].name = row.name
    <2>1. DOMAIN rows = 1..Len(rows) /\ Len(rows) \in Nat /\ Len(rows) # 0
      BY <1>1
    <2>2. Account!Upsert(rows, row)
            = [i \in 1..Len(rows) |-> IF rows[i].name = row.name THEN row
                                      ELSE rows[i]]
      BY <1>1, <2>1 DEF Account!Upsert
    <2>3. \A i \in 1..Len(rows) :
            (IF rows[i].name = row.name THEN row ELSE rows[i]) \in Account!Row
      BY <2>1
    <2>4. QED
      BY <2>1, <2>2, <2>3
  <1>2. CASE ~ \E i \in DOMAIN rows : rows[i].name = row.name
    BY <1>2 DEF Account!Upsert
  <1>3. QED
    BY <1>1, <1>2

LEMMA InitAccountInv ==
  ASSUME Account!AccountAssumption PROVE Account!Init => AccountInv
  <1>1. ASSUME Account!Init PROVE AccountInv
    <2>1. Account!At("idle") \in Account!Request /\ Account!At("idle").pc = "idle"
            /\ Account!At("idle").seen = Account!Blank
      BY AtType DEF PC, Account!Later
    <2>2. Account!TypeOK
      BY <1>1, <2>1 DEF Account!Init, Account!TypeOK, Account!Credentials,
          Account!AccountAssumption
    <2>3. ThreadsAreBacked /\ OnlyServing
      BY <1>1, <2>1, BlankType DEF Account!Init, ThreadsAreBacked, OnlyServing
    <2>4. StoresAreBacked /\ MigrationBacks
      BY <1>1 DEF Account!Init, StoresAreBacked, MigrationBacks, Asks
    <2>5. QED
      BY <2>2, <2>3, <2>4 DEF AccountInv
  <1>2. QED
    BY <1>1

\* A step of one request: what it leaves behind is r.
LEMMA RequestStep ==
    ASSUME AccountInv, NEW t \in Thread, NEW r \in Account!Request,
           phase = "serving",
           req' = [req EXCEPT ![t] = r],
           UNCHANGED <<migrated, phase, tx>>,
           conf' \in Account!Settings, mem' \in Account!Settings,
             creds' \in Account!Credentials,
           users' \in Seq(Account!Row), cuts' \in Nat,
           users # <<>> => users' # <<>>,
           migrated /\ (Asks(conf') \/ Asks(mem') \/ Asks(r.seen))
               => users' # <<>>,
           r.pc = "update" => users' # <<>>,
           r.pc = "set" /\ r.ask => users' # <<>>
    PROVE  AccountInv'
  <1>1. Account!TypeOK'
    BY DEF AccountInv, Account!TypeOK
  <1>2. \A s \in Thread : req'[s] = IF s = t THEN r ELSE req[s]
    BY DEF AccountInv, Account!TypeOK
  <1>3. ThreadsAreBacked'
    BY <1>2 DEF AccountInv, ThreadsAreBacked, Asks
  <1>4. StoresAreBacked' /\ MigrationBacks' /\ OnlyServing'
    BY DEF AccountInv, StoresAreBacked, MigrationBacks, OnlyServing, Asks
  <1>5. QED
    BY <1>1, <1>3, <1>4 DEF AccountInv

\* A step of the start, when no request is being served.
LEMMA BootStep ==
    ASSUME AccountInv, phase # "serving", req' = req,
           Account!TypeOK', StoresAreBacked', MigrationBacks'
    PROVE  AccountInv'
  <1>1. \A t \in Thread : req'[t] = Account!At("idle")
    BY DEF AccountInv, OnlyServing
  <1>2. Account!At("idle").pc = "idle" /\ Account!At("idle").seen = Account!Blank
    BY AtType DEF PC, Account!Later
  <1>3. ThreadsAreBacked' /\ OnlyServing'
    BY <1>1, <1>2, BlankType DEF ThreadsAreBacked, OnlyServing, Asks
  <1>4. QED
    BY <1>3 DEF AccountInv

LEMMA BootKeeps == AccountInv /\ Account!Boot => AccountInv'
  <1> SUFFICES ASSUME AccountInv, Account!Boot PROVE AccountInv'
    OBVIOUS
  <1> USE DEF AccountInv
  <1>1. ASSUME NEW row \in Account!Row, Account!Promote(row) PROVE AccountInv'
    <2>1. tx' \in Seq(Account!Row) /\ (creds = "hash" => tx' # <<>>)
      BY <1>1, UpsertType DEF Account!Promote, Account!TypeOK
    <2>2. Account!TypeOK' /\ StoresAreBacked' /\ MigrationBacks'
      BY <1>1, <2>1 DEF Account!Promote, Account!TypeOK, StoresAreBacked,
          MigrationBacks, Asks
    <2>3. QED
      BY <1>1, <2>2, BootStep DEF Account!Promote
  <1>2. CASE Account!Import
    <2>1. Account!TypeOK' /\ StoresAreBacked' /\ MigrationBacks'
      BY <1>2 DEF Account!Import, Account!TypeOK, StoresAreBacked,
          MigrationBacks, Asks
    <2>2. QED
      BY <1>2, <2>1, BootStep DEF Account!Import
  <1>3. CASE Account!SaveKey
    <2>1. Account!TypeOK' /\ StoresAreBacked' /\ MigrationBacks'
      BY <1>3 DEF Account!SaveKey, Account!TypeOK, Account!Credentials,
          StoresAreBacked,
                  MigrationBacks, Asks
    <2>2. QED
      BY <1>3, <2>1, BootStep DEF Account!SaveKey
  <1>4. CASE Account!ReplaceConf
    <2>1. /\ conf' \in Account!Settings
          /\ Asks(conf') => creds = "hash"
      BY <1>4 DEF Account!ReplaceConf, Account!DisablesAuth, Account!TypeOK,
          Account!Settings, Account!Field, Asks
    <2>2. Account!TypeOK' /\ StoresAreBacked' /\ MigrationBacks'
      BY <1>4, <2>1 DEF Account!ReplaceConf, Account!TypeOK, Account!Credentials,
          StoresAreBacked,
                        MigrationBacks, Asks
    <2>3. QED
      BY <1>4, <2>2, BootStep DEF Account!ReplaceConf
  <1>5. CASE Account!ReplaceFails
    <2>1. Account!TypeOK' /\ StoresAreBacked' /\ MigrationBacks'
      BY <1>5 DEF Account!ReplaceFails, Account!Fault, Account!TypeOK,
          StoresAreBacked,
                  MigrationBacks, Asks
    <2>2. QED
      BY <1>5, <2>1, BootStep DEF Account!ReplaceFails
  <1>6. CASE Account!Commit
    <2>1. Account!TypeOK' /\ StoresAreBacked' /\ MigrationBacks'
      BY <1>6 DEF Account!Commit, Account!TypeOK, StoresAreBacked,
          MigrationBacks, Asks
    <2>2. QED
      BY <1>6, <2>1, BootStep DEF Account!Commit
  <1>7. CASE Account!NothingToMigrate
    <2>1. Account!TypeOK' /\ StoresAreBacked' /\ MigrationBacks'
      BY <1>7 DEF Account!NothingToMigrate, Account!TypeOK, StoresAreBacked,
          MigrationBacks,
                  Asks
    <2>2. QED
      BY <1>7, <2>1, BootStep DEF Account!NothingToMigrate
  <1>8. CASE Account!PowerCut
    <2>1. Account!At("idle") \in Account!Request /\ Account!At("idle").pc = "idle"
            /\ Account!At("idle").seen = Account!Blank
      BY AtType DEF PC, Account!Later
    <2>2. /\ conf' \in Account!Settings /\ creds' \in Account!Credentials
          /\ Asks(conf') => Asks(conf)
      BY <1>8, BlankType DEF Account!PowerCut, Account!TypeOK,
          Account!Credentials, Asks
    <2>3. Account!TypeOK'
      BY <1>8, <2>1, <2>2 DEF Account!PowerCut, Account!Fault, Account!TypeOK
    <2>4. ThreadsAreBacked' /\ OnlyServing'
      BY <1>8, <2>1, BlankType DEF Account!PowerCut, ThreadsAreBacked,
           OnlyServing,
                                   Asks
    <2>5. StoresAreBacked' /\ MigrationBacks'
      BY <1>8, <2>2 DEF Account!PowerCut, StoresAreBacked, MigrationBacks, Asks
    <2>6. QED
      BY <2>3, <2>4, <2>5
  <1>9. QED
    BY <1>1, <1>2, <1>3, <1>4, <1>5, <1>6, <1>7, <1>8 DEF Account!Boot

\* The steps of load() and save().
LEMMA FileStepsKeep ==
    ASSUME AccountInv, NEW t \in Thread,
           Account!Read(t) \/ Account!Assign(t) \/ Account!Open(t)
             \/ Account!Write(t) \/ Account!WriteFails(t)
    PROVE  AccountInv'
  <1> USE DEF AccountInv
  <1>1. /\ Account!At("idle") \in Account!Request
        /\ Account!At("idle").pc = "idle"
             /\ Account!At("idle").seen = Account!Blank
    BY AtType DEF PC, Account!Later
  <1>2. /\ req \in [Thread -> Account!Request] /\ req[t] \in Account!Request
        /\ req[t].seen \in Account!Settings /\ req[t].then \in Account!Later
    BY DEF Account!TypeOK, Account!Request
  <1>3. CASE Account!Read(t)
    <2> DEFINE r == [req[t] EXCEPT !.pc = "assign", !.seen = conf]
    <2>1. r \in Account!Request /\ r.pc = "assign" /\ r.seen = conf
      BY <1>2 DEF Account!TypeOK, Account!Request, Account!Load
    <2>2. req' = [req EXCEPT ![t] = r]
      BY <1>2, <1>3 DEF Account!Read
    <2> HIDE DEF r
    <2>3. QED
      BY <1>3, <2>1, <2>2, RequestStep
         DEF Account!Read, Account!Step, Account!TypeOK, StoresAreBacked, Asks
  <1>4. CASE Account!Assign(t)
    <2> DEFINE r == IF req[t].then = "note"
                    THEN [req[t] EXCEPT !.pc = "note", !.seen = Account!Blank]
                    ELSE IF req[t].then = "idle" THEN Account!At("idle")
                    ELSE Account!Kept(t, req[t].then)
    <2>1. /\ r \in Account!Request /\ r.pc \in Account!Later
               /\ r.seen = Account!Blank
      <3>1. [req[t] EXCEPT !.pc = "note", !.seen = Account!Blank] \in Account!Request
        BY <1>2, BlankType DEF Account!Request, Account!Later
      <3>2. Account!Kept(t, req[t].then) \in Account!Request
              /\ Account!Kept(t, req[t].then).pc = req[t].then
              /\ Account!Kept(t, req[t].then).seen = Account!Blank
        BY <1>2, KeptType DEF PC
      <3>3. [req[t] EXCEPT !.pc = "note", !.seen = Account!Blank].pc = "note"
              /\ [req[t] EXCEPT !.pc = "note", !.seen = Account!Blank].seen
                   = Account!Blank
        BY <1>2 DEF Account!Request
      <3>4. QED
        BY <1>1, <1>2, <3>1, <3>2, <3>3 DEF Account!Later
    <2>2. req' = [req EXCEPT ![t] = r]
      BY <1>2, <1>4 DEF Account!Assign, Account!Goto, Account!Done
    <2> HIDE DEF r
    <2>3. migrated /\ Asks(mem') => users # <<>>
      BY <1>4 DEF Account!Assign, ThreadsAreBacked
    <2>4. QED
      BY <1>2, <1>4, <2>1, <2>2, <2>3, BlankType, RequestStep
         DEF Account!Assign, Account!Step, Account!TypeOK, StoresAreBacked, Asks,
             Account!Later
  <1>5. CASE Account!Open(t)
    <2> DEFINE r == [Account!Kept(t, "write") EXCEPT !.seen = mem]
    <2>0. Account!Kept(t, "write") \in Account!Request
            /\ Account!Kept(t, "write").pc = "write"
      BY <1>2, KeptType DEF PC
    <2>1. r \in Account!Request /\ r.pc = "write" /\ r.seen = mem
      BY <2>0 DEF Account!TypeOK, Account!Request
    <2>2. req' = [req EXCEPT ![t] = r]
      BY <1>5 DEF Account!Open
    <2> HIDE DEF r
    <2>3. QED
      BY <1>5, <2>1, <2>2, BlankType, RequestStep
         DEF Account!Open, Account!Step, Account!TypeOK, Account!Credentials,
             StoresAreBacked, Asks
  <1>6. CASE Account!Write(t)
    <2> DEFINE next == IF req[t].kind \in {"settings", "patch"}
                       THEN "answer" ELSE "idle"
               r == [Account!Kept(t, "read") EXCEPT !.then = next]
    <2>1. next \in Account!Later
      BY DEF Account!Later
    <2> HIDE DEF next
    <2>2. r \in Account!Request /\ r.pc = "read" /\ r.seen = Account!Blank
      BY <1>2, <2>1, KeptType DEF Account!Request, PC, Account!Load
    <2>3. req' = [req EXCEPT ![t] = r]
      BY <1>6 DEF Account!Write, Account!LoadThen, next
    <2> HIDE DEF r
    <2>4. migrated /\ Asks(conf') => users # <<>>
      BY <1>6 DEF Account!Write, ThreadsAreBacked
    <2>5. QED
      BY <1>2, <1>6, <2>2, <2>3, <2>4, BlankType, RequestStep
         DEF Account!Write, Account!Step, Account!TypeOK, StoresAreBacked, Asks
  <1>7. CASE Account!WriteFails(t)
    <2> DEFINE r == Account!At("idle")
    <2>1. req' = [req EXCEPT ![t] = r]
      BY <1>7 DEF Account!WriteFails, Account!Goto, Account!Done
    <2>2. r \in Account!Request /\ r.pc = "idle" /\ r.seen = Account!Blank
      BY <1>1
    <2> HIDE DEF r
    <2>3. cuts' \in Nat
      BY <1>7 DEF Account!WriteFails, Account!Fault, Account!TypeOK
    <2>4. QED
      BY <1>7, <2>1, <2>2, <2>3, BlankType, RequestStep
         DEF Account!WriteFails, Account!Step, Account!TypeOK, StoresAreBacked,
               Asks
  <1>8. QED
    BY <1>3, <1>4, <1>5, <1>6, <1>7

\* A request that is dropped, or goes on, writing neither settings nor rows.
LEMMA QuietStep ==
    ASSUME AccountInv, NEW t \in Thread, NEW r \in Account!Request,
           phase = "serving",
           req' = [req EXCEPT ![t] = r], r.seen = Account!Blank,
           r.pc = "update" => users # <<>>,
           r.pc = "set" /\ r.ask => users # <<>>,
           UNCHANGED <<conf, creds, mem, users, migrated, phase, tx, cuts>>
    PROVE  AccountInv'
  BY BlankType, RequestStep DEF AccountInv, Account!TypeOK, StoresAreBacked, Asks

LEMMA Arriving ==
    ASSUME AccountInv, NEW t \in Thread, NEW kind \in Account!Kind,
             NEW session \in Nat,
           Account!Arrive(t, kind, session)
    PROVE  AccountInv'
  <1> DEFINE next == CASE kind = "page" -> "idle"
                       [] kind = "nudge" -> "open"
                       [] OTHER -> "note"
             r == [Account!At("read") EXCEPT !.kind = kind, !.session = session,
                                     !.then = next]
  <1>1. next \in Account!Later
    BY DEF Account!Later, Account!Kind
  <1>2. req' = [req EXCEPT ![t] = r]
    BY DEF Account!Arrive
  <1> HIDE DEF next
  <1>3. Account!At("read") \in Account!Request /\ Account!At("read").pc = "read"
          /\ Account!At("read").seen = Account!Blank
    BY AtType DEF PC, Account!Load
  <1>4. r \in Account!Request /\ r.pc = "read" /\ r.seen = Account!Blank
    BY <1>1, <1>3 DEF Account!Request
  <1> HIDE DEF r
  <1>5. QED
    BY <1>2, <1>4, QuietStep DEF Account!Arrive, Account!Step

LEMMA Noting ==
    ASSUME AccountInv, NEW t \in Thread, NEW ask \in BOOLEAN, Account!Note(t, ask)
    PROVE  AccountInv'
  <1> DEFINE r == [req[t] EXCEPT !.pc = "check", !.ask = ask,
                                 !.prev = mem["auth_backend"]]
  <1>1. req[t] \in Account!Request /\ mem["auth_backend"] \in BOOLEAN
    BY DEF AccountInv, Account!TypeOK, Account!Settings, Account!Field
  <1>2. r \in Account!Request /\ r.pc = "check" /\ r.seen = req[t].seen
    BY <1>1 DEF Account!Request
  <1>3. req' = [req EXCEPT ![t] = r]
    BY <1>1 DEF Account!Note, AccountInv, Account!TypeOK
  <1>4. migrated /\ Asks(r.seen) => users # <<>>
    BY <1>2 DEF AccountInv, ThreadsAreBacked
  <1> HIDE DEF r
  <1>5. QED
    BY <1>2, <1>3, <1>4, RequestStep
       DEF Account!Note, Account!Step, AccountInv, Account!TypeOK,
           StoresAreBacked, Asks

LEMMA Checking ==
    ASSUME AccountInv, NEW t \in Thread, NEW shown \in Word \cup {None},
           NEW name \in Name \cup {None}, NEW pwd \in Word \cup {None},
           Account!Check(t, shown, name, pwd)
    PROVE  AccountInv'
  <1> DEFINE correct == users # <<>> /\ users[1].password = shown
             next == IF users # <<>> THEN "update" ELSE "create"
             r == [Account!Kept(t, next) EXCEPT !.name = name, !.pwd = pwd,
                                        !.correct = correct]
  <1>1. req \in [Thread -> Account!Request]
    BY DEF AccountInv, Account!TypeOK
  <1>2. CASE Account!Done(t)
    <2>1. Account!At("idle") \in Account!Request /\ Account!At("idle").pc = "idle"
            /\ Account!At("idle").seen = Account!Blank
      BY AtType DEF PC, Account!Later
    <2>2. QED
      BY <1>2, <2>1, QuietStep DEF Account!Check, Account!Step, Account!Done
  <1>3. CASE ~req[t].ask /\ Account!Goto(t, "set")
    <2>1. /\ Account!Kept(t, "set") \in Account!Request
               /\ Account!Kept(t, "set").pc = "set"
          /\ Account!Kept(t, "set").seen = Account!Blank
               /\ ~Account!Kept(t, "set").ask
      BY <1>1, <1>3, KeptType DEF PC
    <2>2. req' = [req EXCEPT ![t] = Account!Kept(t, "set")]
      BY <1>3 DEF Account!Goto
    <2>3. QED
      BY <2>1, <2>2, QuietStep DEF Account!Check, Account!Step
  <1>4. CASE req' = [req EXCEPT ![t] = r]
    <2>1. next \in {"update", "create"} /\ (next = "update" => users # <<>>)
      OBVIOUS
    <2> HIDE DEF next
    <2>2. /\ Account!Kept(t, next) \in Account!Request
               /\ Account!Kept(t, next).pc = next
          /\ Account!Kept(t, next).seen = Account!Blank
      BY <1>1, <2>1, KeptType DEF PC
    <2>3. correct \in BOOLEAN
      OBVIOUS
    <2> HIDE DEF correct
    <2>4. r \in Account!Request /\ r.pc = next /\ r.seen = Account!Blank
      BY <2>2, <2>3 DEF Account!Request
    <2> HIDE DEF r
    <2>5. QED
      BY <1>4, <2>1, <2>4, QuietStep DEF Account!Check, Account!Step
  <1>5. QED
    BY <1>2, <1>3, <1>4 DEF Account!Check

\* The steps that write the rows: they leave rows, and never fewer.
LEMMA Writing ==
    ASSUME AccountInv, NEW t \in Thread, Account!Update(t) \/ Account!Create(t)
    PROVE  AccountInv'
  <1>1. /\ req \in [Thread -> Account!Request] /\ req[t] \in Account!Request
        /\ users \in Seq(Account!Row)
    BY DEF AccountInv, Account!TypeOK
  <1>2. \A pc \in {"idle", "set"} :
            /\ Account!Kept(t, pc) \in Account!Request
                 /\ Account!Kept(t, pc).pc = pc
            /\ Account!Kept(t, pc).seen = Account!Blank
    BY <1>1, KeptType DEF PC, Account!Later
  <1>3. /\ Account!At("idle") \in Account!Request
        /\ Account!At("idle").pc = "idle"
             /\ Account!At("idle").seen = Account!Blank
    BY AtType DEF PC, Account!Later
  <1>4. CASE Account!Goto(t, "idle") /\ UNCHANGED users
    BY <1>3, <1>4, QuietStep DEF Account!Update, Account!Create, Account!Step,
        Account!Goto, Account!Done
  <1>5. ASSUME Account!Goto(t, "set"), users' \in Seq(Account!Row), users' # <<>>
        PROVE  AccountInv'
    <2>1. req' = [req EXCEPT ![t] = Account!Kept(t, "set")]
      BY <1>5 DEF Account!Goto
    <2>2. QED
      BY <1>2, <1>5, <2>1, BlankType, RequestStep
         DEF Account!Update, Account!Create, Account!Step, AccountInv,
             Account!TypeOK, StoresAreBacked, Asks
  <1>6. CASE Account!Update(t)
    <2>1. CASE Account!Goto(t, "set")
      <3>1. users # <<>>
        BY <1>6 DEF Account!Update, Account!Step, AccountInv, ThreadsAreBacked
      <3>2. Len(users) \in Nat /\ Len(users) # 0 /\ users[1] \in Account!Row
        BY <1>1, <3>1
      <3>3. \A row \in Account!Row : [users EXCEPT ![1] = row]
                                        \in Seq(Account!Row) \ {<<>>}
        BY <1>1, <3>2
      <3>4. PICK row \in Account!Row : users' = [users EXCEPT ![1] = row]
        <4> DEFINE renamed == req[t].name \notin {None, users[1].name}
                   rekeyed == req[t].pwd # None
                   row == [name |-> IF renamed THEN req[t].name
                                    ELSE users[1].name,
                           password |-> IF rekeyed THEN req[t].pwd
                                        ELSE users[1].password]
        <4>1. row \in Account!Row
          BY <1>1, <3>2 DEF Account!Request, Account!Row
        <4>2. Account!Goto(t, "idle") => ~Account!Goto(t, "set")
          BY <1>1, <1>2, <1>3 DEF Account!Goto, Account!Done
        <4>3. users' = [users EXCEPT ![1] = row]
          BY <1>6, <2>1, <4>2 DEF Account!Update
        <4>4. QED
          BY <4>1, <4>3
      <3>5. QED
        BY <1>5, <2>1, <3>3, <3>4
    <2>2. QED
      BY <1>4, <1>6, <2>1 DEF Account!Update
  <1>7. CASE Account!Create(t)
    <2>1. CASE None \notin {req[t].name, req[t].pwd}
      <3> DEFINE row == [name |-> req[t].name, password |-> req[t].pwd]
      <3>1. row \in Account!Row
        BY <1>1, <2>1 DEF Account!Request, Account!Row
      <3>2. users' = Account!Upsert(users, row) /\ Account!Goto(t, "set")
        BY <1>7, <2>1 DEF Account!Create
      <3> HIDE DEF row
      <3>3. QED
        BY <1>1, <1>5, <3>1, <3>2, UpsertType
    <2>2. QED
      BY <1>4, <1>7, <2>1 DEF Account!Create
  <1>8. QED
    BY <1>6, <1>7

LEMMA Setting ==
    ASSUME AccountInv, NEW t \in Thread, NEW toggle \in BOOLEAN, Account!Set(t, toggle)
    PROVE  AccountInv'
  <1> DEFINE next == IF toggle # mem["default_assets"] THEN "read"
                     ELSE "toggled"
             r == [Account!Kept(t, next) EXCEPT !.toggle = toggle,
                                        !.then = "toggled"]
  <1>1. /\ req \in [Thread -> Account!Request] /\ req[t].ask \in BOOLEAN
        /\ mem \in Account!Settings
    BY DEF AccountInv, Account!TypeOK, Account!Request
  <1>2. req' = [req EXCEPT ![t] = r]
    BY DEF Account!Set
  <1>3. next \in {"read", "toggled"}
    OBVIOUS
  <1> HIDE DEF next
  <1>4. /\ Account!Kept(t, next) \in Account!Request
             /\ Account!Kept(t, next).pc = next
        /\ Account!Kept(t, next).seen = Account!Blank
    BY <1>1, <1>3, KeptType DEF PC, Account!Load, Account!Later
  <1>5. r \in Account!Request /\ r.pc = next /\ r.seen = Account!Blank
    BY <1>4 DEF Account!Request, Account!Later
  <1> HIDE DEF r
  <1>6. mem' \in Account!Settings /\ Asks(mem') = req[t].ask
    BY <1>1 DEF Account!Set, Account!Settings, Account!Field, Asks
  <1>7. migrated /\ Asks(mem') => users # <<>>
    BY <1>6 DEF Account!Set, Account!Step, AccountInv, ThreadsAreBacked
  <1>8. QED
    BY <1>2, <1>3, <1>5, <1>6, <1>7, BlankType, RequestStep
       DEF Account!Set, Account!Step, AccountInv, Account!TypeOK,
           StoresAreBacked, Asks

LEMMA Finishing ==
    ASSUME AccountInv, NEW t \in Thread, Account!SetAlone(t)
             \/ Account!Toggled(t) \/ Account!Answer(t)
    PROVE  AccountInv'
  <1>1. /\ req \in [Thread -> Account!Request] /\ req[t].toggle \in BOOLEAN
        /\ req[t].ask \in BOOLEAN /\ mem \in Account!Settings
    BY DEF AccountInv, Account!TypeOK, Account!Request
  <1>2. CASE Account!Toggled(t)
    <2> DEFINE r == [Account!Kept(t, "open") EXCEPT !.toggle = FALSE]
    <2>1. /\ Account!Kept(t, "open") \in Account!Request
               /\ Account!Kept(t, "open").pc = "open"
          /\ Account!Kept(t, "open").seen = Account!Blank
      BY <1>1, KeptType DEF PC, Account!Later
    <2>2. r \in Account!Request /\ r.pc = "open" /\ r.seen = Account!Blank
      BY <2>1 DEF Account!Request
    <2>3. req' = [req EXCEPT ![t] = r]
      BY <1>2 DEF Account!Toggled
    <2> HIDE DEF r
    <2>4. mem' \in Account!Settings /\ Asks(mem') = Asks(mem)
      BY <1>1, <1>2 DEF Account!Toggled, Account!Settings, Account!Field, Asks
    <2>5. QED
      BY <1>2, <2>2, <2>3, <2>4, BlankType, RequestStep
         DEF Account!Toggled, Account!Step, AccountInv, Account!TypeOK,
             StoresAreBacked, Asks
  <1>3. CASE Account!Answer(t)
    <2>1. Account!At("idle") \in Account!Request /\ Account!At("idle").pc = "idle"
            /\ Account!At("idle").seen = Account!Blank
      BY AtType DEF PC, Account!Later
    <2>2. QED
      BY <1>3, <2>1, QuietStep DEF Account!Answer, Account!Step, Account!Goto,
          Account!Done
  <1>4. CASE Account!SetAlone(t)
    <2> DEFINE r == Account!Kept(t, "open")
    <2>1. r \in Account!Request /\ r.pc = "open" /\ r.seen = Account!Blank
      BY <1>1, KeptType DEF PC, Account!Later
    <2>2. req' = [req EXCEPT ![t] = r]
      BY <1>4 DEF Account!SetAlone, Account!Goto
    <2> HIDE DEF r
    <2>3. mem' \in Account!Settings /\ Asks(mem') = req[t].ask
      BY <1>1, <1>4 DEF Account!SetAlone, Account!Settings, Account!Field, Asks
    <2>4. migrated /\ Asks(mem') => users # <<>>
      BY <1>4, <2>3 DEF Account!SetAlone, Account!Step, AccountInv,
           ThreadsAreBacked
    <2>5. QED
      BY <1>4, <2>1, <2>2, <2>3, <2>4, BlankType, RequestStep
         DEF Account!SetAlone, Account!Step, AccountInv, Account!TypeOK,
             StoresAreBacked, Asks
  <1>5. QED
    BY <1>2, <1>3, <1>4

LEMMA Recovering ==
    ASSUME AccountInv, NEW row \in Account!Row, Account!CreateSuperuser(row)
    PROVE  AccountInv'
  <1>1. users' \in Seq(Account!Row) /\ users' # <<>>
    BY DEF Account!CreateSuperuser, AccountInv, Account!TypeOK
  <1>2. Account!TypeOK' /\ ThreadsAreBacked'
    BY <1>1 DEF Account!CreateSuperuser, AccountInv, Account!TypeOK,
         ThreadsAreBacked
  <1>3. StoresAreBacked' /\ MigrationBacks' /\ OnlyServing'
    BY <1>1 DEF Account!CreateSuperuser, AccountInv, StoresAreBacked,
         MigrationBacks,
                OnlyServing
  <1>4. QED
    BY <1>2, <1>3 DEF AccountInv

LEMMA NextKeepsAccountInv == AccountInv
  /\ [Account!Next]_Account!vars => AccountInv'
  <1> SUFFICES ASSUME AccountInv, [Account!Next]_Account!vars PROVE AccountInv'
    OBVIOUS
  <1>1. CASE UNCHANGED Account!vars
    BY <1>1 DEF Account!vars, AccountInv, Account!TypeOK, ThreadsAreBacked,
        StoresAreBacked,
                MigrationBacks, OnlyServing
  <1>2. \A session \in 0..Len(users) : session \in Nat
    BY DEF AccountInv, Account!TypeOK
  <1>3. CASE Account!Next
    BY <1>2, <1>3, BootKeeps, FileStepsKeep, Arriving, Noting,
       Checking, Writing, Setting, Finishing, Recovering DEF Account!Next
  <1>4. QED
    BY <1>1, <1>3

\* Once the database is migrated, neither the file nor the dictionary asks for
\* a login while there is no account: apply_auth_settings(), save(), load()
\* and migration 0005, in any interleaving and with any writes failing.
THEOREM NeverLockedOut ==
  ASSUME Account!AccountAssumption
  PROVE  Account!Spec => []NobodyIsLockedOut
  <1>1. AccountInv => NobodyIsLockedOut
    BY DEF AccountInv, StoresAreBacked, NobodyIsLockedOut, Asks
  <1>2. QED
    BY <1>1, InitAccountInv, NextKeepsAccountInv, PTL DEF Account!Spec
=============================================================================

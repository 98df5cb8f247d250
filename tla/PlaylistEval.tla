---------------------------- MODULE PlaylistEval ----------------------------
(***************************************************************************)
(* Which slots play now, and until when that answer holds: the play window *)
(* of assets and playlists (src/src/anthias_server/app/models.py), and the *)
(* expansion, filter and deadline of the playlist tree (playlist_eval.py), *)
(* asked again by the viewer when the deadline has passed.                 *)
(*                                                                         *)
(* The rows are an input.  Time is the local day of the week and time of   *)
(* day; a local clock that is put forward or back is not modelled.         *)
(***************************************************************************)
EXTENDS Integers, Sequences, FiniteSets, SequencesExt

CONSTANTS
    Playlist, Asset,    \* their ids, numbers so that they can be compared
    DayLength,          \* how many ticks a day has
    MaxDepth,           \* MAX_PLAYLIST_DEPTH
    Cap,                \* WINDOWED_DEADLINE_CAP_SECONDS, in ticks
    Inputs              \* the tables to evaluate

NoTime == -1
NoDeadline == -1
AllDays == 1..7
Row == Playlist \cup Asset
Time == 0..(DayLength - 1)

(* play_days as stored: numbers, of which some may be junk.                *)
Window == [days: SUBSET (0..8), from: Time \cup {NoTime}, to: Time \cup {NoTime}]
Item == [id: Nat, playlist: Playlist, position: Nat, target: Row]
Table == [enabled: [Row -> BOOLEAN], window: [Row -> Window],
          rank: [Playlist -> Nat], items: SUBSET Item]

ASSUME EvalAssumption ==
    /\ Playlist \subseteq Nat /\ Asset \subseteq Nat /\ IsFiniteSet(Playlist)
    /\ Playlist \cap Asset = {}
    /\ DayLength \in Nat \ {0} /\ MaxDepth \in Nat /\ Cap \in Nat \ {0}
    /\ \A in \in Inputs : in \in Table

VARIABLES
    table,      \* the rows
    day, time,  \* now
    list,       \* the active slots, by their place in the expansion
    due         \* ticks until the deadline

vars == <<table, day, time, list, due>>

-----------------------------------------------------------------------------
(* PlayWindowMixin.                                                        *)
GetPlayDays(w) ==
    IF w.days \subseteq AllDays /\ w.days # {} THEN w.days ELSE AllDays

HasTimes(w) == w.from # NoTime /\ w.to # NoTime

HasWindowFilter(w) == HasTimes(w) \/ GetPlayDays(w) # AllDays

Yesterday(d) == IF d > 1 THEN d - 1 ELSE 7

(* Mutant: the hours after midnight belong to the day they are on.         *)
MatchesPlayWindowToday(w, d, t) ==
    IF ~HasTimes(w) THEN d \in GetPlayDays(w)
    ELSE IF w.from <= w.to
    THEN d \in GetPlayDays(w) /\ w.from <= t /\ t < w.to
    ELSE d \in GetPlayDays(w) /\ (t >= w.from \/ t < w.to)

MatchesPlayWindow(w, d, t) ==
    IF ~HasTimes(w) THEN d \in GetPlayDays(w)
    ELSE IF w.from <= w.to
    THEN d \in GetPlayDays(w) /\ w.from <= t /\ t < w.to
    ELSE \/ t >= w.from /\ d \in GetPlayDays(w)
         \/ t < w.from /\ t < w.to /\ Yesterday(d) \in GetPlayDays(w)

-----------------------------------------------------------------------------
(* expand_occurrences(): playlists nobody holds, in order of their ranks;  *)
(* in each its items in order, depth first.                                *)
Before(a, b) == a[1] < b[1] \/ (a[1] = b[1] /\ a[2] < b[2])

ItemsOf(in, p) ==
    SetToSortSeq({i \in in.items : i.playlist = p},
                 LAMBDA i, j : Before(<<i.position, i.id>>, <<j.position, j.id>>))

Roots(in) ==
    SetToSortSeq(Playlist \ {i.target : i \in in.items},
                 LAMBDA p, q : Before(<<in.rank[p], p>>, <<in.rank[q], q>>))

(* One level up: the playlist and the item come in front.                  *)
Under(p, i, occurrences) ==
    [k \in DOMAIN occurrences |->
        [id |-> <<i.id>> \o occurrences[k].id, asset |-> occurrences[k].asset,
         path |-> <<p>> \o occurrences[k].path]]

(* Mutant: one playlist too many on the path.                              *)
DropsSubtreePastDepth(p, seen) == p \in seen \/ Cardinality(seen) > MaxDepth

(* A cycle or an over-deep chain drops the subtree.  While no playlist is  *)
(* in two others, a cycle has no root and is never walked at all.          *)
DropsSubtree(p, seen) == p \in seen \/ Cardinality(seen) >= MaxDepth

ExpandOccurrences(in) ==
    LET Walk[seen \in SUBSET Playlist] ==
            [p \in Playlist |->
                IF DropsSubtree(p, seen) THEN <<>>
                ELSE LET items == ItemsOf(in, p) IN
                     FlattenSeq([k \in DOMAIN items |->
                    LET i == items[k]
                    IN IF i.target \in Asset
                       THEN <<[id |-> <<i.id>>, asset |-> i.target, path |-> <<p>>]>>
                       ELSE Under(p, i, Walk[seen \cup {p}][i.target])])]
    IN FlattenSeq([r \in DOMAIN Roots(in) |-> Walk[{}][Roots(in)[r]]])

(* evaluate_playlist(): is_active() of the asset and admits() of each      *)
(* playlist above it.                                                      *)
RowsOf(o) == {o.asset} \cup {o.path[k] : k \in DOMAIN o.path}

Admits(in, x, d, t) == in.enabled[x] /\ MatchesPlayWindow(in.window[x], d, t)

\* The places in the expansion of the occurrences that play.
ActiveOccurrences(in, d, t) ==
    LET occurrences == ExpandOccurrences(in)
    IN {k \in DOMAIN occurrences :
            \A x \in RowsOf(occurrences[k]) : Admits(in, x, d, t)}

(* Mutant: only the window of the asset counts.                            *)
HasBoundaryOfItsOwn(in, o) ==
    /\ \A x \in RowsOf(o) : in.enabled[x]
    /\ HasWindowFilter(in.window[o.asset])

HasBoundary(in, o) ==
    /\ \A x \in RowsOf(o) : in.enabled[x]
    /\ \E x \in RowsOf(o) : HasWindowFilter(in.window[x])

ComputeDeadline(in) ==
    LET occurrences == ExpandOccurrences(in)
    IN IF \E k \in DOMAIN occurrences : HasBoundary(in, occurrences[k])
       THEN Cap ELSE NoDeadline

-----------------------------------------------------------------------------
TypeOK ==
    /\ table \in Inputs
    /\ day \in AllDays /\ time \in Time
    /\ list \subseteq DOMAIN ExpandOccurrences(table)
    /\ due \in {NoDeadline} \cup 0..Cap

Init ==
    /\ table \in Inputs
    /\ day = 1 /\ time = 0
    /\ list = ActiveOccurrences(table, day, time)
    /\ due = ComputeDeadline(table)

(* Scheduler.refresh_playlist() when the deadline has passed.              *)
Poll ==
    /\ due = 0
    /\ list' = ActiveOccurrences(table, day, time)
    /\ due' = ComputeDeadline(table)
    /\ UNCHANGED <<table, day, time>>

Tick ==
    /\ time' = IF time = DayLength - 1 THEN 0 ELSE time + 1
    /\ day' = IF time < DayLength - 1 THEN day ELSE IF day = 7 THEN 1 ELSE day + 1
    /\ due' = IF due > 0 THEN due - 1 ELSE due
    /\ UNCHANGED <<table, list>>

Next == Poll \/ Tick

Spec == Init /\ [][Next]_vars

-----------------------------------------------------------------------------
(* What a window means: it opens at "from" on each of its days and stays   *)
(* open until "to", the next day's "to" when that is not later.            *)
InWindow(w, d, t) ==
    \E start \in GetPlayDays(w) :
        \E elapsed \in (IF d = start THEN {t} ELSE {})
                       \cup (IF d = (start % 7) + 1 THEN {t + DayLength} ELSE {}) :
            IF HasTimes(w)
            THEN /\ w.from <= elapsed
                 /\ elapsed < (IF w.from <= w.to THEN w.to ELSE w.to + DayLength)
            ELSE elapsed < DayLength

(* _matches_play_window() admits a moment exactly when some window that    *)
(* opened today or yesterday is still open, overnight windows included.    *)
WindowsMeanWhatTheySay ==
    \A x \in Row : MatchesPlayWindow(table.window[x], day, time)
                   <=> InWindow(table.window[x], day, time)

(* Without a deadline the viewer does not ask again before an edit, so     *)
(* what evaluate_playlist() told it must stay true all week.               *)
NoFlipWithoutDeadline ==
    due = NoDeadline => list = ActiveOccurrences(table, day, time)

(* A chain of items from a playlist nobody holds down to an asset, through *)
(* no playlist twice and no deeper than allowed.                           *)
IsChain(c) ==
    LET item(k) == CHOOSE i \in table.items : i.id = c[k]
    IN /\ item(1).playlist \notin {i.target : i \in table.items}
       /\ \A k \in 1..(Len(c) - 1) : item(k).target = item(k + 1).playlist
       /\ item(Len(c)).target \in Asset
       /\ Cardinality({item(k).playlist : k \in 1..Len(c)}) = Len(c)

(* The order of the two slots is decided where their chains part: between  *)
(* two roots, or between two items of one playlist.                        *)
ChainBefore(b, c) ==
    LET item(id) == CHOOSE i \in table.items : i.id = id
        k == CHOOSE k \in 1..Len(b) :
                k \in 1..Len(c) /\ b[k] # c[k] /\ \A j \in 1..(k - 1) : b[j] = c[j]
        i == item(b[k])
        j == item(c[k])
    IN IF i.playlist = j.playlist
       THEN Before(<<i.position, i.id>>, <<j.position, j.id>>)
       ELSE Before(<<table.rank[i.playlist], i.playlist>>,
                   <<table.rank[j.playlist], j.playlist>>)

Chains ==
    {c \in UNION {[1..n -> {i.id : i \in table.items}] : n \in 1..MaxDepth} :
        IsChain(c)}

(* expand_occurrences() lists every chain once, in the order of positions, *)
(* even of rows that hold a cycle or nest too deep.                        *)
ExpansionIsDepthFirst ==
    LET occurrences == ExpandOccurrences(table)
    IN /\ {occurrences[k].id : k \in DOMAIN occurrences} = Chains
       /\ \A k, l \in DOMAIN occurrences :
            k < l => ChainBefore(occurrences[k].id, occurrences[l].id)
=============================================================================

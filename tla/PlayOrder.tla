------------------------------ MODULE PlayOrder ------------------------------
(***************************************************************************)
(* The order of the Schedule: the slots of the Default playlist and the    *)
(* play_order of the assets                                                *)
(* (src/src/anthias_server/app/models.py, app/helpers.py, app/views.py,    *)
(* api/helpers.py, api/views/v2.py).                                       *)
(*                                                                         *)
(* The viewer plays the items of a playlist by (position, id).  Requests   *)
(* that speak of items write positions; those that speak of assets write   *)
(* Asset.play_order, and every save of an asset mirrors that column into   *)
(* the positions.  No handler opens a transaction: each query and each     *)
(* write is a step, and the requests of two threads interleave.            *)
(*                                                                         *)
(* PlaylistTree has the nesting of playlists; here a nested playlist is a  *)
(* slot like an asset's.  An asset is active when it is enabled, as its    *)
(* play window is the matter of PlaylistEval.                              *)
(***************************************************************************)
EXTENDS Integers, SequencesExt

CONSTANTS
    Asset,
    Nested,         \* playlists with a slot in Default
    None,
    Worker,         \* request threads
    MaxListed,      \* bound: items an order request lists
    MaxEdits,       \* bound: requests of one behaviour
    Alone           \* bound: the last so many come one at a time

OrderAssumption ==
    /\ None \notin Asset \cup Nested /\ Asset \cap Nested = {}
    /\ IsFiniteSet(Asset \cup Nested)
    /\ MaxListed \in Nat /\ MaxEdits \in Nat /\ Alone \in Nat

VARIABLES
    row,        \* the Asset rows: is_enabled and play_order
    slot,       \* the items of Default by id: their target and position
    newId,      \* primary key of the next item
    handler,    \* what each request thread has read and does next
    edits       \* bound: requests left

orderVars == <<row, slot, newId, handler, edits>>

Gone == [enabled |-> FALSE, order |-> -1]
Exists(a) == row[a] # Gone
Enabled == {a \in Asset : row[a].enabled}

\* Meta.ordering of PlaylistItem.
Precedes(i, j) ==
    \/ slot[i].at < slot[j].at
    \/ slot[i].at = slot[j].at /\ i < j

\* The domain of ahead in order; ahead[i] are those that come before i.
Sorted(ahead) ==
    [k \in 1..Cardinality(DOMAIN ahead) |->
        CHOOSE i \in DOMAIN ahead : Cardinality(ahead[i]) = k - 1]
InOrder(ids) == Sorted([i \in ids |-> {j \in ids : Precedes(j, i)}])
Order == InOrder(DOMAIN slot)

\* The place of e in s, counted from zero as list.index() does.
PlaceIn(s, e) == (CHOOSE k \in DOMAIN s : s[k] = e) - 1

\* What a request that runs alone is sent for: the items in their new order,
\* or the assets in theirs; and what it meets in the tables that it does not
\* reckon with.
NoWish == [slots |-> <<0>>, assets |-> <<>>, despite |-> "none"]
Slots(s) == [NoWish EXCEPT !.slots = s]

Resting == [pc |-> "idle", how |-> "mirror", then |-> "idle", asset |-> None,
            edit |-> Gone, ids |-> <<>>, n |-> 0, new |-> <<>>, plan |-> <<>>,
            wish |-> NoWish]

\* Besides the types: a slot of an asset does not outlive the asset.
TypeOK ==
    /\ row \in [Asset -> [enabled : BOOLEAN, order : Int]]
    /\ DOMAIN slot \subseteq 1..(newId - 1)
    /\ \A i \in DOMAIN slot :
            /\ slot[i].at \in Nat
            /\ slot[i].of \in {a \in Asset : Exists(a)} \cup Nested
    /\ DOMAIN handler = Worker
    /\ edits \in 0..MaxEdits

\* What the migrations 0009 and 0010 make of a database: a slot per asset, in
\* play order, then the playlists.  Every asset starts out enabled.
Init ==
    \E assets \in SetToAllKPermutations(Asset), lists \in SUBSET Nested :
        LET targets == assets \o SetToSeq(lists) IN
        /\ row = [a \in Asset |->
                    IF a \in ToSet(assets)
                    THEN [enabled |-> TRUE, order |-> PlaceIn(assets, a)]
                    ELSE Gone]
        /\ slot = [i \in DOMAIN targets |-> [of |-> targets[i], at |-> i - 1]]
        /\ newId = Len(targets) + 1
        /\ handler = [w \in Worker |-> Resting]
        /\ edits = MaxEdits

-----------------------------------------------------------------------------
(* Arrival: the rows named in the request are looked up. *)

Quiet == \A w \in Worker : handler[w].pc = "idle"

Begin(w, state, wish) ==
    /\ edits' = edits - 1
    /\ handler' = IF Quiet
                  THEN [handler EXCEPT ![w] = [state EXCEPT !.wish = wish]]
                  ELSE [v \in Worker |->
                            IF v = w THEN state
                            ELSE [handler[v] EXCEPT !.wish = NoWish]]
    /\ UNCHANGED <<slot, newId>>

\* get_active_asset_ids(): nothing orders equal play_order.
ActiveIds ==
    {s \in SetToSeqs(Enabled) :
        \A i, j \in DOMAIN s : i < j => row[s[i]].order <= row[s[j]].order}

\* POST /v2/assets, with the play_order of the body, and the upload form,
\* which counts the enabled rows and does not renumber.
CreateAsset(w) ==
    \E a \in {a \in Asset : ~Exists(a)} :
        LET create(n, ids, then) ==
                [Resting EXCEPT !.pc = "insert", !.asset = a, !.ids = ids,
                    !.edit = [enabled |-> TRUE, order |-> n], !.then = then]
        IN
        /\ \/ \E n \in 0..1, ids \in ActiveIds :
                Begin(w, create(n, ids, "splice"), NoWish)
           \/ Begin(w, create(Cardinality(Enabled), <<>>, "idle"), NoWish)
        /\ UNCHANGED row

Listed == {i \in DOMAIN slot : slot[i].of \in Asset}
PlayOrderOf(i) == row[slot[i].of].order

\* The assets' play_order never falls along the Schedule.
InStep ==
    \A i, j \in Listed : Precedes(i, j) => PlayOrderOf(i) <= PlayOrderOf(j)

\* The edit form and the switch of a row save every column as it was read;
\* PATCH /v2/assets/<a> may set play_order and renumbers afterwards.
EditAsset(w) ==
    \E a \in {a \in Asset : Exists(a)}, on \in BOOLEAN :
        LET save(n, then) ==
                [Resting EXCEPT !.pc = "save", !.asset = a, !.then = then,
                    !.edit = [enabled |-> on, order |-> n]]
        IN
        /\ \/ Begin(w, save(row[a].order, "idle"),
                    [Slots(Order) EXCEPT
                        !.despite = IF InStep THEN "none" ELSE "misfit"])
           \/ \E n \in 0..1 :
                Begin(w, save(n, "active"), NoWish)
        /\ UNCHANGED row

DeleteAsset(w) ==
    \E a \in {a \in Asset : Exists(a)} :
        /\ Begin(w, [Resting EXCEPT !.pc = "delete", !.asset = a],
                 Slots(InOrder({i \in DOMAIN slot : slot[i].of # a})))
        /\ UNCHANGED row

\* "enable" and "disable" of the bulk bar are one UPDATE and no save().
BulkAction(w) ==
    \E chosen \in SUBSET Asset, on \in BOOLEAN :
        /\ \E a \in chosen : Exists(a)
        /\ Begin(w, Resting, NoWish)
        /\ row' = [a \in Asset |-> IF a \in chosen /\ Exists(a)
                                   THEN [row[a] EXCEPT !.enabled = on]
                                   ELSE row[a]]

\* POST /assets/order of the API: asset ids.
OrderAssets(w) ==
    \E ids \in SetToAllKPermutations(Asset) \ {<<>>} :
        /\ Begin(w, [Resting EXCEPT !.pc = "number", !.ids = ids],
                 [NoWish EXCEPT !.assets = ids])
        /\ UNCHANGED row

\* The slots of each of refs as a group, then those of nothing in refs.
Dragged(refs) ==
    LET group(i) == IF slot[i].of \in ToSet(refs)
                    THEN PlaceIn(refs, slot[i].of) ELSE Len(refs)
    IN Sorted([i \in DOMAIN slot |->
            {j \in DOMAIN slot :
                \/ group(j) < group(i)
                \/ group(j) = group(i) /\ Precedes(j, i)}])

\* A row dragged on the home page: assets and playlists as the page lists
\* them, perhaps of a while ago.
DragRow(w) ==
    \E refs \in SetToAllKPermutations(Asset \cup Nested) \ {<<>>} :
        LET assets == SelectSeq(refs, LAMBDA t : t \in Asset) IN
        /\ Begin(w,
                 [Resting EXCEPT !.pc = IF assets = <<>> THEN "read"
                                        ELSE "number",
                                 !.how = "drag", !.ids = assets,
                                 !.new = refs],
                 Slots(Dragged(refs)))
        /\ UNCHANGED row

\* How many slots there are up to the last one of a, or all of them.
UpToLast(a) ==
    LET own == {i \in DOMAIN slot : slot[i].of = a} IN
    IF own = {} THEN Cardinality(DOMAIN slot)
    ELSE Cardinality({j \in DOMAIN slot : \E i \in own : ~Precedes(i, j)})

\* "Schedule again" of an asset row.
DuplicateAsset(w) ==
    \E a \in {a \in Asset : Exists(a)} :
        /\ Begin(w, [Resting EXCEPT !.pc = "read", !.how = "duplicate",
                                    !.new = <<a>>],
                 Slots(InsertAt(Order, UpToLast(a) + 1, newId)))
        /\ UNCHANGED row

\* Assets added to the end, all by one INSERT.
AddAssets(w) ==
    \E new \in SetToAllKPermutations({a \in Asset : Exists(a)}) \ {<<>>} :
        /\ Begin(w, [Resting EXCEPT !.pc = "read", !.how = "append",
                                    !.new = new],
                 Slots(Order \o [k \in DOMAIN new |-> newId + k - 1]))
        /\ UNCHANGED row

\* No two slots share a position.
Untied ==
    \A i, j \in DOMAIN slot : slot[i].at = slot[j].at => i = j

\* POST /v2/playlists/<id>/items with a position.
InsertItem(w) ==
    \E a \in {a \in Asset : Exists(a)}, place \in 0..(Len(Order) - 1) :
        /\ Begin(w, [Resting EXCEPT !.pc = "read", !.how = "insert",
                                    !.new = <<a>>, !.n = place],
                 [Slots(InsertAt(Order, place + 1, newId)) EXCEPT
                    !.despite = IF Untied THEN "none" ELSE "ties"])
        /\ UNCHANGED row

\* Slot i and its neighbour change places; the first has none above it.
Moved(i, up) ==
    LET here == PlaceIn(Order, i) + 1
        there == IF up THEN here - 1 ELSE here + 1
    IN IF there \notin DOMAIN Order THEN Order
       ELSE [Order EXCEPT ![here] = Order[there], ![there] = i]

\* "Up" and "down" of a slot; n is the item and edit the direction.
MoveItem(w) ==
    \E i \in DOMAIN slot, up \in BOOLEAN :
        /\ Begin(w, [Resting EXCEPT !.pc = "read", !.how = "move", !.n = i,
                                    !.edit.enabled = up],
                 Slots(Moved(i, up)))
        /\ UNCHANGED row

\* The items listed in their order, then the others in theirs.
ListedFirst(listed) == listed \o InOrder(DOMAIN slot \ ToSet(listed))

\* Items dragged into a new order; those not listed follow.
OrderItems(w) ==
    \E chosen \in {s \in SUBSET DOMAIN slot : Cardinality(s) \in 1..MaxListed} :
    \E listed \in SetToSeqs(chosen) :
        /\ Begin(w, [Resting EXCEPT !.pc = "read", !.how = "order",
                                    !.ids = listed],
                 Slots(ListedFirst(listed)))
        /\ UNCHANGED row

\* A nested playlist that loses its slot returns to the end of the Schedule.
RemoveItem(w) ==
    \E i \in DOMAIN slot :
        LET others == InOrder(DOMAIN slot \ {i}) IN
        /\ Begin(w, [Resting EXCEPT !.pc = "remove", !.n = i,
                        !.how = "append",
                        !.new = IF slot[i].of \in Nested THEN <<slot[i].of>>
                                ELSE <<>>],
                 Slots(IF slot[i].of \in Nested THEN Append(others, newId)
                       ELSE others))
        /\ UNCHANGED row

Arrive(w) ==
    /\ handler[w].pc = "idle" /\ edits > 0
    /\ edits <= Alone => Quiet
    /\ \/ CreateAsset(w) \/ EditAsset(w) \/ DeleteAsset(w) \/ BulkAction(w)
       \/ OrderAssets(w) \/ DragRow(w) \/ DuplicateAsset(w) \/ AddAssets(w)
       \/ InsertItem(w) \/ MoveItem(w) \/ OrderItems(w) \/ RemoveItem(w)

-----------------------------------------------------------------------------
(* The asset rows. *)

Becomes(w, state) ==
    /\ handler' = [handler EXCEPT ![w] =
                        IF state.pc = "idle" THEN Resting ELSE state]
    /\ UNCHANGED edits

Continue(w, pc) == Becomes(w, [handler[w] EXCEPT !.pc = pc])

Add(new, at) ==
    /\ slot' = [i \in DOMAIN slot \cup (newId..(newId + Len(new) - 1)) |->
                    IF i \in DOMAIN slot THEN slot[i]
                    ELSE [of |-> new[i - newId + 1], at |-> at + i - newId]]
    /\ newId' = newId + Len(new)

InsertRow(w) ==
    LET q == handler[w] IN
    /\ q.pc = "insert"
    /\ row' = [row EXCEPT ![q.asset] = q.edit]
    /\ Continue(w, "place")
    /\ UNCHANGED <<slot, newId>>

\* save() of a row that has been deleted inserts it again.
SaveRow(w) ==
    LET q == handler[w] IN
    /\ q.pc = "save"
    /\ row' = [row EXCEPT ![q.asset] = q.edit]
    /\ Continue(w, IF Exists(q.asset) THEN "read" ELSE "place")
    /\ UNCHANGED <<slot, newId>>

\* post_save of a created row: its slot is at its play_order, unless another
\* request has given it one.
PlaceAsset(w) ==
    LET a == handler[w].asset IN
    /\ handler[w].pc = "place"
    /\ IF Exists(a) /\ \A i \in DOMAIN slot : slot[i].of # a
       THEN Add(<<a>>, handler[w].edit.order)
       ELSE UNCHANGED <<slot, newId>>
    /\ IF Exists(a) THEN Continue(w, "read") ELSE Becomes(w, Resting)
    /\ UNCHANGED row

ReadActive(w) ==
    /\ handler[w].pc = "active"
    /\ \E ids \in ActiveIds :
            Becomes(w, [handler[w] EXCEPT !.pc = "splice", !.ids = ids])
    /\ UNCHANGED <<row, slot, newId>>

\* refresh_from_db() raises for a deleted row.
Splice(w) ==
    LET q == handler[w]
        others == Remove(q.ids, q.asset)
        place == IF row[q.asset].order < Len(others)
                 THEN row[q.asset].order ELSE Len(others)
        ids == IF row[q.asset].enabled
               THEN InsertAt(others, place + 1, q.asset) ELSE others
    IN
    /\ q.pc = "splice"
    /\ Becomes(w, IF ~Exists(q.asset) THEN Resting
                  ELSE [q EXCEPT !.pc = IF ids = <<>> THEN "read"
                                        ELSE "number",
                                 !.ids = ids, !.then = "idle"])
    /\ UNCHANGED <<row, slot, newId>>

\* One UPDATE per asset id.
NumberNext(w) ==
    LET q == handler[w]
        a == q.ids[q.n + 1]
    IN
    /\ q.pc = "number"
    /\ row' = IF Exists(a) THEN [row EXCEPT ![a].order = q.n] ELSE row
    /\ Becomes(w, [q EXCEPT !.n = q.n + 1,
                            !.pc = IF q.n + 1 = Len(q.ids) THEN "read"
                                   ELSE "number"])
    /\ UNCHANGED <<slot, newId>>

DeleteRow(w) ==
    LET a == handler[w].asset IN
    /\ handler[w].pc = "delete"
    /\ row' = [row EXCEPT ![a] = Gone]
    /\ slot' = Restrict(slot, {i \in DOMAIN slot : slot[i].of # a})
    /\ Becomes(w, Resting)
    /\ UNCHANGED newId

-----------------------------------------------------------------------------
(* The positions: read them all, work out the changed ones, write those. *)

\* Mutant: the items behind the new one are shifted, ties or not.
ShiftBehind(s, hole) ==
    [i \in {i \in ToSet(s) : slot[i].at >= hole} |-> slot[i].at + 1]

\* The changes that number the items of s from zero, leaving out place hole.
Renumber(s, hole) ==
    LET at(i) == IF PlaceIn(s, i) < hole THEN PlaceIn(s, i)
                 ELSE PlaceIn(s, i) + 1
        changed == {i \in ToSet(s) : slot[i].at # at(i)}
    IN [i \in changed |-> at(i)]

\* Asset slots are permuted among the positions they have.
MirrorPlan ==
    LET listed == InOrder(Listed)
        sorted == Sorted([i \in Listed |->
                    {j \in Listed :
                        \/ PlayOrderOf(j) < PlayOrderOf(i)
                        \/ /\ PlayOrderOf(j) = PlayOrderOf(i)
                           /\ Precedes(j, i)}])
        changed == {k \in DOMAIN listed :
                        slot[sorted[k]].at # slot[listed[k]].at}
    IN [i \in {sorted[k] : k \in changed} |->
            slot[listed[PlaceIn(sorted, i) + 1]].at]

\* bulk_update() is one statement, left out when nothing changed.
WriteLater(w, plan) ==
    Becomes(w, [handler[w] EXCEPT
        !.plan = plan,
        !.pc = IF DOMAIN plan = {} THEN handler[w].then ELSE "write"])

Mirror(w) ==
    /\ handler[w].pc = "read" /\ handler[w].how = "mirror"
    /\ WriteLater(w, MirrorPlan)
    /\ UNCHANGED <<row, slot, newId>>

\* save_schedule_ordering(): the slots of an asset move as a group.
ReadForDrag(w) ==
    /\ handler[w].pc = "read" /\ handler[w].how = "drag"
    /\ WriteLater(w, Renumber(Dragged(handler[w].new), Len(Order)))
    /\ UNCHANGED <<row, slot, newId>>

\* schedule_asset_occurrence(): the new item first, then the others around it.
ReadForDuplicate(w) ==
    LET q == handler[w]
        at == UpToLast(q.new[1])
    IN
    /\ q.pc = "read" /\ q.how = "duplicate"
    /\ Becomes(w, [q EXCEPT !.pc = "create", !.n = at,
                            !.plan = Renumber(Order, at)])
    /\ UNCHANGED <<row, slot, newId>>

AtEnd == IF Order = <<>> THEN 0 ELSE slot[Last(Order)].at + 1

ReadForAppend(w) ==
    LET q == handler[w] IN
    /\ q.pc = "read" /\ q.how = "append"
    /\ Becomes(w, [q EXCEPT !.pc = "create", !.n = AtEnd])
    /\ UNCHANGED <<row, slot, newId>>

\* A place past the end, when items have gone since, means the end.
ReadForInsert(w) ==
    LET q == handler[w]
        inside == q.n < Len(Order)
    IN
    /\ q.pc = "read" /\ q.how = "insert"
    /\ Becomes(w, [q EXCEPT !.pc = IF inside THEN "shift" ELSE "create",
                            !.n = IF inside THEN slot[Order[q.n + 1]].at
                                  ELSE AtEnd])
    /\ UNCHANGED <<row, slot, newId>>

ReadForMove(w) ==
    LET q == handler[w]
        moved == Moved(q.n, q.edit.enabled)
    IN
    /\ q.pc = "read" /\ q.how = "move"
    /\ IF q.n \notin DOMAIN slot \/ moved = Order THEN Becomes(w, Resting)
       ELSE WriteLater(w, Renumber(moved, Len(Order)))
    /\ UNCHANGED <<row, slot, newId>>

\* reorder_playlist_items(): an unknown id is refused.
ReadForOrder(w) ==
    LET listed == handler[w].ids IN
    /\ handler[w].pc = "read" /\ handler[w].how = "order"
    /\ IF ToSet(listed) \subseteq DOMAIN slot
       THEN WriteLater(w, Renumber(ListedFirst(listed), Len(Order)))
       ELSE Becomes(w, Resting)
    /\ UNCHANGED <<row, slot, newId>>

\* UPDATE ... SET position = position + 1 WHERE position >= n.
Shift(w) ==
    /\ handler[w].pc = "shift"
    /\ slot' = [i \in DOMAIN slot |->
                    IF slot[i].at >= handler[w].n
                    THEN [slot[i] EXCEPT !.at = slot[i].at + 1]
                    ELSE slot[i]]
    /\ Continue(w, "create")
    /\ UNCHANGED <<row, newId>>

\* The INSERT fails when an asset is gone or the playlist has a slot.
CreateItems(w) ==
    LET q == handler[w]
        placed == {slot[i].of : i \in DOMAIN slot}
        allowed(t) == IF t \in Asset THEN Exists(t) ELSE t \notin placed
    IN
    /\ q.pc = "create"
    /\ IF \A t \in ToSet(q.new) : allowed(t)
       THEN /\ Add(q.new, q.n)
            /\ WriteLater(w, q.plan)
       ELSE Becomes(w, Resting) /\ UNCHANGED <<slot, newId>>
    /\ UNCHANGED row

DeleteItem(w) ==
    LET q == handler[w] IN
    /\ q.pc = "remove"
    /\ slot' = Restrict(slot, DOMAIN slot \ {q.n})
    /\ Becomes(w, IF q.new = <<>> THEN Resting ELSE [q EXCEPT !.pc = "read"])
    /\ UNCHANGED <<row, newId>>

\* Rows deleted since the read stay deleted.
WritePositions(w) ==
    LET q == handler[w] IN
    /\ q.pc = "write"
    /\ slot' = [i \in DOMAIN slot |->
                    IF i \in DOMAIN q.plan
                    THEN [slot[i] EXCEPT !.at = q.plan[i]] ELSE slot[i]]
    /\ Becomes(w, [q EXCEPT !.pc = q.then, !.plan = <<>>])
    /\ UNCHANGED <<row, newId>>

Handle(w) ==
    \/ InsertRow(w) \/ SaveRow(w) \/ PlaceAsset(w) \/ ReadActive(w)
    \/ Splice(w) \/ NumberNext(w) \/ DeleteRow(w)
    \/ Mirror(w) \/ ReadForDrag(w) \/ ReadForDuplicate(w) \/ ReadForAppend(w)
    \/ ReadForInsert(w) \/ ReadForMove(w) \/ ReadForOrder(w)
    \/ Shift(w) \/ CreateItems(w) \/ DeleteItem(w) \/ WritePositions(w)

Next == \E w \in Worker : Arrive(w) \/ Handle(w)

Spec == Init /\ [][Next]_orderVars

-----------------------------------------------------------------------------
(* Properties *)

Answered(w) == handler[w].pc # "idle" /\ handler'[w].pc = "idle"

\* The answer to a request that ran alone and was sent for an order of slots.
Sent(w, despite) ==
    /\ Answered(w) /\ handler[w].wish.slots # <<0>>
    /\ handler[w].wish.despite = despite

\* In whatever order the steps of earlier requests ran: a request that runs
\* alone leaves the Schedule in the order it was sent for, with every other
\* slot where it was.  Drags, moves, removals, duplicates and additions to the
\* end do so whatever ties and gaps they find; an insertion when no two slots
\* share a position, and the save of an asset when play_order does not fall
\* along the Schedule.  What the two do otherwise is stated at the end.
AskedOrderIsKept ==
    [][ \A w \in Worker :
            Sent(w, "none") => Order' = handler[w].wish.slots ]_orderVars

-----------------------------------------------------------------------------
(* What comments and docs say and the code does not do. *)

\* "Two writes, kept in lockstep: [play_order and] the Default playlist's item
\* positions - where the playlist evaluators actually read order from": after
\* POST /assets/order the assets play in the order it lists.
OrderReachesSchedule ==
    [][ \A w \in Worker :
            Answered(w) =>
                LET asked == handler[w].wish.assets
                    order == Order'
                    of(k) == slot'[order[k]].of
                IN \A j, k \in DOMAIN order :
                    (j < k /\ {of(j), of(k)} \subseteq ToSet(asked))
                        => PlaceIn(asked, of(j)) <= PlaceIn(asked, of(k))
      ]_orderVars

\* "Optional position inserts at that slot" (v2.py): also when slots share a
\* position.  The insertion adds one to the positions behind its slot, of which
\* helpers.py says, for a duplicate, that "a blind +1 shift on a tie would leave the
\* new item's ordering to the id tiebreak".
InsertionLandsInPlace ==
    [][ \A w \in Worker :
            Sent(w, "ties") => Order' = handler[w].wish.slots ]_orderVars

\* "The mirror is a no-op when order already matches" (models.py), and it runs
\* after every save of an asset: an edit that leaves play_order alone does not
\* move slots.  A drag of items leaves play_order alone too, so the next save of
\* any asset undoes the drag.
SavesLeaveTheOrder ==
    [][ \A w \in Worker :
            Sent(w, "misfit") => Order' = handler[w].wish.slots ]_orderVars
=============================================================================

---------------------------- MODULE PlaylistTree ----------------------------
(***************************************************************************)
(* The playlist tree and the requests that edit it                         *)
(* (src/src/anthias_server/app/models.py, app/views.py, api/views/v2.py).  *)
(*                                                                         *)
(* A playlist hangs in the tree by its parent item, a row of its own.  No  *)
(* handler opens a transaction, so every query and every row write is a    *)
(* step, and requests interleave.  An item keeps its identity (id), since  *)
(* a handler deletes the row it has read and no other.                     *)
(*                                                                         *)
(* Positions, asset items and rejected requests do not change the tree and *)
(* are left out.                                                           *)
(***************************************************************************)
EXTENDS Integers

CONSTANTS
    Playlist,       \* playlist ids
    Default,        \* the playlist with is_default = True
    Request,        \* request threads
    MaxDepth,       \* MAX_PLAYLIST_DEPTH
    MaxRequests,    \* bound: requests of one behaviour
    MayRestart      \* whether the server may die with requests in flight

ASSUME TreeAssumption ==
    /\ Default \in Playlist
    /\ MaxDepth \in Nat \ {0}
    /\ MaxRequests \in Nat
    /\ MayRestart \in BOOLEAN

VARIABLES
    status,     \* of the Playlist rows: "unused", "live" or "deleted"
    item,       \* parent_item of each playlist, id = 0 for none
    nextId,     \* primary key of the next PlaylistItem
    req,        \* what each request thread has read and does next
    budget,     \* bound: requests left
    raced       \* two requests overlapped, or one was cut off

vars == <<status, item, nextId, req, budget, raced>>

NoItem == [id |-> 0, parent |-> Default]
Idle == [pc |-> "idle", target |-> Default, child |-> Default, read |-> 0,
         node |-> Default, hops |-> 0, left |-> {}]

Live == {p \in Playlist : status[p] = "live"}
HasParent(p) == item[p].id # 0

ThreadState ==
    [pc : {"idle", "parent", "walk", "detach", "attach", "children",
           "cascade", "remove", "rehome", "append"},
     target : Playlist, child : Playlist, read : Nat,
     node : Playlist, hops : 0..MaxDepth, left : SUBSET Playlist]

\* Besides the types: both ends of an item exist, and Default has no parent.
TypeOK ==
    /\ status \in [Playlist -> {"unused", "live", "deleted"}]
    /\ item \in [Playlist -> [id : Nat, parent : Playlist]]
    /\ nextId \in Nat \ {0}
    /\ req \in [Request -> ThreadState]
    /\ budget \in Nat /\ raced \in BOOLEAN
    /\ \A p \in Playlist :
            HasParent(p) => p \in Live /\ item[p].parent \in Live
    /\ Default \in Live /\ ~HasParent(Default)

Init ==
    /\ status = [p \in Playlist |-> IF p = Default THEN "live" ELSE "unused"]
    /\ item = [p \in Playlist |-> NoItem]
    /\ nextId = 1
    /\ req = [r \in Request |-> Idle]
    /\ budget = MaxRequests
    /\ raced = FALSE

-----------------------------------------------------------------------------
(* Arrival: the rows named in the request are looked up. *)

Accept(r, state) ==
    /\ req[r].pc = "idle"
    /\ budget > 0
    /\ budget' = budget - 1
    /\ raced' = (raced \/ \E q \in Request : req[q].pc # "idle")
    /\ req' = [req EXCEPT ![r] = state]
    /\ UNCHANGED <<item, nextId>>

\* POST /playlists: the row is there before its place in the tree.
Create(r) ==
    \E p \in Playlist :
        /\ status[p] = "unused"
        /\ status' = [status EXCEPT ![p] = "live"]
        /\ Accept(r, [Idle EXCEPT !.pc = "rehome", !.left = {p}])

\* POST /playlists/<target>/items with a child_playlist_id.
Nest(r) ==
    \E target \in Live, child \in Live \ {Default} :
        /\ Accept(r, [Idle EXCEPT !.pc = "parent", !.target = target,
                                  !.child = child])
        /\ UNCHANGED status

\* Mutant: the children are not read before the cascade takes their items.
DeleteUnread(r) ==
    \E target \in Live \ {Default} :
        /\ Accept(r, [Idle EXCEPT !.pc = "cascade", !.target = target])
        /\ UNCHANGED status

\* DELETE /playlists/<target>.
Delete(r) ==
    \E target \in Live \ {Default} :
        /\ Accept(r, [Idle EXCEPT !.pc = "children", !.target = target])
        /\ UNCHANGED status

\* DELETE /playlists/<parent>/items/<id> for the item of a child playlist.
RemoveItem(r) ==
    \E child \in Live :
        /\ HasParent(child)
        /\ Accept(r, [Idle EXCEPT !.pc = "remove", !.child = child,
                                  !.read = item[child].id])
        /\ UNCHANGED status

-----------------------------------------------------------------------------
(* Nesting: check, walk, detach, attach. *)

Goto(r, state) == req' = [req EXCEPT ![r] = state]
Finish(r) == Goto(r, Idle)

\* A playlist nested in a named playlist is refused.
ReadParent(r) ==
    LET q == req[r] IN
    /\ q.pc = "parent"
    /\ IF HasParent(q.child) /\ item[q.child].parent # Default
       THEN Finish(r)
       ELSE Goto(r, [q EXCEPT !.pc = "walk", !.read = item[q.child].id,
                              !.node = q.target, !.hops = 0])
    /\ UNCHANGED <<status, item, nextId, budget, raced>>

\* One turn of playlist_is_self_or_ancestor(): refuse when the child is met
\* or the bound is reached, go on when the root is passed.
Walk(r) ==
    LET q == req[r] IN
    /\ q.pc = "walk"
    /\ CASE q.node = q.child -> Finish(r)
         [] q.node # q.child /\ ~HasParent(q.node) /\ q.hops < MaxDepth ->
                Goto(r, [q EXCEPT !.pc = "detach"])
         [] q.node # q.child /\ HasParent(q.node) /\ q.hops < MaxDepth ->
                Goto(r, [q EXCEPT !.node = item[q.node].parent,
                                  !.hops = q.hops + 1])
         [] OTHER -> Finish(r)
    /\ UNCHANGED <<status, item, nextId, budget, raced>>

\* Mutant: whatever parent the child has by now is removed.
DeleteItemByChild(child, id) ==
    item' = IF id # 0 THEN [item EXCEPT ![child] = NoItem] ELSE item

\* existing_parent_item.delete(): the row that was read, if it is still there.
DeleteItem(child, id) ==
    item' = IF item[child].id = id
            THEN [item EXCEPT ![child] = NoItem] ELSE item

Detach(r) ==
    /\ req[r].pc = "detach"
    /\ DeleteItem(req[r].child, req[r].read)
    /\ Goto(r, [req[r] EXCEPT !.pc = "attach"])
    /\ UNCHANGED <<status, nextId, budget, raced>>

\* The INSERT fails when a row it names is gone or the child has a parent.
CanInsert(parent, child) ==
    {parent, child} \subseteq Live /\ ~HasParent(child)

Insert(parent, child) ==
    /\ item' = [item EXCEPT ![child] = [id |-> nextId, parent |-> parent]]
    /\ nextId' = nextId + 1

Attach(r) ==
    LET q == req[r] IN
    /\ q.pc = "attach"
    /\ Finish(r)
    /\ IF CanInsert(q.target, q.child) THEN Insert(q.target, q.child)
       ELSE UNCHANGED <<item, nextId>>
    /\ UNCHANGED <<status, budget, raced>>

-----------------------------------------------------------------------------
(* Deleting and un-nesting, and what both do for the children. *)

ReadChildren(r) ==
    LET q == req[r]
        children == {c \in Playlist :
                        HasParent(c) /\ item[c].parent = q.target}
    IN
    /\ q.pc = "children"
    /\ Goto(r, [q EXCEPT !.pc = "cascade", !.left = children])
    /\ UNCHANGED <<status, item, nextId, budget, raced>>

\* playlist.delete(): the row, its own parent item and its items.
Cascade(r) ==
    LET gone == req[r].target IN
    /\ req[r].pc = "cascade"
    /\ status' = [status EXCEPT ![gone] = "deleted"]
    /\ item' = [p \in Playlist |->
                    IF p = gone \/ item[p].parent = gone THEN NoItem
                    ELSE item[p]]
    /\ Goto(r, [req[r] EXCEPT !.pc = "rehome"])
    /\ UNCHANGED <<nextId, budget, raced>>

Unlist(r) ==
    /\ req[r].pc = "remove"
    /\ DeleteItem(req[r].child, req[r].read)
    /\ Goto(r, [req[r] EXCEPT !.pc = "rehome", !.left = {req[r].child}])
    /\ UNCHANGED <<status, nextId, budget, raced>>

\* child.refresh_from_db() raises for a deleted row;
\* append_playlist_to_default() leaves one with a parent alone.
RehomeNext(r) ==
    LET q == req[r] IN
    /\ q.pc = "rehome"
    /\ \E child \in q.left :
        CASE child \notin Live -> Finish(r)
          [] child \in Live /\ HasParent(child) ->
                Goto(r, [q EXCEPT !.left = q.left \ {child}])
          [] OTHER ->
                Goto(r, [q EXCEPT !.pc = "append", !.child = child,
                                  !.left = q.left \ {child}])
    /\ UNCHANGED <<status, item, nextId, budget, raced>>

AppendToDefault(r) ==
    LET q == req[r] IN
    /\ q.pc = "append"
    /\ IF CanInsert(Default, q.child)
       THEN Insert(Default, q.child) /\ Goto(r, [q EXCEPT !.pc = "rehome"])
       ELSE Finish(r) /\ UNCHANGED <<item, nextId>>
    /\ UNCHANGED <<status, budget, raced>>

Respond(r) ==
    /\ req[r].pc = "rehome" /\ req[r].left = {}
    /\ Finish(r)
    /\ UNCHANGED <<status, item, nextId, budget, raced>>

Restart ==
    /\ MayRestart
    /\ \E r \in Request : req[r].pc # "idle"
    /\ req' = [r \in Request |-> Idle]
    /\ raced' = TRUE
    /\ UNCHANGED <<status, item, nextId, budget>>

-----------------------------------------------------------------------------

Step(r) ==
    \/ ReadParent(r) \/ Walk(r) \/ Detach(r) \/ Attach(r)
    \/ ReadChildren(r) \/ Cascade(r) \/ Unlist(r)
    \/ RehomeNext(r) \/ AppendToDefault(r) \/ Respond(r)

Next ==
    \/ \E r \in Request : Create(r) \/ Nest(r) \/ Delete(r) \/ RemoveItem(r)
    \/ \E r \in Request : Step(r)
    \/ Restart

Spec == Init /\ [][Next]_vars

-----------------------------------------------------------------------------
(* Properties *)

\* The edits keep the shape of a tree: every way up ends, so there is no set
\* of playlists in which each has its parent.
Acyclic ==
    \A S \in (SUBSET Live) \ {{}} :
        \E p \in S : ~(HasParent(p) /\ item[p].parent \in S)

\* Between requests every playlist hangs under Default, so that it is a row of
\* the Schedule list: a set of playlists with all their parents has Default.
Quiet == \A r \in Request : req[r].pc = "idle"
EveryPlaylistIsScheduled ==
    Quiet => \A S \in (SUBSET Live) \ {{}} :
                (\A p \in S : HasParent(p) => item[p].parent \in S)
                    => Default \in S

\* As long as requests come one at a time, no playlist drops out of the
\* Schedule list.
SerialEditsStayScheduled == ~raced => EveryPlaylistIsScheduled

\* Nesting takes a playlist only out of the Schedule list: one that sits in a
\* named playlist stays there until it is removed or its parent is deleted,
\* whatever a slower nest request read before.
NestTakesOnlyFromSchedule ==
    [][ \A r \in Request, p \in Playlist :
            (HasParent(p) /\ item[p].parent # Default /\ req[r].pc = "detach"
                /\ req'[r].pc = "attach")
                => item'[p] = item[p] ]_vars

\* The k-th playlist on the way up from p, Default once the root is passed.
Up(p, k) ==
    LET up[i \in 0..k] ==
            IF i = 0 THEN p
            ELSE IF HasParent(up[i - 1]) THEN item[up[i - 1]].parent
            ELSE up[i - 1]
    IN up[k]

\* "an over-deep chain in a hand-edited DB" is the only one the expansion has
\* to drop: no playlist lies deeper than it walks.
EditsStayWithinDepth ==
    \A p \in Live : ~HasParent(Up(p, MaxDepth - 1))
=============================================================================

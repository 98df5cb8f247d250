------------------------- MODULE PlaylistTreeProofs -------------------------
(***************************************************************************)
(* What holds of the playlist tree for any number of playlists, request    *)
(* threads, requests and restarts, and of the order of the Schedule for    *)
(* any number of assets and requests.                                      *)
(*                                                                         *)
(* The tree.  Requests that come one at a time lose no playlist.  The      *)
(* argument: the walk has seen the whole way up from the target and not    *)
(* met the child, so that a nested playlist closes no cycle; and a         *)
(* playlist without a parent is one the handler at work has yet to give    *)
(* one.                                                                    *)
(*                                                                         *)
(* The order.  A request that comes alone leaves the order it was sent     *)
(* for.  The argument: what each step still to come will write is a        *)
(* function of the tables (LeadsTo), and the order it makes of them is the *)
(* one wished; a step of the handler keeps that true, and no other thread  *)
(* writes meanwhile (WishersAreAlone).  A renumbering reads each item at   *)
(* its place in the list, and rows left where they stand already are at    *)
(* it; what is pushed down, created or deleted keeps the order of the rest.*)
(***************************************************************************)
EXTENDS MCPlaylists, SequencesExt, FiniteSetTheorems, SequenceTheorems,
        TLAPS

\* Primary keys grow, so an id that was read never names a newer item.
IdsAreUsed == \A p \in Playlist : item[p].id < nextId

\* No handler has Default in hand as a playlist to move or delete.
HandlersSpareDefault ==
    \A r \in Request :
        /\ req[r].pc \in {"parent", "walk", "detach", "attach", "remove",
                          "append"}
                => req[r].child # Default
        /\ req[r].pc \in {"children", "cascade"} => req[r].target # Default
        /\ Default \notin req[r].left

\* While a nest request is past its check, the item it has read either is gone
\* or still is one of Default's.
ReadItemIsDefaults ==
    \A r \in Request :
        req[r].pc \in {"walk", "detach"} =>
            /\ req[r].read < nextId
            /\ (req[r].read # 0 /\ item[req[r].child].id = req[r].read)
                    => item[req[r].child].parent = Default

IInv ==
    /\ TypeOK
    /\ IdsAreUsed
    /\ HandlersSpareDefault
    /\ ReadItemIsDefaults

LEMMA IdleState ==
  Idle \in ThreadState /\ Idle.left = {} /\ Idle.pc = "idle"
    /\ 0 \in 0..MaxDepth
  BY TreeAssumption DEF Idle, ThreadState

LEMMA InitIInv == Init => IInv
<1> SUFFICES ASSUME Init PROVE IInv
  OBVIOUS
<1>1. raced \in BOOLEAN
  BY DEF Init
<1>2. TypeOK
  <2>1. Default \in Playlist /\ MaxRequests \in Nat
    BY TreeAssumption
  <2>2. /\ status \in [Playlist -> {"unused", "live", "deleted"}]
        /\ Default \in Live
    BY <2>1 DEF Init, Live
  <2>3. /\ item \in [Playlist -> [id : Nat, parent : Playlist]]
        /\ \A p \in Playlist : ~HasParent(p)
    BY <2>1 DEF Init, NoItem, HasParent
  <2>4. req \in [Request -> ThreadState]
    BY IdleState DEF Init
  <2>5. nextId \in Nat \ {0} /\ budget \in Nat
    BY <2>1 DEF Init
  <2>6. QED
    BY <1>1, <2>1, <2>2, <2>3, <2>4, <2>5 DEF TypeOK
<1>3. IdsAreUsed /\ HandlersSpareDefault /\ ReadItemIsDefaults
  BY DEF Init, IdsAreUsed, HandlersSpareDefault, ReadItemIsDefaults, NoItem,
         Idle
<1> QED BY <1>2, <1>3 DEF IInv

\* A step that changes no item keeps the invariant if what the thread takes
\* with it is true.
LEMMA MoveIInv ==
  ASSUME IInv, NEW r \in Request, NEW s \in ThreadState,
         s.pc \in {"parent", "walk", "detach", "attach", "remove", "append"}
            => s.child # Default,
         s.pc \in {"children", "cascade"} => s.target # Default,
         Default \notin s.left,
         s.pc \in {"walk", "detach"} =>
            /\ s.read < nextId
            /\ (s.read # 0 /\ item[s.child].id = s.read)
                    => item[s.child].parent = Default,
         req' = [req EXCEPT ![r] = s],
         status' \in [Playlist -> {"unused", "live", "deleted"}],
         \A p \in Playlist : status[p] = "live" => status'[p] = "live",
         budget' \in Nat, raced' \in BOOLEAN,
         UNCHANGED <<item, nextId>>
  PROVE  IInv'
<1>1. \A q \in Request : req'[q] = IF q = r THEN s ELSE req[q]
  BY DEF IInv, TypeOK
<1>2. TypeOK'
  BY DEF IInv, TypeOK, HasParent, Live
<1>3. IdsAreUsed'
  BY DEF IInv, IdsAreUsed
<1>4. HandlersSpareDefault'
  BY <1>1 DEF IInv, HandlersSpareDefault
<1>5. ReadItemIsDefaults'
  BY <1>1 DEF IInv, ReadItemIsDefaults
<1> QED BY <1>2, <1>3, <1>4, <1>5 DEF IInv

LEMMA ArrivalIInv ==
  ASSUME IInv, NEW r \in Request,
         Create(r) \/ Nest(r) \/ Delete(r) \/ RemoveItem(r)
  PROVE  IInv'
<1>1. budget' \in Nat /\ raced' \in BOOLEAN
  <2>1. budget \in Nat /\ raced \in BOOLEAN
    BY DEF IInv, TypeOK
  <2>2. budget > 0 /\ budget' = budget - 1
    BY DEF Create, Nest, Delete, RemoveItem, Accept
  <2>3. raced' = (raced \/ \E q \in Request : req[q].pc # "idle")
    BY DEF Create, Nest, Delete, RemoveItem, Accept
  <2>4. raced' \in BOOLEAN
    BY <2>3, Zenon
  <2> QED BY <2>1, <2>2, <2>4
<1>2. CASE Create(r)
  <2>1. PICK p \in Playlist :
            /\ status[p] = "unused"
            /\ status' = [status EXCEPT ![p] = "live"]
            /\ Accept(r, [Idle EXCEPT !.pc = "rehome", !.left = {p}])
    BY <1>2 DEF Create
  <2> DEFINE s == [Idle EXCEPT !.pc = "rehome", !.left = {p}]
  <2>2. p # Default
    BY <2>1 DEF IInv, TypeOK, Live
  <2>3. s \in ThreadState /\ s.pc = "rehome" /\ s.left = {p}
    BY IdleState DEF ThreadState
  <2>4. /\ status' \in [Playlist -> {"unused", "live", "deleted"}]
        /\ \A q \in Playlist : status[q] = "live" => status'[q] = "live"
    BY <2>1 DEF IInv, TypeOK
  <2>5. req' = [req EXCEPT ![r] = s] /\ UNCHANGED <<item, nextId>>
    BY <2>1 DEF Accept
  <2> HIDE DEF s
  <2> QED BY <1>1, <2>2, <2>3, <2>4, <2>5, MoveIInv
<1>3. CASE Nest(r)
  <2>1. PICK target \in Live, child \in Live \ {Default} :
            /\ Accept(r, [Idle EXCEPT !.pc = "parent", !.target = target,
                                      !.child = child])
            /\ UNCHANGED status
    BY <1>3 DEF Nest
  <2> DEFINE s == [Idle EXCEPT !.pc = "parent", !.target = target,
                               !.child = child]
  <2>2. /\ s \in ThreadState /\ s.pc = "parent" /\ s.left = {}
        /\ s.child # Default
    BY IdleState DEF ThreadState, Live
  <2>3. req' = [req EXCEPT ![r] = s] /\ UNCHANGED <<status, item, nextId>>
    BY <2>1 DEF Accept
  <2> HIDE DEF s
  <2> QED BY <1>1, <2>2, <2>3, MoveIInv DEF IInv, TypeOK
<1>4. CASE Delete(r)
  <2>1. PICK target \in Live \ {Default} :
            /\ Accept(r, [Idle EXCEPT !.pc = "children", !.target = target])
            /\ UNCHANGED status
    BY <1>4 DEF Delete
  <2> DEFINE s == [Idle EXCEPT !.pc = "children", !.target = target]
  <2>2. /\ s \in ThreadState /\ s.pc = "children" /\ s.left = {}
        /\ s.target # Default
    BY IdleState DEF ThreadState, Live
  <2>3. req' = [req EXCEPT ![r] = s] /\ UNCHANGED <<status, item, nextId>>
    BY <2>1 DEF Accept
  <2> HIDE DEF s
  <2> QED BY <1>1, <2>2, <2>3, MoveIInv DEF IInv, TypeOK
<1>5. CASE RemoveItem(r)
  <2>1. PICK child \in Live :
            /\ HasParent(child)
            /\ Accept(r, [Idle EXCEPT !.pc = "remove", !.child = child,
                                      !.read = item[child].id])
            /\ UNCHANGED status
    BY <1>5 DEF RemoveItem
  <2> DEFINE s == [Idle EXCEPT !.pc = "remove", !.child = child,
                               !.read = item[child].id]
  <2>2. child \in Playlist \ {Default} /\ item[child].id \in Nat
    BY <2>1 DEF IInv, TypeOK, Live
  <2>3. /\ s \in ThreadState /\ s.pc = "remove" /\ s.left = {}
        /\ s.child # Default
    BY <2>2, IdleState DEF ThreadState
  <2>4. req' = [req EXCEPT ![r] = s] /\ UNCHANGED <<status, item, nextId>>
    BY <2>1 DEF Accept
  <2> HIDE DEF s
  <2> QED BY <1>1, <2>3, <2>4, MoveIInv DEF IInv, TypeOK
<1> QED BY <1>2, <1>3, <1>4, <1>5

LEMMA ReadingIInv ==
  ASSUME IInv, NEW r \in Request,
         ReadParent(r) \/ Walk(r) \/ ReadChildren(r) \/ RehomeNext(r)
            \/ Respond(r)
  PROVE  IInv'
<1>1. /\ req[r] \in ThreadState
      /\ UNCHANGED <<status, item, nextId, budget, raced>>
      /\ budget \in Nat /\ raced \in BOOLEAN
      /\ status \in [Playlist -> {"unused", "live", "deleted"}]
  BY DEF ReadParent, Walk, ReadChildren, RehomeNext, Respond, IInv, TypeOK
<1>2. CASE Finish(r)
  BY <1>1, <1>2, IdleState, MoveIInv DEF Finish, Goto
<1>3. CASE ReadParent(r)
  <2> DEFINE s == [req[r] EXCEPT !.pc = "walk",
                                 !.read = item[req[r].child].id,
                                 !.node = req[r].target, !.hops = 0]
  <2>1. CASE HasParent(req[r].child) /\ item[req[r].child].parent # Default
    BY <1>2, <1>3, <2>1 DEF ReadParent
  <2>2. CASE ~(HasParent(req[r].child)
                /\ item[req[r].child].parent # Default)
    <3>1. item[req[r].child].id \in Nat /\ req[r].child \in Playlist
      BY <1>1 DEF IInv, TypeOK, ThreadState
    <3>2. /\ s \in ThreadState /\ s.pc = "walk"
          /\ s.child = req[r].child /\ s.left = req[r].left
          /\ s.read = item[req[r].child].id
      BY <1>1, <3>1, IdleState DEF ThreadState
    <3>3. req[r].child # Default /\ Default \notin req[r].left
      BY <1>3 DEF ReadParent, IInv, HandlersSpareDefault
    <3>4. /\ item[req[r].child].id < nextId
          /\ item[req[r].child].id # 0
                => item[req[r].child].parent = Default
      BY <2>2, <3>1 DEF IInv, IdsAreUsed, HasParent
    <3>5. req' = [req EXCEPT ![r] = s]
      BY <1>3, <2>2 DEF ReadParent, Goto
    <3> HIDE DEF s
    <3> QED BY <1>1, <3>2, <3>3, <3>4, <3>5, MoveIInv
  <2> QED BY <2>1, <2>2
<1>4. CASE Walk(r)
  <2>1. /\ req[r].child # Default /\ Default \notin req[r].left
        /\ req[r].read < nextId
        /\ (req[r].read # 0 /\ item[req[r].child].id = req[r].read)
                => item[req[r].child].parent = Default
    BY <1>4 DEF Walk, IInv, HandlersSpareDefault, ReadItemIsDefaults
  <2>2. CASE Goto(r, [req[r] EXCEPT !.pc = "detach"])
    <3> DEFINE s == [req[r] EXCEPT !.pc = "detach"]
    <3>1. /\ s \in ThreadState /\ s.pc = "detach"
          /\ s.child = req[r].child /\ s.left = req[r].left
          /\ s.read = req[r].read
      BY <1>1 DEF ThreadState
    <3>2. req' = [req EXCEPT ![r] = s]
      BY <2>2 DEF Goto
    <3> HIDE DEF s
    <3> QED BY <1>1, <2>1, <3>1, <3>2, MoveIInv
  <2>3. CASE /\ req[r].hops < MaxDepth
             /\ Goto(r, [req[r] EXCEPT !.node = item[req[r].node].parent,
                                       !.hops = req[r].hops + 1])
    <3> DEFINE s == [req[r] EXCEPT !.node = item[req[r].node].parent,
                                   !.hops = req[r].hops + 1]
    <3>1. item[req[r].node].parent \in Playlist
      BY <1>1 DEF IInv, TypeOK, ThreadState
    <3>2. req[r].hops + 1 \in 0..MaxDepth
      BY <1>1, <2>3, TreeAssumption DEF ThreadState
    <3>3. /\ s \in ThreadState /\ s.pc = "walk"
          /\ s.child = req[r].child /\ s.left = req[r].left
          /\ s.read = req[r].read
      BY <1>1, <1>4, <3>1, <3>2 DEF ThreadState, Walk
    <3>4. req' = [req EXCEPT ![r] = s]
      BY <2>3 DEF Goto
    <3> HIDE DEF s
    <3> QED BY <1>1, <2>1, <3>3, <3>4, MoveIInv
  <2> QED BY <1>2, <1>4, <2>2, <2>3 DEF Walk
<1>5. CASE ReadChildren(r)
  <2> DEFINE children == {c \in Playlist :
                            HasParent(c) /\ item[c].parent = req[r].target}
             s == [req[r] EXCEPT !.pc = "cascade", !.left = children]
  <2>1. Default \notin children
    BY DEF IInv, TypeOK
  <2>2. /\ s \in ThreadState /\ s.pc = "cascade" /\ s.left = children
        /\ s.target = req[r].target
    BY <1>1 DEF ThreadState
  <2>3. req[r].target # Default
    BY <1>5 DEF ReadChildren, IInv, HandlersSpareDefault
  <2>4. req' = [req EXCEPT ![r] = s]
    BY <1>5 DEF ReadChildren, Goto
  <2> HIDE DEF s
  <2> QED BY <1>1, <2>1, <2>2, <2>3, <2>4, MoveIInv
<1>6. CASE RehomeNext(r)
  <2>1. PICK child \in req[r].left :
            \/ Finish(r)
            \/ Goto(r, [req[r] EXCEPT !.left = req[r].left \ {child}])
            \/ Goto(r, [req[r] EXCEPT !.pc = "append", !.child = child,
                                      !.left = req[r].left \ {child}])
    BY <1>6 DEF RehomeNext
  <2>2. /\ req[r].pc = "rehome" /\ Default \notin req[r].left
        /\ child \in Playlist /\ child # Default
    BY <1>1, <1>6, <2>1
    DEF RehomeNext, IInv, HandlersSpareDefault, ThreadState
  <2>3. CASE Goto(r, [req[r] EXCEPT !.left = req[r].left \ {child}])
    <3> DEFINE s == [req[r] EXCEPT !.left = req[r].left \ {child}]
    <3>1. s \in ThreadState /\ s.pc = "rehome" /\ Default \notin s.left
      BY <1>1, <2>2 DEF ThreadState
    <3>2. req' = [req EXCEPT ![r] = s]
      BY <2>3 DEF Goto
    <3> HIDE DEF s
    <3> QED BY <1>1, <3>1, <3>2, MoveIInv
  <2>4. CASE Goto(r, [req[r] EXCEPT !.pc = "append", !.child = child,
                                    !.left = req[r].left \ {child}])
    <3> DEFINE s == [req[r] EXCEPT !.pc = "append", !.child = child,
                                   !.left = req[r].left \ {child}]
    <3>1. /\ s \in ThreadState /\ s.pc = "append" /\ s.child # Default
          /\ Default \notin s.left
      BY <1>1, <2>2 DEF ThreadState
    <3>2. req' = [req EXCEPT ![r] = s]
      BY <2>4 DEF Goto
    <3> HIDE DEF s
    <3> QED BY <1>1, <3>1, <3>2, MoveIInv
  <2> QED BY <1>2, <2>1, <2>3, <2>4
<1>7. CASE Respond(r)
  BY <1>2, <1>7 DEF Respond
<1> QED BY <1>3, <1>4, <1>5, <1>6, <1>7
LEMMA DeleteItemOnlyEmpties ==
  ASSUME IInv, NEW child \in Playlist, NEW id, DeleteItem(child, id)
  PROVE  /\ item' \in [Playlist -> [id : Nat, parent : Playlist]]
         /\ \A p \in Playlist : item'[p] = item[p] \/ item'[p] = NoItem
         /\ NoItem.id = 0 /\ NoItem.parent = Default
<1>1. NoItem \in [id : Nat, parent : Playlist] /\ NoItem.id = 0
        /\ NoItem.parent = Default
  BY TreeAssumption DEF NoItem
<1> QED BY <1>1 DEF DeleteItem, IInv, TypeOK

\* Losing items, and one row that is not Default's, breaks nothing.
LEMMA LossIInv ==
  ASSUME IInv, NEW r \in Request, NEW s \in ThreadState,
         s.pc \in {"attach", "rehome"},
         s.pc = "attach" => s.child # Default,
         Default \notin s.left,
         req' = [req EXCEPT ![r] = s],
         item' \in [Playlist -> [id : Nat, parent : Playlist]],
         \A p \in Playlist : item'[p] = item[p] \/ item'[p] = NoItem,
         status' \in [Playlist -> {"unused", "live", "deleted"}],
         Default \in Live',
         \A p \in Playlist : item'[p].id # 0
            => /\ status[p] = "live" => status'[p] = "live"
               /\ status[item[p].parent] = "live"
                    => status'[item[p].parent] = "live",
         UNCHANGED <<nextId, budget, raced>>
  PROVE  IInv'
<1>1. \A q \in Request : req'[q] = IF q = r THEN s ELSE req[q]
  BY DEF IInv, TypeOK
<1>2. NoItem.id = 0 /\ NoItem.parent = Default
  BY DEF NoItem
<1>3. TypeOK'
  <2>1. /\ req' \in [Request -> ThreadState]
        /\ nextId' \in Nat \ {0} /\ budget' \in Nat /\ raced' \in BOOLEAN
    BY DEF IInv, TypeOK
  <2>2. \A p \in Playlist : HasParent(p)'
            => p \in Live' /\ item'[p].parent \in Live'
    BY <1>2 DEF IInv, TypeOK, HasParent, Live
  <2>3. ~HasParent(Default)'
    BY <1>2, TreeAssumption DEF IInv, TypeOK, HasParent
  <2> QED BY <2>1, <2>2, <2>3 DEF TypeOK
<1>4. IdsAreUsed'
  BY SMTT(20), <1>2 DEF IInv, TypeOK, IdsAreUsed
<1>5. HandlersSpareDefault'
  BY <1>1 DEF IInv, HandlersSpareDefault
<1>6. ReadItemIsDefaults'
  <2> SUFFICES ASSUME NEW q \in Request, req'[q].pc \in {"walk", "detach"}
               PROVE  /\ req'[q].read < nextId'
                      /\ (req'[q].read # 0
                            /\ item'[req'[q].child].id = req'[q].read)
                                => item'[req'[q].child].parent = Default
    BY DEF ReadItemIsDefaults
  <2>1. req'[q] = req[q] /\ req[q].child \in Playlist
    BY <1>1 DEF IInv, TypeOK, ThreadState
  <2> QED BY <1>2, <2>1 DEF IInv, ReadItemIsDefaults
<1> QED BY <1>3, <1>4, <1>5, <1>6 DEF IInv

LEMMA LosingIInv ==
  ASSUME IInv, NEW r \in Request, Detach(r) \/ Cascade(r) \/ Unlist(r)
  PROVE  IInv'
<1>1. /\ req[r] \in ThreadState /\ req[r].child \in Playlist
      /\ req[r].target \in Playlist
  BY DEF IInv, TypeOK, ThreadState
<1>2. Default \notin req[r].left /\ Default \in Live
  BY DEF IInv, TypeOK, HandlersSpareDefault
<1>3. CASE Detach(r)
  <2> DEFINE s == [req[r] EXCEPT !.pc = "attach"]
  <2>1. /\ s \in ThreadState /\ s.pc = "attach" /\ s.left = req[r].left
        /\ s.child = req[r].child
    BY <1>1 DEF ThreadState
  <2>2. req[r].child # Default
    BY <1>3 DEF Detach, IInv, HandlersSpareDefault
  <2>3. req' = [req EXCEPT ![r] = s] /\ UNCHANGED <<status, nextId, budget, raced>>
    BY <1>3 DEF Detach, Goto
  <2>4. DeleteItem(req[r].child, req[r].read)
    BY <1>3 DEF Detach
  <2> HIDE DEF s
  <2> QED
    BY <1>1, <1>2, <2>1, <2>2, <2>3, <2>4, DeleteItemOnlyEmpties, LossIInv
    DEF IInv, TypeOK, Live
<1>4. CASE Cascade(r)
  <2> DEFINE s == [req[r] EXCEPT !.pc = "rehome"]
             gone == req[r].target
  <2>1. s \in ThreadState /\ s.pc = "rehome" /\ s.left = req[r].left
    BY <1>1 DEF ThreadState
  <2>2. gone \in Playlist /\ gone # Default
    BY <1>1, <1>4 DEF Cascade, IInv, HandlersSpareDefault
  <2>3. /\ req' = [req EXCEPT ![r] = s]
        /\ UNCHANGED <<nextId, budget, raced>>
        /\ status' = [status EXCEPT ![gone] = "deleted"]
        /\ item' = [p \in Playlist |->
                        IF p = gone \/ item[p].parent = gone THEN NoItem
                        ELSE item[p]]
    BY <1>4 DEF Cascade, Goto
  <2>4. NoItem \in [id : Nat, parent : Playlist] /\ NoItem.id = 0
    BY TreeAssumption DEF NoItem
  <2>5. /\ item' \in [Playlist -> [id : Nat, parent : Playlist]]
        /\ \A p \in Playlist : item'[p] = item[p] \/ item'[p] = NoItem
    BY <2>3, <2>4 DEF IInv, TypeOK
  <2>6. /\ status' \in [Playlist -> {"unused", "live", "deleted"}]
        /\ \A p \in Playlist : p # gone => status'[p] = status[p]
    BY <2>2, <2>3 DEF IInv, TypeOK
  <2>7. Default \in Live'
    BY <1>2, <2>2, <2>6, TreeAssumption DEF Live
  <2>8. \A p \in Playlist : item'[p].id # 0
            => p # gone /\ item[p].parent # gone /\ item[p].parent \in Playlist
    BY <2>3, <2>4 DEF IInv, TypeOK
  <2> HIDE DEF s, gone
  <2> QED BY <1>2, <2>1, <2>3, <2>5, <2>6, <2>7, <2>8, LossIInv
<1>5. CASE Unlist(r)
  <2> DEFINE s == [req[r] EXCEPT !.pc = "rehome", !.left = {req[r].child}]
  <2>1. s \in ThreadState /\ s.pc = "rehome" /\ s.left = {req[r].child}
    BY <1>1 DEF ThreadState
  <2>2. req[r].child # Default
    BY <1>5 DEF Unlist, IInv, HandlersSpareDefault
  <2>3. req' = [req EXCEPT ![r] = s] /\ UNCHANGED <<status, nextId, budget, raced>>
    BY <1>5 DEF Unlist, Goto
  <2>4. DeleteItem(req[r].child, req[r].read)
    BY <1>5 DEF Unlist
  <2> HIDE DEF s
  <2> QED
    BY <1>1, <1>2, <2>1, <2>2, <2>3, <2>4, DeleteItemOnlyEmpties, LossIInv
    DEF IInv, TypeOK, Live
<1> QED BY <1>3, <1>4, <1>5

\* A new item has a fresh id, so nobody has read it.
LEMMA InsertIInv ==
  ASSUME IInv, NEW r \in Request, NEW s \in ThreadState,
         s.pc \in {"idle", "rehome"}, Default \notin s.left,
         NEW parent \in Playlist, NEW child \in Playlist \ {Default},
         CanInsert(parent, child), Insert(parent, child),
         req' = [req EXCEPT ![r] = s],
         UNCHANGED <<status, budget, raced>>
  PROVE  IInv'
<1>1. \A q \in Request : req'[q] = IF q = r THEN s ELSE req[q]
  BY DEF IInv, TypeOK
<1> DEFINE new == [id |-> nextId, parent |-> parent]
<1>2. /\ new \in [id : Nat, parent : Playlist]
      /\ new.id = nextId /\ new.parent = parent
  BY DEF IInv, TypeOK
<1>3. /\ \A p \in Playlist : item'[p] = IF p = child THEN new ELSE item[p]
      /\ item' \in [Playlist -> [id : Nat, parent : Playlist]]
      /\ nextId' = nextId + 1 /\ nextId \in Nat \ {0}
  BY <1>2 DEF IInv, TypeOK, Insert
<1> HIDE DEF new
<1>4. TypeOK'
  <2>1. /\ req' \in [Request -> ThreadState]
        /\ nextId' \in Nat \ {0} /\ budget' \in Nat /\ raced' \in BOOLEAN
    BY <1>3 DEF IInv, TypeOK
  <2>2. \A p \in Playlist : HasParent(p)'
            => p \in Live' /\ item'[p].parent \in Live'
    BY <1>2, <1>3 DEF IInv, TypeOK, HasParent, Live, CanInsert
  <2>3. ~HasParent(Default)'
    BY <1>3, TreeAssumption DEF IInv, TypeOK, HasParent
  <2> QED BY <1>3, <2>1, <2>2, <2>3 DEF TypeOK, IInv, Live
<1>5. IdsAreUsed'
  BY <1>2, <1>3 DEF IInv, TypeOK, IdsAreUsed
<1>6. HandlersSpareDefault'
  BY <1>1 DEF IInv, HandlersSpareDefault
<1>7. ReadItemIsDefaults'
  <2> SUFFICES ASSUME NEW q \in Request, req'[q].pc \in {"walk", "detach"}
               PROVE  /\ req'[q].read < nextId'
                      /\ (req'[q].read # 0
                            /\ item'[req'[q].child].id = req'[q].read)
                                => item'[req'[q].child].parent = Default
    BY DEF ReadItemIsDefaults
  <2>1. /\ req'[q] = req[q] /\ req[q].child \in Playlist
        /\ req[q].read \in Nat /\ req[q].read < nextId
    BY <1>1 DEF IInv, TypeOK, ThreadState, ReadItemIsDefaults
  <2> QED BY <1>2, <1>3, <2>1 DEF IInv, ReadItemIsDefaults
<1> QED BY <1>4, <1>5, <1>6, <1>7 DEF IInv

LEMMA InsertingIInv ==
  ASSUME IInv, NEW r \in Request, Attach(r) \/ AppendToDefault(r)
  PROVE  IInv'
<1>1. /\ req[r] \in ThreadState /\ req[r].child \in Playlist
      /\ req[r].target \in Playlist
  BY DEF IInv, TypeOK, ThreadState
<1>2. req[r].child # Default /\ Default \notin req[r].left
  BY DEF Attach, AppendToDefault, IInv, HandlersSpareDefault
<1>3. UNCHANGED <<status, budget, raced>>
  BY DEF Attach, AppendToDefault
<1>4. CASE Finish(r) /\ UNCHANGED <<item, nextId>>
  BY <1>3, <1>4, IdleState, MoveIInv DEF Finish, Goto, IInv, TypeOK
<1>5. CASE Attach(r)
  <2>1. CASE CanInsert(req[r].target, req[r].child)
    <3>1. Insert(req[r].target, req[r].child) /\ req' = [req EXCEPT ![r] = Idle]
      BY <1>5, <2>1 DEF Attach, Finish, Goto
    <3> QED BY <1>1, <1>2, <1>3, <2>1, <3>1, IdleState, InsertIInv
  <2> QED BY <1>4, <1>5, <2>1 DEF Attach
<1>6. CASE AppendToDefault(r)
  <2>1. CASE CanInsert(Default, req[r].child)
    <3> DEFINE s == [req[r] EXCEPT !.pc = "rehome"]
    <3>1. s \in ThreadState /\ s.pc = "rehome" /\ s.left = req[r].left
      BY <1>1 DEF ThreadState
    <3>2. Insert(Default, req[r].child) /\ req' = [req EXCEPT ![r] = s]
      BY <1>6, <2>1 DEF AppendToDefault, Goto
    <3> HIDE DEF s
    <3> QED
      BY <1>1, <1>2, <1>3, <2>1, <3>1, <3>2, InsertIInv, TreeAssumption
  <2> QED BY <1>4, <1>6, <2>1 DEF AppendToDefault
<1> QED BY <1>5, <1>6

LEMMA RestartIInv == IInv /\ Restart => IInv'
<1> SUFFICES ASSUME IInv, Restart PROVE IInv'
  OBVIOUS
<1>1. /\ \A q \in Request : req'[q] = Idle
      /\ req' \in [Request -> ThreadState]
      /\ raced' = TRUE
      /\ UNCHANGED <<status, item, nextId, budget>>
  BY IdleState DEF Restart
<1>2. TypeOK'
  BY <1>1 DEF IInv, TypeOK, HasParent, Live
<1>3. IdsAreUsed' /\ HandlersSpareDefault' /\ ReadItemIsDefaults'
  BY <1>1, IdleState
  DEF IInv, IdsAreUsed, HandlersSpareDefault, ReadItemIsDefaults
<1> QED BY <1>2, <1>3 DEF IInv

LEMMA NextIInv == IInv /\ [Next]_vars => IInv'
<1> SUFFICES ASSUME IInv, [Next]_vars PROVE IInv'
  OBVIOUS
<1>1. CASE Next
  BY <1>1, ArrivalIInv, ReadingIInv, LosingIInv, InsertingIInv, RestartIInv
  DEF Next, Step
<1>2. CASE UNCHANGED vars
  BY <1>2
  DEF vars, IInv, TypeOK, IdsAreUsed, HandlersSpareDefault,
      ReadItemIsDefaults, HasParent, Live
<1> QED BY <1>1, <1>2

\* However many requests edit the tree at once and whenever the server dies,
\* every item joins two playlists that exist and Default is never nested.
THEOREM TreeTypeOK == Spec => []TypeOK
<1>1. IInv => TypeOK
  BY DEF IInv
<1> QED BY <1>1, InitIInv, NextIInv, PTL DEF Spec

LEMMA DetachIsTheOnlyWay ==
  ASSUME IInv, NEW r \in Request, Next,
         req[r].pc = "detach", req'[r].pc = "attach"
  PROVE  Detach(r)
<1>2. CASE Restart
  BY <1>2, IdleState DEF Restart
<1>3. ASSUME NEW q \in Request,
             Create(q) \/ Nest(q) \/ Delete(q) \/ RemoveItem(q)
      PROVE  FALSE
  <2>1. req[q].pc = "idle" /\ \E s : req' = [req EXCEPT ![q] = s]
    BY <1>3 DEF Create, Nest, Delete, RemoveItem, Accept
  <2> QED BY <2>1 DEF IInv, TypeOK
<1>4. ASSUME NEW q \in Request, Step(q), q # r
      PROVE  FALSE
  <2>1. \E s : req' = [req EXCEPT ![q] = s]
    BY <1>4
    DEF Step, ReadParent, Walk, Detach, Attach, ReadChildren, Cascade,
        Unlist, RehomeNext, AppendToDefault, Respond, Finish, Goto
  <2> QED BY <1>4, <2>1 DEF IInv, TypeOK
<1>5. ASSUME Step(r)
      PROVE  Detach(r)
  BY <1>5
  DEF Step, ReadParent, Walk, Attach, ReadChildren, Cascade, Unlist,
      RehomeNext, AppendToDefault, Respond
<1> QED BY <1>2, <1>3, <1>4, <1>5 DEF Next

\* A nest request removes the item it has read, and by then that item still is
\* Default's: a playlist somebody else has nested meanwhile stays where it is.
THEOREM NestSparesNamedPlaylists == Spec => NestTakesOnlyFromSchedule
<1> DEFINE P == \A r \in Request, p \in Playlist :
                  (HasParent(p) /\ item[p].parent # Default
                        /\ req[r].pc = "detach" /\ req'[r].pc = "attach")
                    => item'[p] = item[p]
<1>1. IInv /\ [Next]_vars => [P]_vars
  <2> SUFFICES ASSUME IInv, Next, NEW r \in Request, NEW p \in Playlist,
                      HasParent(p), item[p].parent # Default,
                      req[r].pc = "detach", req'[r].pc = "attach"
               PROVE  item'[p] = item[p]
    OBVIOUS
  <2>1. Detach(r)
    BY DetachIsTheOnlyWay
  <2>2. DeleteItem(req[r].child, req[r].read)
    BY <2>1 DEF Detach
  <2>3. ~(p = req[r].child /\ item[p].id = req[r].read)
    BY DEF IInv, ReadItemIsDefaults, HasParent
  <2> QED BY <2>2, <2>3 DEF DeleteItem, IInv, TypeOK
<1> QED BY <1>1, InitIInv, NextIInv, PTL DEF Spec, NestTakesOnlyFromSchedule

-----------------------------------------------------------------------------
(* Requests that come one at a time. *)

\* From the target to the playlist the walk has come to everything has been
\* looked at, and the child was not among it.
WayIsWalked(q) ==
    \E way \in SUBSET Playlist :
        /\ q.target \in way /\ q.node \in way /\ q.child \notin way \ {q.node}
        /\ \A p \in way \ {q.node} : HasParent(p) /\ item[p].parent \in way

\* The child is not on the way from the target to the root.
WayIsClear(q) ==
    \E way \in SUBSET Playlist :
        /\ q.target \in way /\ q.child \notin way
        /\ \A p \in way : HasParent(p) => item[p].parent \in way

\* What a handler knows of the rows as long as nobody else writes them.
KnowsRows(q) ==
    /\ q.pc \in {"parent", "walk", "detach", "attach"}
            => q.target \in Live /\ q.child \in Live
    /\ q.pc = "walk" => q.read = item[q.child].id /\ WayIsWalked(q)
    /\ q.pc = "detach" => q.read = item[q.child].id /\ WayIsClear(q)
    /\ q.pc = "attach" => ~HasParent(q.child) /\ WayIsClear(q)
    /\ q.pc = "cascade"
            => q.left = {c \in Playlist :
                            HasParent(c) /\ item[c].parent = q.target}
    /\ q.pc \in {"remove", "append"} => q.child \in Live
    /\ q.pc = "append" => ~HasParent(q.child)
    /\ q.pc \in {"rehome", "append"} => q.left \subseteq Live

\* The playlists a handler has yet to give a parent.
Owed(q) ==
    CASE q.pc = "attach" -> {q.child}
      [] q.pc = "rehome" -> q.left
      [] q.pc = "append" -> q.left \cup {q.child}
      [] OTHER -> {}

OneAtATime ==
    \A q, r \in Request :
        req[q].pc # "idle" /\ req[r].pc # "idle" => q = r

NoneForgotten ==
    \A p \in Live \ {Default} :
        HasParent(p) \/ \E r \in Request : p \in Owed(req[r])

SerialInv ==
    ~raced => /\ OneAtATime /\ Acyclic /\ NoneForgotten
              /\ \A r \in Request : KnowsRows(req[r])

\* The handler at work is the only one, so it alone has to be looked at.
LEMMA OnlyHandler ==
  ASSUME IInv, NEW r \in Request, NEW s \in ThreadState,
         \A q \in Request \ {r} : req[q].pc = "idle",
         req' = [req EXCEPT ![r] = s],
         Acyclic', KnowsRows(s)',
         \A p \in Live' \ {Default} : HasParent(p)' \/ p \in Owed(s)
  PROVE  SerialInv'
<1>1. \A q \in Request : req'[q] = IF q = r THEN s ELSE req[q]
  BY DEF IInv, TypeOK
<1>2. OneAtATime'
  BY <1>1 DEF OneAtATime
<1>3. NoneForgotten'
  BY <1>1 DEF NoneForgotten
<1>4. \A q \in Request : KnowsRows(req[q])'
  <2> SUFFICES ASSUME NEW q \in Request PROVE KnowsRows(req[q])'
    OBVIOUS
  <2>1. CASE q = r
    BY <1>1, <2>1
  <2>2. CASE q # r
    <3>1. req'[q].pc = "idle"
      BY <1>1, <2>2
    <3>2. QED
      BY <3>1 DEF KnowsRows
  <2>3. QED
    BY <2>1, <2>2
<1>5. QED
  BY <1>2, <1>3, <1>4 DEF SerialInv

\* As long as no item is written, what is right about the tree stays right.
LEMMA TreeUnchanged ==
  ASSUME UNCHANGED <<item, status>>
  PROVE  /\ Live' = Live /\ (Acyclic => Acyclic')
         /\ \A p : HasParent(p)' <=> HasParent(p)
         /\ \A s : (WayIsWalked(s)' <=> WayIsWalked(s))
                     /\ (WayIsClear(s)' <=> WayIsClear(s))
BY DEF Live, Acyclic, HasParent, WayIsWalked, WayIsClear

\* Between two requests every playlist but Default has a parent.
LEMMA QuietTree ==
  ASSUME SerialInv, ~raced, Quiet
  PROVE  Acyclic /\ \A p \in Live \ {Default} : HasParent(p)
<1>1. \A r \in Request : Owed(req[r]) = {}
  BY DEF Quiet, Owed
<1>2. QED
  BY <1>1 DEF SerialInv, NoneForgotten

\* A way up that ends does so at Default.
LEMMA WaysEndAtDefault ==
  ASSUME SerialInv PROVE SerialEditsStayScheduled
<1> SUFFICES ASSUME ~raced, Quiet, NEW S \in (SUBSET Live) \ {{}},
                    \A p \in S : HasParent(p) => item[p].parent \in S
             PROVE  Default \in S
  BY DEF SerialEditsStayScheduled, EveryPlaylistIsScheduled
<1>1. PICK p \in S : ~(HasParent(p) /\ item[p].parent \in S)
  BY QuietTree DEF Acyclic
<1>2. QED
  BY <1>1, QuietTree

LEMMA ArrivalSerial ==
  ASSUME IInv, SerialInv, ~raced', NEW r \in Request,
         Create(r) \/ Nest(r) \/ Delete(r) \/ RemoveItem(r)
  PROVE  SerialInv'
<1>1. ~raced /\ Quiet
  BY DEF Create, Nest, Delete, RemoveItem, Accept, Quiet
<1>2. Acyclic /\ \A p \in Live \ {Default} : HasParent(p)
  BY <1>1, QuietTree
<1>3. \A q \in Request \ {r} : req[q].pc = "idle"
  BY <1>1 DEF Quiet
<1>4. CASE Create(r)
  <2>1. PICK p \in Playlist :
            /\ status[p] = "unused"
            /\ status' = [status EXCEPT ![p] = "live"]
            /\ Accept(r, [Idle EXCEPT !.pc = "rehome", !.left = {p}])
    BY <1>4 DEF Create
  <2> DEFINE s == [Idle EXCEPT !.pc = "rehome", !.left = {p}]
  <2>2. s \in ThreadState /\ s.pc = "rehome" /\ s.left = {p}
    BY IdleState DEF ThreadState
  <2>3. req' = [req EXCEPT ![r] = s] /\ UNCHANGED item
    BY <2>1 DEF Accept
  <2> HIDE DEF s
  <2>4. Live' = Live \cup {p} /\ ~HasParent(p)
    BY <2>1 DEF IInv, TypeOK, Live
  <2>5. \A c : HasParent(c)' <=> HasParent(c)
    BY <2>3 DEF HasParent
  <2>6. Acyclic'
    <3> SUFFICES ASSUME NEW S \in (SUBSET Live') \ {{}}
                 PROVE  \E c \in S : ~(HasParent(c) /\ item[c].parent \in S)
      BY <2>3, <2>5 DEF Acyclic
    <3>1. CASE p \in S
      BY <2>4, <3>1
    <3>2. CASE p \notin S
      BY <1>2, <2>4, <3>2 DEF Acyclic
    <3>3. QED
      BY <3>1, <3>2
  <2>7. KnowsRows(s)'
    BY <2>2, <2>4 DEF KnowsRows
  <2>8. \A c \in Live' \ {Default} : HasParent(c)' \/ c \in Owed(s)
    BY <1>2, <2>2, <2>4, <2>5 DEF Owed
  <2>9. QED
    BY <1>3, <2>2, <2>3, <2>6, <2>7, <2>8, OnlyHandler
<1>5. ASSUME UNCHANGED <<status, item>>, NEW s \in ThreadState,
             req' = [req EXCEPT ![r] = s],
             s.pc \in {"parent", "children", "remove"},
             s.pc = "parent" => s.target \in Live /\ s.child \in Live,
             s.pc = "remove" => s.child \in Live
      PROVE  SerialInv'
  <2>1. Acyclic' /\ Live' = Live /\ \A p : HasParent(p)' <=> HasParent(p)
    BY <1>2, <1>5, TreeUnchanged
  <2>2. KnowsRows(s)'
    BY <1>5, <2>1 DEF KnowsRows
  <2>3. QED
    BY <1>2, <1>3, <1>5, <2>1, <2>2, OnlyHandler
<1>6. CASE Nest(r)
  <2>1. PICK target \in Live, child \in Live \ {Default} :
            /\ Accept(r, [Idle EXCEPT !.pc = "parent", !.target = target,
                                      !.child = child])
            /\ UNCHANGED status
    BY <1>6 DEF Nest
  <2> DEFINE s == [Idle EXCEPT !.pc = "parent", !.target = target,
                               !.child = child]
  <2>2. /\ s \in ThreadState /\ s.pc = "parent"
        /\ s.target = target /\ s.child = child
    BY IdleState DEF ThreadState, Live
  <2>3. req' = [req EXCEPT ![r] = s] /\ UNCHANGED <<status, item>>
    BY <2>1 DEF Accept
  <2> HIDE DEF s
  <2> QED BY <1>5, <2>1, <2>2, <2>3
<1>7. CASE Delete(r)
  <2>1. PICK target \in Live \ {Default} :
            /\ Accept(r, [Idle EXCEPT !.pc = "children", !.target = target])
            /\ UNCHANGED status
    BY <1>7 DEF Delete
  <2> DEFINE s == [Idle EXCEPT !.pc = "children", !.target = target]
  <2>2. s \in ThreadState /\ s.pc = "children"
    BY IdleState DEF ThreadState, Live
  <2>3. req' = [req EXCEPT ![r] = s] /\ UNCHANGED <<status, item>>
    BY <2>1 DEF Accept
  <2> HIDE DEF s
  <2> QED BY <1>5, <2>2, <2>3
<1>8. CASE RemoveItem(r)
  <2>1. PICK child \in Live :
            /\ Accept(r, [Idle EXCEPT !.pc = "remove", !.child = child,
                                      !.read = item[child].id])
            /\ UNCHANGED status
    BY <1>8 DEF RemoveItem
  <2> DEFINE s == [Idle EXCEPT !.pc = "remove", !.child = child,
                               !.read = item[child].id]
  <2>2. child \in Playlist /\ item[child].id \in Nat
    BY <2>1 DEF IInv, TypeOK, Live
  <2>3. s \in ThreadState /\ s.pc = "remove" /\ s.child = child
    BY <2>2, IdleState DEF ThreadState
  <2>4. req' = [req EXCEPT ![r] = s] /\ UNCHANGED <<status, item>>
    BY <2>1 DEF Accept
  <2> HIDE DEF s
  <2> QED BY <1>5, <2>1, <2>3, <2>4
<1>9. QED
  BY <1>4, <1>6, <1>7, <1>8

\* A handler that only reads.
LEMMA ReadingSerial ==
  ASSUME IInv, SerialInv, ~raced', NEW r \in Request,
         \/ ReadParent(r) \/ Walk(r) \/ ReadChildren(r) \/ RehomeNext(r)
         \/ Respond(r)
  PROVE  SerialInv'
<1> DEFINE q == req[r]
<1>1. UNCHANGED <<status, item, raced>> /\ q.pc # "idle"
  BY DEF ReadParent, Walk, ReadChildren, RehomeNext, Respond
<1>2. OneAtATime /\ Acyclic /\ NoneForgotten /\ KnowsRows(q)
  BY <1>1 DEF SerialInv
<1>3. \A p \in Request \ {r} : req[p].pc = "idle"
  BY <1>1, <1>2 DEF OneAtATime
<1>4. \A p \in Live \ {Default} : HasParent(p) \/ p \in Owed(q)
  <2>1. \A p \in Request \ {r} : Owed(req[p]) = {}
    BY <1>3 DEF Owed
  <2>2. QED
    BY <1>2, <2>1 DEF NoneForgotten
<1>5. /\ Live' = Live /\ Acyclic'
      /\ \A p : HasParent(p)' <=> HasParent(p)
      /\ \A s : (WayIsWalked(s)' <=> WayIsWalked(s))
                  /\ (WayIsClear(s)' <=> WayIsClear(s))
  BY <1>1, <1>2, TreeUnchanged
<1>6. q \in ThreadState
  BY DEF IInv, TypeOK
<1>7. ASSUME NEW s \in ThreadState, req' = [req EXCEPT ![r] = s],
             KnowsRows(s),
             \A p \in Live \ {Default} : HasParent(p) \/ p \in Owed(s)
      PROVE  SerialInv'
  <2>1. KnowsRows(s)'
    BY <1>1, <1>5, <1>7 DEF KnowsRows
  <2>2. QED
    BY <1>3, <1>5, <1>7, <2>1, OnlyHandler
<1>8. KnowsRows(Idle) /\ Owed(Idle) = {} /\ Idle \in ThreadState
  BY IdleState DEF KnowsRows, Owed
<1>9. ASSUME Finish(r), Owed(q) = {} PROVE SerialInv'
  BY <1>4, <1>7, <1>8, <1>9 DEF Finish, Goto
<1>10. CASE ReadParent(r)
  <2> DEFINE s == [q EXCEPT !.pc = "walk", !.read = item[q.child].id,
                            !.node = q.target, !.hops = 0]
  <2>1. q.pc = "parent" /\ Owed(q) = {} /\ (Finish(r) \/ Goto(r, s))
    BY <1>10 DEF ReadParent, Owed
  <2>2. item[q.child].id \in Nat
    BY <1>6 DEF IInv, TypeOK, ThreadState
  <2>3. /\ s \in ThreadState /\ s.pc = "walk" /\ s.read = item[s.child].id
        /\ s.child = q.child /\ s.target = q.target /\ s.node = s.target
    BY <1>6, <2>2, IdleState DEF ThreadState
  <2> HIDE DEF s
  <2>4. WayIsWalked(s)
    <3>1. {s.target} \in SUBSET Playlist
      BY <2>3 DEF ThreadState
    <3>2. QED
      BY <2>3, <3>1 DEF WayIsWalked
  <2>5. KnowsRows(s)
    BY <1>2, <2>1, <2>3, <2>4 DEF KnowsRows
  <2>6. ASSUME Goto(r, s) PROVE SerialInv'
    BY <1>4, <1>7, <2>1, <2>3, <2>5, <2>6 DEF Goto
  <2>7. QED
    BY <1>9, <2>1, <2>6
<1>11. CASE Walk(r)
  <2>1. q.pc = "walk" /\ Owed(q) = {}
    BY <1>11 DEF Walk, Owed
  <2>2. /\ q.target \in Live /\ q.child \in Live
        /\ q.read = item[q.child].id /\ WayIsWalked(q)
    BY <1>2, <2>1 DEF KnowsRows
  <2>3. PICK way \in SUBSET Playlist :
            /\ q.target \in way /\ q.node \in way /\ q.child \notin way \ {q.node}
            /\ \A p \in way \ {q.node} : HasParent(p) /\ item[p].parent \in way
    BY <2>2 DEF WayIsWalked
  <2>4. CASE q.node # q.child /\ ~HasParent(q.node)
               /\ Goto(r, [q EXCEPT !.pc = "detach"])
    <3> DEFINE s == [q EXCEPT !.pc = "detach"]
    <3>1. /\ s \in ThreadState /\ s.pc = "detach" /\ s.target = q.target
          /\ s.child = q.child /\ s.read = q.read
      BY <1>6 DEF ThreadState
    <3> HIDE DEF s
    <3>2. WayIsClear(s)
      BY <2>3, <2>4, <3>1 DEF WayIsClear
    <3>3. KnowsRows(s)
      BY <2>2, <3>1, <3>2 DEF KnowsRows
    <3>4. QED
      BY <1>4, <1>7, <2>1, <2>4, <3>1, <3>3 DEF Goto, s
  <2>5. CASE q.node # q.child /\ HasParent(q.node) /\ q.hops < MaxDepth
               /\ Goto(r, [q EXCEPT !.node = item[q.node].parent,
                                    !.hops = q.hops + 1])
    <3> DEFINE up == item[q.node].parent
               s == [q EXCEPT !.node = up, !.hops = q.hops + 1]
    <3>1. up \in Playlist /\ q.hops + 1 \in 0..MaxDepth
      BY <1>6, <2>5, TreeAssumption DEF IInv, TypeOK, ThreadState
    <3>2. /\ s \in ThreadState /\ s.pc = "walk" /\ s.target = q.target
          /\ s.child = q.child /\ s.read = q.read /\ s.node = up
      BY <1>6, <2>1, <3>1 DEF ThreadState
    <3> HIDE DEF s
    <3>3. WayIsWalked(s)
      <4>1. way \cup {up} \in SUBSET Playlist
        BY <3>1
      <4>2. /\ s.target \in way \cup {up} /\ s.node \in way \cup {up}
            /\ s.child \notin (way \cup {up}) \ {s.node}
        BY <2>3, <2>5, <3>2
      <4>3. \A p \in (way \cup {up}) \ {s.node} :
                HasParent(p) /\ item[p].parent \in way \cup {up}
        BY <2>3, <2>5, <3>2
      <4>4. QED
        BY <4>1, <4>2, <4>3 DEF WayIsWalked
    <3>4. KnowsRows(s)
      BY <2>2, <3>2, <3>3 DEF KnowsRows
    <3>5. QED
      BY <1>4, <1>7, <2>1, <2>5, <3>2, <3>4 DEF Goto, s
  <2>6. \/ Finish(r)
        \/ /\ q.node # q.child /\ ~HasParent(q.node)
           /\ Goto(r, [q EXCEPT !.pc = "detach"])
        \/ /\ q.node # q.child /\ HasParent(q.node) /\ q.hops < MaxDepth
           /\ Goto(r, [q EXCEPT !.node = item[q.node].parent,
                                !.hops = q.hops + 1])
    BY <1>11 DEF Walk
  <2>7. QED
    BY <1>9, <2>1, <2>4, <2>5, <2>6
<1>12. CASE ReadChildren(r)
  <2> DEFINE children == {c \in Playlist :
                            HasParent(c) /\ item[c].parent = q.target}
             s == [q EXCEPT !.pc = "cascade", !.left = children]
  <2>1. q.pc = "children" /\ Owed(q) = {} /\ Goto(r, s)
    BY <1>12 DEF ReadChildren, Owed
  <2>2. /\ s \in ThreadState /\ s.pc = "cascade" /\ s.target = q.target
        /\ s.left = children
    BY <1>6 DEF ThreadState
  <2> HIDE DEF s
  <2>3. KnowsRows(s)
    BY <2>2 DEF KnowsRows
  <2>4. QED
    BY <1>4, <1>7, <2>1, <2>2, <2>3 DEF Goto
<1>13. CASE RehomeNext(r)
  <2>1. q.pc = "rehome" /\ q.left \subseteq Live /\ Owed(q) = q.left
    BY <1>2, <1>13 DEF RehomeNext, KnowsRows, Owed
  <2>2. PICK child \in q.left :
            CASE child \notin Live -> Finish(r)
              [] child \in Live /\ HasParent(child) ->
                    Goto(r, [q EXCEPT !.left = q.left \ {child}])
              [] OTHER ->
                    Goto(r, [q EXCEPT !.pc = "append", !.child = child,
                                      !.left = q.left \ {child}])
    BY <1>13 DEF RehomeNext
  <2>3. child \in Playlist
    BY <2>1 DEF Live
  <2>4. CASE HasParent(child)
    <3> DEFINE s == [q EXCEPT !.left = q.left \ {child}]
    <3>1. Goto(r, s)
      BY <2>1, <2>2, <2>4
    <3>2. s \in ThreadState /\ s.pc = "rehome" /\ s.left = q.left \ {child}
      BY <1>6, <2>1 DEF ThreadState
    <3> HIDE DEF s
    <3>3. KnowsRows(s)
      BY <2>1, <3>2 DEF KnowsRows
    <3>4. QED
      BY <1>4, <1>7, <2>1, <2>4, <3>1, <3>2, <3>3 DEF Goto, Owed
  <2>5. CASE ~HasParent(child)
    <3> DEFINE s == [q EXCEPT !.pc = "append", !.child = child,
                              !.left = q.left \ {child}]
    <3>1. Goto(r, s)
      BY <2>1, <2>2, <2>5
    <3>2. /\ s \in ThreadState /\ s.pc = "append" /\ s.child = child
          /\ s.left = q.left \ {child}
      BY <1>6, <2>3 DEF ThreadState
    <3> HIDE DEF s
    <3>3. KnowsRows(s)
      BY <2>1, <2>5, <3>2 DEF KnowsRows
    <3>4. QED
      BY <1>4, <1>7, <2>1, <3>1, <3>2, <3>3 DEF Goto, Owed
  <2>6. QED
    BY <2>4, <2>5
<1>14. CASE Respond(r)
  BY <1>9, <1>14 DEF Respond, Owed
<1>15. QED
  BY <1>10, <1>11, <1>12, <1>13, <1>14

\* A tree that loses items is a tree.
LEMMA LossKeepsTree ==
  ASSUME IInv, Acyclic, Live' \subseteq Live,
         \A p \in Live' : item'[p] = item[p] \/ item'[p] = NoItem
  PROVE  Acyclic'
<1> SUFFICES ASSUME NEW S \in (SUBSET Live') \ {{}}
             PROVE  \E p \in S : ~(HasParent(p)' /\ item'[p].parent \in S)
  BY DEF Acyclic
<1>1. PICK p \in S : ~(HasParent(p) /\ item[p].parent \in S)
  BY DEF Acyclic
<1>2. item'[p] = item[p] \/ item'[p].id = 0
  BY DEF NoItem
<1>3. QED
  BY <1>1, <1>2 DEF HasParent

\* So is one with a new item, if the child is not on the way from the parent to
\* the root.
LEMMA InsertKeepsTree ==
  ASSUME IInv, Acyclic, NEW parent \in Playlist, NEW child \in Playlist,
         NEW way \in SUBSET Playlist, parent \in way, child \notin way,
         \A p \in way : HasParent(p) => item[p].parent \in way,
         Insert(parent, child), UNCHANGED status
  PROVE  /\ Acyclic' /\ Live' = Live /\ HasParent(child)'
         /\ \A p \in Playlist \ {child} : HasParent(p)' <=> HasParent(p)
<1>1. /\ item'[child] = [id |-> nextId, parent |-> parent]
      /\ \A p \in Playlist \ {child} : item'[p] = item[p]
      /\ nextId \in Nat \ {0}
  BY DEF Insert, IInv, TypeOK
<1>2. HasParent(child)' /\ item'[child].parent = parent
  BY <1>1 DEF HasParent
<1>3. \A p \in Playlist \ {child} : HasParent(p)' <=> HasParent(p)
  BY <1>1 DEF HasParent
<1>4. Live' = Live
  BY DEF Live
<1>5. Acyclic'
  <2> SUFFICES ASSUME NEW S \in (SUBSET Live) \ {{}}
               PROVE  \E p \in S : ~(HasParent(p)' /\ item'[p].parent \in S)
    BY <1>4 DEF Acyclic
  <2>1. S \subseteq Playlist
    BY DEF Live
  <2>2. CASE S \cap way = {}
    <3>1. PICK p \in S : ~(HasParent(p) /\ item[p].parent \in S)
      BY DEF Acyclic
    <3>2. CASE p = child
      BY <1>2, <2>2, <3>2
    <3>3. CASE p # child
      BY <1>1, <1>3, <2>1, <3>1, <3>3
    <3>4. QED
      BY <3>2, <3>3
  <2>3. CASE S \cap way # {}
    <3>1. PICK p \in S \cap way :
                ~(HasParent(p) /\ item[p].parent \in S \cap way)
      BY <2>3 DEF Acyclic
    <3>2. p # child /\ ~(HasParent(p) /\ item[p].parent \in S)
      BY <3>1
    <3>3. QED
      BY <1>1, <1>3, <2>1, <3>1, <3>2
  <2>4. QED
    BY <2>2, <2>3
<1>6. QED
  BY <1>2, <1>3, <1>4, <1>5

LEMMA WritingSerial ==
  ASSUME IInv, SerialInv, ~raced', NEW r \in Request,
         Detach(r) \/ Attach(r) \/ Cascade(r) \/ Unlist(r) \/ AppendToDefault(r)
  PROVE  SerialInv'
<1>0. PICK q \in ThreadState : q = req[r]
  BY DEF IInv, TypeOK
<1>1. UNCHANGED raced /\ q.pc # "idle"
  BY <1>0 DEF Detach, Attach, Cascade, Unlist, AppendToDefault
<1>2. OneAtATime /\ Acyclic /\ NoneForgotten /\ KnowsRows(q)
  BY <1>0, <1>1 DEF SerialInv
<1>3. \A p \in Request \ {r} : req[p].pc = "idle"
  BY <1>0, <1>1, <1>2 DEF OneAtATime
<1>4. \A p \in Live \ {Default} : HasParent(p) \/ p \in Owed(q)
  <2>1. \A p \in Request \ {r} : Owed(req[p]) = {}
    BY <1>3 DEF Owed
  <2>2. QED
    BY <1>0, <1>2, <2>1 DEF NoneForgotten
<1>5. q.child \in Playlist /\ q.target \in Playlist
  BY DEF ThreadState
<1>6. ~HasParent(Default) /\ Default \in Live
  BY DEF IInv, TypeOK
<1>7. Idle \in ThreadState /\ Owed(Idle) = {} /\ KnowsRows(Idle)'
  BY IdleState DEF KnowsRows, Owed
<1>8. CASE Detach(r)
  <2>0. PICK s \in ThreadState : s = [q EXCEPT !.pc = "attach"]
    BY <1>5 DEF ThreadState
  <2>1. /\ q.pc = "detach" /\ DeleteItem(q.child, q.read) /\ Goto(r, s)
        /\ UNCHANGED status
    BY <1>0, <1>8, <2>0 DEF Detach
  <2>2. /\ s.pc = "attach" /\ s.target = q.target
        /\ s.child = q.child
    BY <1>5, <2>0 DEF ThreadState
  <2>3. /\ q.target \in Live /\ q.child \in Live
        /\ q.read = item[q.child].id /\ WayIsClear(q)
    BY <1>2, <2>1 DEF KnowsRows
  <2>4. item' = [item EXCEPT ![q.child] = NoItem]
    BY <2>1, <2>3 DEF DeleteItem
  <2>5. /\ Live' = Live /\ ~HasParent(q.child)'
        /\ \A p \in Playlist \ {q.child} : item'[p] = item[p]
        /\ \A p \in Playlist : item'[p] = item[p] \/ item'[p] = NoItem
    BY <1>5, <2>1, <2>4 DEF Live, HasParent, NoItem, IInv, TypeOK
  <2>6. Acyclic'
    BY <1>2, <2>5, LossKeepsTree DEF Live
  <2>7. WayIsClear(s)'
    <3>1. PICK way \in SUBSET Playlist :
              /\ q.target \in way /\ q.child \notin way
              /\ \A p \in way : HasParent(p) => item[p].parent \in way
      BY <2>3 DEF WayIsClear
    <3>2. \A p \in way : HasParent(p)' => item'[p].parent \in way
      BY <2>5, <3>1 DEF HasParent
    <3>3. QED
      BY <2>2, <3>1, <3>2 DEF WayIsClear
  <2>8. KnowsRows(s)'
    BY <2>2, <2>3, <2>5, <2>7 DEF KnowsRows
  <2>9. \A p \in Live' \ {Default} : HasParent(p)' \/ p \in Owed(s)
    BY <1>4, <2>1, <2>2, <2>5 DEF Owed, HasParent, Live
  <2>10. QED
    BY <1>0, <1>3, <2>1, <2>2, <2>6, <2>8, <2>9, OnlyHandler DEF Goto
<1>9. CASE Attach(r)
  <2>1. /\ q.pc = "attach" /\ Finish(r) /\ UNCHANGED status
        /\ CanInsert(q.target, q.child) => Insert(q.target, q.child)
    BY <1>0, <1>9 DEF Attach
  <2>2. CanInsert(q.target, q.child) /\ WayIsClear(q)
    BY <1>2, <2>1 DEF KnowsRows, CanInsert
  <2>3. PICK way \in SUBSET Playlist :
            /\ q.target \in way /\ q.child \notin way
            /\ \A p \in way : HasParent(p) => item[p].parent \in way
    BY <2>2 DEF WayIsClear
  <2>4. /\ Acyclic' /\ Live' = Live /\ HasParent(q.child)'
        /\ \A p \in Playlist \ {q.child} : HasParent(p)' <=> HasParent(p)
    BY <1>2, <1>5, <2>1, <2>2, <2>3, InsertKeepsTree
  <2>5. \A p \in Live' \ {Default} : HasParent(p)' \/ p \in Owed(Idle)
    BY <1>4, <2>1, <2>4 DEF Owed, Live
  <2>6. QED
    BY <1>0, <1>3, <1>7, <2>1, <2>4, <2>5, OnlyHandler DEF Finish, Goto
<1>10. CASE Cascade(r)
  <2>0. PICK s \in ThreadState : s = [q EXCEPT !.pc = "rehome"]
    BY <1>5 DEF ThreadState
  <2>1. /\ q.pc = "cascade" /\ Goto(r, s)
        /\ status' = [status EXCEPT ![q.target] = "deleted"]
        /\ item' = [p \in Playlist |->
                        IF p = q.target \/ item[p].parent = q.target THEN NoItem
                        ELSE item[p]]
    BY <1>0, <1>10, <2>0 DEF Cascade
  <2>2. s.pc = "rehome" /\ s.left = q.left
    BY <1>5, <2>0 DEF ThreadState
  <2>3. q.left = {c \in Playlist : HasParent(c) /\ item[c].parent = q.target}
    BY <1>2, <2>1 DEF KnowsRows
  <2>4. Live' = Live \ {q.target}
    BY <1>5, <2>1 DEF Live, IInv, TypeOK
  <2>5. Acyclic'
    BY <1>2, <2>1, <2>4, LossKeepsTree DEF Live
  <2>6. q.target \notin q.left
    <3>1. ASSUME HasParent(q.target), item[q.target].parent = q.target
          PROVE  FALSE
      <4>1. {q.target} \in (SUBSET Live) \ {{}}
        BY <1>5, <3>1 DEF IInv, TypeOK
      <4>2. PICK p \in {q.target} :
                ~(HasParent(p) /\ item[p].parent \in {q.target})
        BY <1>2, <4>1 DEF Acyclic
      <4>3. QED
        BY <3>1, <4>2
    <3>2. QED
      BY <2>3, <3>1
  <2>7. q.left \subseteq Live'
    BY <2>3, <2>4, <2>6 DEF IInv, TypeOK
  <2>8. KnowsRows(s)'
    BY <2>2, <2>7 DEF KnowsRows
  <2>9. \A p \in Live' \ {Default} : HasParent(p)' \/ p \in Owed(s)
    <3> SUFFICES ASSUME NEW p \in Live' \ {Default}, p \notin q.left
                 PROVE  HasParent(p)'
      BY <2>2 DEF Owed
    <3>1. p \in Playlist /\ p # q.target /\ HasParent(p)
      BY <1>4, <2>1, <2>4 DEF Live, Owed
    <3>2. item'[p] = item[p]
      BY <2>1, <2>3, <3>1
    <3>3. QED
      BY <3>1, <3>2 DEF HasParent
  <2>10. QED
    BY <1>0, <1>3, <2>1, <2>2, <2>5, <2>8, <2>9, OnlyHandler DEF Goto
<1>11. CASE Unlist(r)
  <2>0. PICK s \in ThreadState : s = [q EXCEPT !.pc = "rehome", !.left = {q.child}]
    BY <1>5 DEF ThreadState
  <2>1. /\ q.pc = "remove" /\ DeleteItem(q.child, q.read) /\ Goto(r, s)
        /\ UNCHANGED status
    BY <1>0, <1>11, <2>0 DEF Unlist
  <2>2. s.pc = "rehome" /\ s.left = {q.child}
    BY <1>5, <2>0 DEF ThreadState
  <2>3. q.child \in Live
    BY <1>2, <2>1 DEF KnowsRows
  <2>4. /\ Live' = Live
        /\ \A p \in Playlist \ {q.child} : item'[p] = item[p]
        /\ \A p \in Playlist : item'[p] = item[p] \/ item'[p] = NoItem
    BY <1>5, <2>1 DEF Live, DeleteItem, IInv, TypeOK
  <2>5. Acyclic'
    BY <1>2, <2>4, LossKeepsTree DEF Live
  <2>6. KnowsRows(s)'
    BY <2>2, <2>3, <2>4 DEF KnowsRows
  <2>7. \A p \in Live' \ {Default} : HasParent(p)' \/ p \in Owed(s)
    BY <1>4, <2>1, <2>2, <2>4 DEF Owed, HasParent, Live
  <2>8. QED
    BY <1>0, <1>3, <2>1, <2>2, <2>5, <2>6, <2>7, OnlyHandler DEF Goto
<1>12. CASE AppendToDefault(r)
  <2>0. PICK s \in ThreadState : s = [q EXCEPT !.pc = "rehome"]
    BY <1>5 DEF ThreadState
  <2>1. /\ q.pc = "append" /\ UNCHANGED status
        /\ CanInsert(Default, q.child)
              => Insert(Default, q.child) /\ Goto(r, s)
    BY <1>0, <1>12, <2>0 DEF AppendToDefault
  <2>2. /\ s.pc = "rehome" /\ s.left = q.left
    BY <1>5, <2>0 DEF ThreadState
  <2>3. q.child \in Live /\ ~HasParent(q.child) /\ q.left \subseteq Live
    BY <1>2, <2>1 DEF KnowsRows
  <2>4. CanInsert(Default, q.child) /\ q.child # Default
    BY <1>0, <1>6, <2>1, <2>3 DEF CanInsert, IInv, HandlersSpareDefault
  <2>5. PICK way \in SUBSET Playlist : way = {Default}
    BY TreeAssumption
  <2>6. /\ Acyclic' /\ Live' = Live /\ HasParent(q.child)'
        /\ \A p \in Playlist \ {q.child} : HasParent(p)' <=> HasParent(p)
    BY <1>2, <1>5, <1>6, <2>1, <2>4, <2>5, TreeAssumption, InsertKeepsTree
  <2>7. KnowsRows(s)'
    BY <2>2, <2>3, <2>6 DEF KnowsRows
  <2>8. \A p \in Live' \ {Default} : HasParent(p)' \/ p \in Owed(s)
    BY <1>4, <2>1, <2>2, <2>6 DEF Owed, Live
  <2>9. QED
    BY <1>0, <1>3, <2>1, <2>2, <2>4, <2>6, <2>7, <2>8, OnlyHandler DEF Goto
<1>13. QED
  BY <1>8, <1>9, <1>10, <1>11, <1>12

LEMMA SerialStep == IInv /\ SerialInv /\ [Next]_vars => SerialInv'
<1> SUFFICES ASSUME IInv, SerialInv, [Next]_vars, ~raced' PROVE SerialInv'
  BY DEF SerialInv
<1>1. CASE UNCHANGED vars
  <2>1. UNCHANGED <<status, item, req, raced>>
    BY <1>1 DEF vars
  <2>2. OneAtATime' /\ NoneForgotten'
    BY <2>1 DEF SerialInv, OneAtATime, NoneForgotten, Live, HasParent
  <2>3. Acyclic' /\ \A r \in Request : KnowsRows(req[r])'
    BY <2>1, TreeUnchanged DEF SerialInv, KnowsRows
  <2>4. QED
    BY <2>2, <2>3 DEF SerialInv
<1>2. CASE Restart
  BY <1>2 DEF Restart
<1>3. CASE \E r \in Request : Create(r) \/ Nest(r) \/ Delete(r) \/ RemoveItem(r)
  BY <1>3, ArrivalSerial
<1>4. CASE \E r \in Request : Step(r)
  BY <1>4, ReadingSerial, WritingSerial DEF Step
<1>5. QED
  BY <1>1, <1>2, <1>3, <1>4 DEF Next

\* Requests that come one at a time leave every playlist under Default, whatever
\* they nest, remove and delete, for any number of playlists and any depth.
THEOREM SerialEditsKeepSchedule == Spec => []SerialEditsStayScheduled
<1>1. Init => SerialInv
  <2> SUFFICES ASSUME Init PROVE SerialInv
    OBVIOUS
  <2>1. \A p \in Playlist : ~HasParent(p)
    BY DEF Init, HasParent, NoItem
  <2>2. Live = {Default}
    BY TreeAssumption DEF Init, Live
  <2>3. \A r \in Request : req[r].pc = "idle"
    BY DEF Init, Idle
  <2>4. Acyclic
    <3> SUFFICES ASSUME NEW S \in (SUBSET Live) \ {{}}
                 PROVE  \E p \in S : ~HasParent(p)
      BY DEF Acyclic
    <3>1. PICK p \in S : p \in Live
      OBVIOUS
    <3>2. QED
      BY <2>1, <3>1 DEF Live
  <2>5. \A r \in Request : KnowsRows(req[r])
    BY <2>3 DEF KnowsRows
  <2>6. QED
    BY <2>2, <2>3, <2>4, <2>5 DEF SerialInv, OneAtATime, NoneForgotten
<1>2. SerialInv => SerialEditsStayScheduled
  BY WaysEndAtDefault
<1>3. QED
  BY <1>1, <1>2, InitIInv, NextIInv, SerialStep, PTL DEF Spec

-----------------------------------------------------------------------------
(* The order of the slots: PlayOrder. *)

\* A row of the Schedule plays an asset or a nested playlist.
Target == Asset \cup Nested
RowState == [enabled : BOOLEAN, order : Int]
SlotState == [of : Target, at : Int]

\* s lists the members of D, each once.
Lists(s, D) ==
    /\ s \in [1..Cardinality(D) -> D]
    /\ \A i \in D : \E k \in DOMAIN s : s[k] = i
    /\ \A j, k \in DOMAIN s : s[j] = s[k] => j = k

\* The order that the slots of table f have by (position, id).
Comes(f, i, j) ==
    \/ f[i].at < f[j].at
    \/ f[i].at = f[j].at /\ i < j

\* s is the order of table f.
InOrderOf(s, f) ==
    /\ Lists(s, DOMAIN f)
    /\ \A j, k \in DOMAIN s : j < k => Comes(f, s[j], s[k])

\* What the writes that are still to come make of table f.
Grown(f, new, at) ==
    [i \in DOMAIN f \cup (newId..(newId + Len(new) - 1)) |->
        IF i \in DOMAIN f THEN f[i]
        ELSE [of |-> new[i - newId + 1], at |-> at + i - newId]]
\* What pushing down by one what stands at or behind position at makes of f.
Shifted(f, at) ==
    [i \in DOMAIN f |->
        IF f[i].at >= at THEN [f[i] EXCEPT !.at = f[i].at + 1] ELSE f[i]]
\* What the renumbering plan makes of table f.
Planned(f, plan) ==
    [i \in DOMAIN f |->
        IF i \in DOMAIN plan THEN [f[i] EXCEPT !.at = plan[i]] ELSE f[i]]

\* The two tables have their columns' types, and ids are not used twice.
TablesAreTyped ==
    /\ row \in [Asset -> RowState]
    /\ newId \in Nat \ {0}
    /\ DOMAIN slot \subseteq 1..(newId - 1)
    /\ slot \in [DOMAIN slot -> SlotState]

\* A nested playlist has one slot.
OneSlotEach ==
    \A i, j \in DOMAIN slot :
        (slot[i].of = slot[j].of /\ slot[i].of \in Nested) => i = j

\* The request q is one whose sender can tell what order it leaves: alone when
\* it came, and the tables as it reckons.
Wishes(q) == q.wish.slots # << 0 >> /\ q.wish.despite = "none"

\* What a handler carries fits what it is about to do: the mirror and the
\* delete know their asset, a list of ids lists each once, and no row is listed
\* twice among what is about to be created.
HandlerIsTyped(q) ==
    /\ q \in [pc : {q.pc}, how : {q.how}, then : {"idle", "active", "splice"},
              asset : {q.asset}, edit : RowState, ids : {q.ids}, n : Int,
              new : Seq(Target), plan : {q.plan}, wish : {q.wish}]
    /\ q.pc \in {"insert", "place", "save", "delete"} => q.asset \in Asset
    /\ (\/ q.pc \in {"insert", "place", "save", "active", "splice"}
        \/ q.then # "idle") => q.how = "mirror"
    /\ q.pc = "remove" => q.how = "append"
    /\ q.how = "insert" => q.pc # "number" /\ (q.pc = "read" => q.n \in Nat)
    /\ q.how = "order" => Lists(q.ids, Play!ToSet(q.ids))
    /\ \A i \in DOMAIN q.plan : q.plan[i] \in Int
    /\ \A j, k \in DOMAIN q.new : q.new[j] = q.new[k] => j = k

\* Every handler's state is typed, and who wishes is at work.
HandlersAreTyped ==
    /\ handler = [w \in Worker |-> handler[w]]
    /\ \A w \in Worker :
            /\ HandlerIsTyped(handler[w])
            /\ Wishes(handler[w]) => handler[w].pc # "idle"

\* A request that wishes runs alone.
WishersAreAlone ==
    \A v, w \in Worker :
        (Wishes(handler[w]) /\ v # w) => handler[v].pc = "idle"

\* A slot for t can be created: t's row exists, or t is a playlist that has no
\* slot yet.
MayPlace(t) ==
    IF t \in Asset THEN Play!Exists(t)
    ELSE \A i \in DOMAIN slot : slot[i].of # t

\* What a request is about to do makes the order it was sent for.
ReadLeadsTo(q, s) ==
    \/ q.how = "mirror" /\ s = Play!Order /\ Play!InStep
    \/ q.how = "drag" /\ s = Play!Dragged(q.new)
    \/ /\ q.how = "duplicate"
       /\ \E a \in Asset : /\ q.new = <<a>> /\ Play!Exists(a)
                           /\ s = InsertAt(Play!Order, Play!UpToLast(a) + 1,
                                           newId)
    \/ /\ q.how = "append" /\ q.plan = <<>>
       /\ \A k \in DOMAIN q.new : MayPlace(q.new[k])
       /\ s = Play!Order \o [k \in DOMAIN q.new |-> newId + k - 1]
    \/ /\ q.how = "insert" /\ q.plan = <<>>
       /\ \E a \in Asset : q.new = <<a>> /\ Play!Exists(a)
       /\ q.n \in 0..(Len(Play!Order) - 1) /\ Play!Untied
       /\ s = InsertAt(Play!Order, q.n + 1, newId)
    \/ /\ q.how = "move" /\ q.n \in DOMAIN slot
       /\ s = Play!Moved(q.n, q.edit.enabled)
    \/ /\ q.how = "order"
       /\ \E D \in SUBSET DOMAIN slot : Lists(q.ids, D)
       /\ s = Play!ListedFirst(q.ids)

\* What the steps that are still to come of the handler state q make of the
\* tables, if nothing else writes them, is the order s.
LeadsTo(q, s) ==
    \/ /\ q.pc = "save" /\ q.how = "mirror"
       /\ q.asset \in Asset /\ Play!Exists(q.asset)
       /\ q.edit.order = row[q.asset].order
       /\ s = Play!Order /\ Play!InStep
    \/ q.pc = "number" /\ q.how = "drag" /\ s = Play!Dragged(q.new)
    \/ /\ q.pc = "delete"
       /\ s = Play!InOrder({i \in DOMAIN slot : slot[i].of # q.asset})
    \/ /\ q.pc = "remove" /\ q.how = "append" /\ q.plan = <<>>
       /\ q.n \in DOMAIN slot
       /\ \/ q.new = <<>> /\ s = Play!InOrder(DOMAIN slot \ {q.n})
          \/ /\ q.new = <<slot[q.n].of>> /\ slot[q.n].of \in Nested
             /\ s = Append(Play!InOrder(DOMAIN slot \ {q.n}), newId)
    \/ q.pc = "read" /\ ReadLeadsTo(q, s)
    \/ /\ q.pc = "shift" /\ q.plan = <<>>
       /\ \A k \in DOMAIN q.new : MayPlace(q.new[k])
       /\ InOrderOf(s, Grown(Shifted(slot, q.n), q.new, q.n))
    \/ /\ q.pc = "create"
       /\ \A k \in DOMAIN q.new : MayPlace(q.new[k])
       /\ InOrderOf(s, Planned(Grown(slot, q.new, q.n), q.plan))
    \/ q.pc = "write" /\ InOrderOf(s, Planned(slot, q.plan))

\* Every request that wishes is on its way to the order it was sent for.
WishesComeTrue ==
    \A w \in Worker : \A q \in {handler[w]} : \A s \in {q.wish.slots} :
        Wishes(q) => q.then = "idle" /\ LeadsTo(q, s)

\* The inductive invariant.
OrderInv ==
    /\ TablesAreTyped
    /\ OneSlotEach
    /\ HandlersAreTyped
    /\ WishersAreAlone
    /\ WishesComeTrue

-----------------------------------------------------------------------------
(* What Sorted makes of a finite set and a total order of it. *)

\* ahead gives each member of D what stands ahead of it in a total order.
IsOrdering(ahead, D) ==
    /\ ahead \in [D -> SUBSET D]
    /\ \A i \in D : i \notin ahead[i]
    /\ \A i, j \in D : j \in ahead[i] => ahead[j] \subseteq ahead[i]
    /\ \A i, j \in D : i = j \/ i \in ahead[j] \/ j \in ahead[i]

\* Who comes later has more ahead of it, and every count is taken.
LEMMA RanksAreDistinct ==
  ASSUME NEW D, IsFiniteSet(D), NEW ahead, IsOrdering(ahead, D)
  PROVE  /\ \A i \in D : Cardinality(ahead[i]) \in 0..(Cardinality(D) - 1)
         /\ \A i, j \in D :
                j \in ahead[i] => Cardinality(ahead[j]) < Cardinality(ahead[i])
         /\ \A k \in 1..Cardinality(D) :
                \E i \in D : Cardinality(ahead[i]) = k - 1
<1>0. Cardinality(D) \in Nat
  BY FS_CardinalityType
<1>1. ASSUME NEW i \in D PROVE Cardinality(ahead[i]) \in 0..(Cardinality(D) - 1)
  <2>1. ahead[i] \subseteq D /\ ahead[i] # D
    BY DEF IsOrdering
  <2>2. IsFiniteSet(ahead[i]) /\ Cardinality(ahead[i]) <= Cardinality(D)
        /\ Cardinality(ahead[i]) # Cardinality(D)
    BY <2>1, FS_Subset
  <2>3. Cardinality(ahead[i]) \in Nat
    BY <2>2, FS_CardinalityType
  <2>4. QED
    BY <1>0, <2>2, <2>3
<1>2. ASSUME NEW i \in D, NEW j \in D, j \in ahead[i]
      PROVE  Cardinality(ahead[j]) < Cardinality(ahead[i])
  <2>1. /\ ahead[j] \subseteq ahead[i] /\ ahead[j] # ahead[i]
        /\ ahead[i] \subseteq D
    BY <1>2 DEF IsOrdering
  <2>2. IsFiniteSet(ahead[i])
    BY <2>1, FS_Subset
  <2>3. Cardinality(ahead[j]) <= Cardinality(ahead[i])
        /\ Cardinality(ahead[j]) # Cardinality(ahead[i])
    BY <2>1, <2>2, FS_Subset
  <2>4. QED
    BY <1>1, <2>3
<1>3. ASSUME NEW k \in 1..Cardinality(D)
      PROVE  \E i \in D : Cardinality(ahead[i]) = k - 1
  <2> DEFINE rank == [i \in D |-> Cardinality(ahead[i]) + 1]
  <2>1. rank \in [D -> 1..Cardinality(D)]
    BY <1>0, <1>1
  <2>2. ASSUME NEW i \in D, NEW j \in D, rank[i] = rank[j] PROVE i = j
    <3>1. Cardinality(ahead[i]) = Cardinality(ahead[j])
      BY <1>1, <2>2
    <3>2. ~(Cardinality(ahead[i]) < Cardinality(ahead[j]))
          /\ ~(Cardinality(ahead[j]) < Cardinality(ahead[i]))
      BY <1>1, <3>1
    <3>3. QED
      BY <1>2, <3>2 DEF IsOrdering
  <2>3. rank \in Injection(D, 1..Cardinality(D))
    BY <2>1, <2>2 DEF Injection, IsInjective
  <2>4. IsFiniteSet(1..Cardinality(D))
        /\ Cardinality(1..Cardinality(D)) = Cardinality(D)
    BY <1>0, FS_Interval
  <2>5. rank \in Surjection(D, 1..Cardinality(D))
    BY <2>3, <2>4, FS_Injection
  <2>6. PICK i \in D : rank[i] = k
    BY <2>5 DEF Surjection
  <2>7. QED
    BY <2>6, <1>1
<1>4. QED
  BY <1>1, <1>2, <1>3

\* PlayOrder counts as this module does.
LEMMA SameCount == \A S : Play!Cardinality(S) = Cardinality(S)
BY DEF Cardinality, Play!Cardinality

\* Sorted lists the set, each member once and behind what is ahead of it.
LEMMA SortedLists ==
  ASSUME NEW D, IsFiniteSet(D), NEW ahead, IsOrdering(ahead, D)
  PROVE  /\ Lists(Play!Sorted(ahead), D)
         /\ \A j, k \in 1..Cardinality(D) :
                j < k => Play!Sorted(ahead)[j] \in ahead[Play!Sorted(ahead)[k]]
<1> DEFINE s == Play!Sorted(ahead)
           n == Cardinality(D)
           rank(i) == Cardinality(ahead[i])
<1>0. n \in Nat /\ DOMAIN ahead = D
  BY FS_CardinalityType DEF IsOrdering
<1>1. s = [k \in 1..n |-> CHOOSE i \in D : rank(i) = k - 1]
  BY <1>0, SameCount DEF Play!Sorted
<1>2. \A k \in 1..n : s[k] \in D /\ rank(s[k]) = k - 1
  <2>1. ASSUME NEW k \in 1..n PROVE s[k] \in D /\ rank(s[k]) = k - 1
    <3>1. \E i \in D : rank(i) = k - 1
      BY RanksAreDistinct
    <3>2. s[k] = CHOOSE i \in D : rank(i) = k - 1
      BY <1>1
    <3>3. QED
      BY <3>1, <3>2
  <2>2. QED
    BY <2>1
<1>3. \A i, j \in D : rank(i) = rank(j) => i = j
  <2>1. ASSUME NEW i \in D, NEW j \in D, rank(i) = rank(j) PROVE i = j
    <3>1. rank(i) \in Int /\ rank(j) \in Int
      BY RanksAreDistinct
    <3>2. i \notin ahead[j] /\ j \notin ahead[i]
      BY <2>1, <3>1, RanksAreDistinct
    <3>3. QED
      BY <3>2 DEF IsOrdering
  <2>2. QED
    BY <2>1
<1>4. s \in [1..n -> D]
  BY <1>1, <1>2
<1>5. \A i \in D : \E k \in 1..n : s[k] = i
  <2>1. ASSUME NEW i \in D PROVE \E k \in 1..n : s[k] = i
    <3>1. rank(i) \in 0..(n - 1)
      BY RanksAreDistinct
    <3>2. rank(i) + 1 \in 1..n /\ (rank(i) + 1) - 1 = rank(i)
      BY <3>1, <1>0
    <3>3. s[rank(i) + 1] \in D /\ rank(s[rank(i) + 1]) = rank(i)
      BY <1>2, <3>2
    <3>4. s[rank(i) + 1] = i
      BY <1>3, <3>3
    <3>5. QED
      BY <3>2, <3>4
  <2>2. QED
    BY <2>1
<1>6. \A j, k \in 1..n : s[j] = s[k] => j = k
  BY <1>2, <1>0
<1>7. ASSUME NEW j \in 1..n, NEW k \in 1..n, j < k PROVE s[j] \in ahead[s[k]]
  <2>1. s[j] # s[k]
    BY <1>6, <1>7
  <2>2. s[k] \notin ahead[s[j]]
    <3>1. SUFFICES ASSUME s[k] \in ahead[s[j]] PROVE FALSE
      OBVIOUS
    <3>2. rank(s[k]) < rank(s[j])
      BY <3>1, <1>2, RanksAreDistinct
    <3>3. QED
      BY <3>2, <1>2, <1>7
  <2>3. QED
    BY <1>2, <2>1, <2>2 DEF IsOrdering
<1> HIDE DEF s
<1>8. Lists(s, D)
  BY <1>4, <1>5, <1>6 DEF Lists
<1>9. QED
  BY <1>7, <1>8 DEF s

\* A set is listed in the order given in one way only.
LEMMA SortedIs ==
  ASSUME NEW D, IsFiniteSet(D), NEW ahead, IsOrdering(ahead, D),
         NEW s, Lists(s, D),
         \A j, k \in DOMAIN s : j < k => s[j] \in ahead[s[k]]
  PROVE  Play!Sorted(ahead) = s
<1> DEFINE n == Cardinality(D)
<1>0. n \in Nat /\ s \in [1..n -> D] /\ DOMAIN ahead = D
  BY FS_CardinalityType DEF IsOrdering, Lists
<1>1. ASSUME NEW k \in 1..n PROVE Cardinality(ahead[s[k]]) = k - 1
  <2> DEFINE head == [j \in 1..(k - 1) |-> s[j]]
  <2>1. \A j \in 1..(k - 1) : j \in 1..n /\ s[j] \in ahead[s[k]]
    BY <1>0
  <2>2. ASSUME NEW i \in ahead[s[k]] PROVE \E j \in 1..(k - 1) : s[j] = i
    <3>1. i \in D /\ i # s[k] /\ s[k] \notin ahead[i]
      BY <1>0, <2>2 DEF IsOrdering
    <3>2. PICK j \in 1..n : s[j] = i
      BY <3>1, <1>0 DEF Lists
    <3>3. j # k /\ ~(k < j)
      BY <3>1, <3>2, <1>0
    <3>4. QED
      BY <3>2, <3>3
  <2>3. \A j, m \in 1..(k - 1) : s[j] = s[m] => j = m
    BY <1>0, <2>1 DEF Lists
  <2>4. head \in Bijection(1..(k - 1), ahead[s[k]])
    BY <2>1, <2>2, <2>3 DEF Bijection, Injection, Surjection, IsInjective
  <2>5. QED
    BY <2>4, FS_CountingElements DEF ExistsBijection
<1>2. ASSUME NEW k \in 1..n
      PROVE  (CHOOSE i \in D : Cardinality(ahead[i]) = k - 1) = s[k]
  <2>1. s[k] \in D /\ Cardinality(ahead[s[k]]) = k - 1
    BY <1>0, <1>1
  <2>2. ASSUME NEW i \in D, Cardinality(ahead[i]) = k - 1 PROVE i = s[k]
    <3>1. PICK j \in 1..n : s[j] = i
      BY <1>0 DEF Lists
    <3>2. j - 1 = k - 1
      BY <1>1, <2>2, <3>1
    <3>3. QED
      BY <3>1, <3>2
  <2>3. QED
    BY <2>1, <2>2
<1>3. Play!Sorted(ahead) = [k \in 1..n |-> s[k]]
  BY <1>0, <1>2, SameCount DEF Play!Sorted
<1>4. QED
  BY <1>0, <1>3

\* A sequence of n that lists D shows that D has n members.
LEMMA ListsBy ==
  ASSUME NEW n \in Nat, NEW D, NEW s \in [1..n -> D],
         \A i \in D : \E k \in 1..n : s[k] = i,
         \A j, k \in 1..n : s[j] = s[k] => j = k
  PROVE  Lists(s, D) /\ Cardinality(D) = n
<1>1. s \in Bijection(1..n, D)
  BY DEF Bijection, Injection, Surjection, IsInjective
<1>2. Cardinality(D) = n
  BY <1>1, FS_CountingElements DEF ExistsBijection
<1>3. QED
  BY <1>2 DEF Lists

-----------------------------------------------------------------------------
(* The order of a table. *)

\* A table that can be sorted by position and id.
TableOK(f) ==
    /\ IsFiniteSet(DOMAIN f) /\ DOMAIN f \subseteq Int
    /\ \A i \in DOMAIN f : f[i].at \in Int

\* Its rows in that order.
OrderOfTable(f) ==
    Play!Sorted([i \in DOMAIN f |-> {j \in DOMAIN f : Comes(f, j, i)}])

\* Position, then id, is a total order of any of a table's rows.
LEMMA PositionsOrder ==
  ASSUME NEW f, TableOK(f), NEW D \in SUBSET DOMAIN f
  PROVE  /\ IsFiniteSet(D)
         /\ IsOrdering([i \in D |-> {j \in D : Comes(f, j, i)}], D)
<1>1. IsFiniteSet(D)
  BY FS_Subset DEF TableOK
<1>2. \A i \in D : i \in Int /\ f[i].at \in Int
  BY DEF TableOK
<1>3. QED
  BY <1>1, <1>2 DEF IsOrdering, Comes

\* A list of the table's rows in its order is the one the query returns.
LEMMA TheOrderOfTable ==
  ASSUME NEW f, TableOK(f), NEW s, InOrderOf(s, f)
  PROVE  OrderOfTable(f) = s
<1> DEFINE D == DOMAIN f
           ahead == [i \in D |-> {j \in D : Comes(f, j, i)}]
<1>1. IsFiniteSet(D) /\ IsOrdering(ahead, D)
  BY PositionsOrder
<1>2. Lists(s, D) /\ s \in [DOMAIN s -> D]
  BY DEF InOrderOf, Lists
<1>3. \A j, k \in DOMAIN s : j < k => s[j] \in ahead[s[k]]
  BY <1>2 DEF InOrderOf
<1> HIDE DEF ahead
<1>4. Play!Sorted(ahead) = s
  BY <1>1, <1>2, <1>3, SortedIs
<1>5. QED
  BY <1>4 DEF ahead, OrderOfTable

\* PlayOrder's Order is the order of the slots' table, now and after a step.
LEMMA OrderOfSlots ==
  Play!Order = OrderOfTable(slot) /\ Play!Order' = OrderOfTable(slot')
BY DEF Play!Order, Play!InOrder, Play!Precedes, OrderOfTable, Comes,
   Play!Sorted

\* The slots' table can be sorted, and its ids are older than the next one.
LEMMA SlotsTable ==
  ASSUME TablesAreTyped
  PROVE  /\ TableOK(slot)
         /\ Cardinality(DOMAIN slot) \in Nat
         /\ \A i \in DOMAIN slot : i \in Nat /\ i < newId
<1>1. IsFiniteSet(1..(newId - 1))
  BY FS_Interval DEF TablesAreTyped
<1>2. IsFiniteSet(DOMAIN slot)
  BY <1>1, FS_Subset DEF TablesAreTyped
<1>3. QED
  BY <1>2, FS_CardinalityType DEF TablesAreTyped, TableOK, SlotState

\* Any slots by (position, id).
LEMMA SomeInOrder ==
  ASSUME TablesAreTyped, NEW D \in SUBSET DOMAIN slot
  PROVE  /\ Lists(Play!InOrder(D), D)
         /\ Cardinality(D) \in Nat
         /\ DOMAIN Play!InOrder(D) = 1..Cardinality(D)
         /\ Play!InOrder(D) \in Seq(DOMAIN slot)
         /\ Len(Play!InOrder(D)) = Cardinality(D)
         /\ \A j, k \in 1..Cardinality(D) :
                j < k => Comes(slot, Play!InOrder(D)[j], Play!InOrder(D)[k])
<1> DEFINE ahead == [i \in D |-> {j \in D : Comes(slot, j, i)}]
<1>1. IsFiniteSet(D) /\ IsOrdering(ahead, D)
  BY SlotsTable, PositionsOrder
<1>2. Play!InOrder(D) = Play!Sorted(ahead)
  BY DEF Play!InOrder, Play!Precedes, Comes
<1>3. Cardinality(D) \in Nat
  BY <1>1, FS_CardinalityType
<1> HIDE DEF ahead
<1>4. Lists(Play!InOrder(D), D)
      /\ \A j, k \in 1..Cardinality(D) :
            j < k => Play!InOrder(D)[j] \in ahead[Play!InOrder(D)[k]]
  BY <1>1, <1>2, SortedLists
<1>5. Play!InOrder(D) \in [1..Cardinality(D) -> D]
  BY <1>4 DEF Lists
<1>6. Play!InOrder(D) \in Seq(DOMAIN slot)
      /\ Len(Play!InOrder(D)) = Cardinality(D)
  BY <1>3, <1>5
<1>7. \A j, k \in 1..Cardinality(D) :
            j < k => Comes(slot, Play!InOrder(D)[j], Play!InOrder(D)[k])
  BY <1>4, <1>5 DEF ahead
<1>8. QED
  BY <1>3, <1>4, <1>5, <1>6, <1>7

-----------------------------------------------------------------------------
(* The lists that requests work out. *)

\* A list of slots is a sequence of them.
LEMMA ListIsSeq ==
  ASSUME TablesAreTyped, NEW s, NEW D \in SUBSET DOMAIN slot, Lists(s, D)
  PROVE  /\ s \in Seq(DOMAIN slot) /\ s \in [1..Cardinality(D) -> D]
         /\ Cardinality(D) \in Nat /\ Len(s) = Cardinality(D)
         /\ DOMAIN s = 1..Cardinality(D) /\ ToSet(s) = D
<1>1. s \in [1..Cardinality(D) -> D] /\ Cardinality(D) \in Nat
  BY SomeInOrder DEF Lists
<1>2. s \in Seq(DOMAIN slot) /\ Len(s) = Cardinality(D)
  BY <1>1
<1>3. ToSet(s) = D
  BY <1>1 DEF ToSet, Lists
<1>4. QED
  BY <1>1, <1>2, <1>3

\* In a list that repeats nothing, a member's place is its index less one.
LEMMA PlacesInList ==
  ASSUME TablesAreTyped, NEW s, NEW D \in SUBSET DOMAIN slot, Lists(s, D)
  PROVE  \A k \in DOMAIN s : Play!PlaceIn(s, s[k]) = k - 1
<1>1. SUFFICES ASSUME NEW k \in DOMAIN s PROVE Play!PlaceIn(s, s[k]) = k - 1
  OBVIOUS
<1>2. \A j \in DOMAIN s : s[j] = s[k] => j = k
  BY DEF Lists
<1>3. (CHOOSE j \in DOMAIN s : s[j] = s[k]) = k
  BY <1>2
<1>4. QED
  BY <1>3 DEF Play!PlaceIn

\* A plan numbers the slots of a list from zero, leaving out one number.
LEMMA PlanNumbers ==
  ASSUME TablesAreTyped, NEW s, Lists(s, DOMAIN slot), NEW hole \in Int,
         NEW plan, plan = Play!Renumber(s, hole)
  PROVE  /\ \A i \in DOMAIN plan : i \in DOMAIN slot /\ plan[i] \in Int
         /\ \A k \in DOMAIN s :
                IF s[k] \in DOMAIN plan
                THEN plan[s[k]] = (IF k - 1 < hole THEN k - 1 ELSE k)
                ELSE slot[s[k]].at = (IF k - 1 < hole THEN k - 1 ELSE k)
<1> DEFINE at(i) == IF Play!PlaceIn(s, i) < hole THEN Play!PlaceIn(s, i)
                    ELSE Play!PlaceIn(s, i) + 1
<1>1. DOMAIN s \subseteq Int /\ ToSet(s) = DOMAIN slot
      /\ \A k \in DOMAIN s : s[k] \in DOMAIN slot
  BY ListIsSeq
<1>2. \A k \in DOMAIN s : at(s[k]) = IF k - 1 < hole THEN k - 1 ELSE k
  BY <1>1, PlacesInList
<1>3. plan = [i \in {i \in DOMAIN slot : slot[i].at # at(i)} |-> at(i)]
  BY <1>1 DEF Play!Renumber, Play!ToSet, ToSet
<1>4. \A i \in DOMAIN slot : \E k \in DOMAIN s : s[k] = i
  BY DEF Lists
<1> HIDE DEF at
<1>5. \A i \in DOMAIN slot : at(i) \in Int
  BY <1>1, <1>2, <1>4
<1>6. QED
  BY <1>1, <1>2, <1>3, <1>5

\* Renumbering the slots after a list of all of them, with every position
\* written that differs, leaves that list as their order.
LEMMA PlanMakesOrder ==
  ASSUME TablesAreTyped, NEW s, Lists(s, DOMAIN slot),
         NEW plan, plan = Play!Renumber(s, Len(Play!Order))
  PROVE  /\ InOrderOf(s, Planned(slot, plan))
         /\ \A i \in DOMAIN plan : plan[i] \in Int
<1>1. Len(Play!Order) = Cardinality(DOMAIN slot)
      /\ Cardinality(DOMAIN slot) \in Nat
      /\ DOMAIN s = 1..Cardinality(DOMAIN slot)
      /\ \A k \in DOMAIN s : s[k] \in DOMAIN slot
  BY SomeInOrder, ListIsSeq DEF Play!Order
<1>2. /\ \A i \in DOMAIN plan : i \in DOMAIN slot /\ plan[i] \in Int
      /\ \A k \in DOMAIN s : IF s[k] \in DOMAIN plan THEN plan[s[k]] = k - 1
                             ELSE slot[s[k]].at = k - 1
  BY <1>1, PlanNumbers
<1>3. \A k \in DOMAIN s : Planned(slot, plan)[s[k]].at = k - 1
  BY <1>1, <1>2 DEF Planned, TablesAreTyped, SlotState
<1>4. DOMAIN Planned(slot, plan) = DOMAIN slot
  BY DEF Planned
<1>5. QED
  BY <1>1, <1>2, <1>3, <1>4 DEF InOrderOf, Comes

\* The order a drag asks for lists every slot.
LEMMA DraggedLists ==
  ASSUME TablesAreTyped, NEW refs \in Seq(Target)
  PROVE  Lists(Play!Dragged(refs), DOMAIN slot)
<1> DEFINE group(i) == IF slot[i].of \in Play!ToSet(refs)
                       THEN Play!PlaceIn(refs, slot[i].of) ELSE Len(refs)
           ahead == [i \in DOMAIN slot |->
                        {j \in DOMAIN slot :
                            \/ group(j) < group(i)
                            \/ group(j) = group(i) /\ Comes(slot, j, i)}]
<1>1. \A i \in DOMAIN slot : i \in Int /\ slot[i].at \in Int
  BY SlotsTable DEF TableOK
<1>2. ASSUME NEW i \in DOMAIN slot PROVE group(i) \in Int
  <2>1. CASE slot[i].of \in Play!ToSet(refs)
    <3>1. \E k \in DOMAIN refs : refs[k] = slot[i].of
      BY <2>1 DEF Play!ToSet
    <3>2. (CHOOSE k \in DOMAIN refs : refs[k] = slot[i].of) \in DOMAIN refs
      BY <3>1
    <3>3. QED
      BY <2>1, <3>2 DEF Play!PlaceIn
  <2>2. CASE slot[i].of \notin Play!ToSet(refs)
    BY <2>2
  <2>3. QED
    BY <2>1, <2>2
<1>3. Play!Dragged(refs) = Play!Sorted(ahead)
  BY DEF Play!Dragged, Play!Precedes, Comes
<1> HIDE DEF group
<1>4. IsOrdering(ahead, DOMAIN slot)
  BY <1>1, <1>2 DEF IsOrdering, Comes
<1>5. IsFiniteSet(DOMAIN slot)
  BY SlotsTable DEF TableOK
<1> HIDE DEF ahead
<1>6. QED
  BY <1>3, <1>4, <1>5, SortedLists

\* So does the order a move up or down asks for.
LEMMA MovedLists ==
  ASSUME TablesAreTyped, NEW i \in DOMAIN slot, NEW up \in BOOLEAN
  PROVE  Lists(Play!Moved(i, up), DOMAIN slot)
<1> DEFINE D == DOMAIN slot
           n == Cardinality(D)
           s == Play!Order
           here == Play!PlaceIn(s, i) + 1
           there == IF up THEN here - 1 ELSE here + 1
<1>1. Lists(s, D) /\ n \in Nat /\ s \in [1..n -> D] /\ DOMAIN s = 1..n
  BY SomeInOrder DEF Play!Order, Lists
<1>2. PICK k \in 1..n : s[k] = i
  BY <1>1 DEF Lists
<1>3. here = k
  BY <1>1, <1>2, PlacesInList
<1>4. CASE there \notin DOMAIN s
  BY <1>1, <1>4 DEF Play!Moved
<1>5. CASE there \in DOMAIN s
  <2>1. Play!Moved(i, up) = [s EXCEPT ![here] = s[there], ![there] = i]
    BY <1>5 DEF Play!Moved
  <2> HIDE DEF s, here, there
  <2> DEFINE t == [s EXCEPT ![here] = s[there], ![there] = i]
  <2>2. here \in 1..n /\ there \in 1..n /\ s[here] = i
    BY <1>1, <1>2, <1>3, <1>5
  <2>3. t \in [1..n -> D]
    BY <1>1, <2>2
  <2>4. ASSUME NEW d \in D PROVE \E j \in 1..n : t[j] = d
    <3>1. PICK j \in 1..n : s[j] = d
      BY <1>1 DEF Lists
    <3>2. CASE j = here
      BY <1>1, <2>2, <3>1, <3>2
    <3>3. CASE j = there /\ j # here
      BY <1>1, <2>2, <3>1, <3>3
    <3>4. CASE j # there /\ j # here
      BY <1>1, <2>2, <3>1, <3>4
    <3>5. QED
      BY <3>2, <3>3, <3>4
  <2>5. \A j, m \in 1..n : t[j] = t[m] => j = m
    BY <1>1, <2>2 DEF Lists
  <2> HIDE DEF t
  <2>6. Lists(t, D)
    BY <1>1, <2>3, <2>4, <2>5, ListsBy
  <2>7. QED
    BY <2>1, <2>6 DEF t
<1>6. QED
  BY <1>4, <1>5

\* The elements of two sequences joined.
LEMMA JoinElements ==
  ASSUME NEW X, NEW s \in Seq(X), NEW t \in Seq(X)
  PROVE  /\ s \o t \in Seq(X) /\ Len(s \o t) = Len(s) + Len(t)
         /\ DOMAIN (s \o t) = 1..(Len(s) + Len(t))
         /\ \A k \in 1..Len(s) : (s \o t)[k] = s[k]
         /\ \A k \in (Len(s) + 1)..(Len(s) + Len(t)) :
                (s \o t)[k] = t[k - Len(s)]
<1>1. PICK m \in Nat, n \in Nat : m = Len(s) /\ n = Len(t)
  OBVIOUS
<1>2. PICK j : j = s \o t
  OBVIOUS
<1>3. /\ j \in Seq(X) /\ Len(j) = Len(s) + Len(t)
      /\ \A k \in 1..(Len(s) + Len(t)) :
            j[k] = IF k <= Len(s) THEN s[k] ELSE t[k - Len(s)]
  BY <1>2, ConcatProperties
<1>4. /\ j \in Seq(X) /\ Len(j) = m + n
      /\ \A k \in 1..(m + n) : j[k] = IF k <= m THEN s[k] ELSE t[k - m]
  BY <1>1, <1>3
<1>5. /\ \A k \in 1..m : j[k] = s[k]
      /\ \A k \in (m + 1)..(m + n) : j[k] = t[k - m]
  BY <1>4
<1>6. DOMAIN j = 1..(m + n)
  BY <1>4
<1>7. QED
  BY <1>1, <1>2, <1>4, <1>5, <1>6

\* The lists of two disjoint sets, joined, list their union.
LEMMA JoinedLists ==
  ASSUME NEW C, NEW D, NEW s, NEW t
  PROVE  (/\ Cardinality(C) \in Nat /\ Cardinality(D) \in Nat
          /\ C \cap D = {} /\ Lists(s, C) /\ Lists(t, D))
            => Lists(s \o t, C \cup D)
<1>0. SUFFICES ASSUME Cardinality(C) \in Nat, Cardinality(D) \in Nat,
                      C \cap D = {}, Lists(s, C), Lists(t, D)
               PROVE  Lists(s \o t, C \cup D)
  OBVIOUS
<1>1. PICK m \in Nat, n \in Nat : m = Cardinality(C) /\ n = Cardinality(D)
  BY <1>0
<1>2. PICK j : j = s \o t
  OBVIOUS
<1>3. /\ s \in [1..m -> C] /\ t \in [1..n -> D]
      /\ \A d \in C : \E k \in 1..m : s[k] = d
      /\ \A d \in D : \E k \in 1..n : t[k] = d
      /\ \A x, y \in 1..m : s[x] = s[y] => x = y
      /\ \A x, y \in 1..n : t[x] = t[y] => x = y
  BY <1>0, <1>1 DEF Lists
<1>4. /\ j \in [1..(m + n) -> C \cup D]
      /\ \A k \in 1..m : j[k] = s[k]
      /\ \A k \in (m + 1)..(m + n) : j[k] = t[k - m]
  <2>1. PICK X : X = C \cup D
    OBVIOUS
  <2>2. s \in Seq(X) /\ t \in Seq(X) /\ Len(s) = m /\ Len(t) = n
    BY <1>3, <2>1
  <2>3. /\ j \in Seq(X) /\ Len(j) = Len(s) + Len(t)
        /\ \A k \in 1..Len(s) : j[k] = s[k]
        /\ \A k \in (Len(s) + 1)..(Len(s) + Len(t)) : j[k] = t[k - Len(s)]
    BY <1>2, <2>2, JoinElements
  <2>4. j \in [1..(m + n) -> C \cup D]
    BY <2>1, <2>2, <2>3
  <2>5. QED
    BY <2>2, <2>3, <2>4
<1>5. ASSUME NEW d \in C \cup D PROVE \E k \in 1..(m + n) : j[k] = d
  <2>1. CASE d \in C
    BY <1>3, <1>4, <2>1
  <2>2. CASE d \in D
    <3>1. PICK k \in 1..n : t[k] = d
      BY <1>3, <2>2
    <3>2. m + k \in (m + 1)..(m + n) /\ (m + k) - m = k
          /\ m + k \in 1..(m + n)
      OBVIOUS
    <3>3. QED
      BY <1>4, <3>1, <3>2
  <2>3. QED
    BY <2>1, <2>2
<1>6. ASSUME NEW k \in 1..(m + n), NEW l \in 1..(m + n), j[k] = j[l]
      PROVE  k = l
  <2>1. CASE k <= m /\ l <= m
    BY <1>3, <1>4, <1>6, <2>1
  <2>2. CASE k > m /\ l > m
    <3>1. k - m \in 1..n /\ l - m \in 1..n /\ t[k - m] = t[l - m]
      BY <1>4, <1>6, <2>2
    <3>2. k - m = l - m
      BY <1>3, <3>1
    <3>3. QED
      BY <3>2
  <2>3. CASE k <= m /\ l > m
    <3>1. s[k] \in C /\ t[l - m] \in D /\ s[k] = t[l - m]
      BY <1>3, <1>4, <1>6, <2>3
    <3>2. QED
      BY <1>0, <3>1
  <2>4. CASE k > m /\ l <= m
    <3>1. s[l] \in C /\ t[k - m] \in D /\ s[l] = t[k - m]
      BY <1>3, <1>4, <1>6, <2>4
    <3>2. QED
      BY <1>0, <3>1
  <2>5. QED
    BY <2>1, <2>2, <2>3, <2>4
<1>7. m + n \in Nat
  OBVIOUS
<1>8. Lists(j, C \cup D)
  BY <1>4, <1>5, <1>6, <1>7, ListsBy
<1>9. QED
  BY <1>2, <1>8

\* The order of a reorder that names some of the slots lists every slot.
LEMMA ListedFirstLists ==
  ASSUME TablesAreTyped, NEW D \in SUBSET DOMAIN slot, NEW listed,
         Lists(listed, D)
  PROVE  Lists(Play!ListedFirst(listed), DOMAIN slot)
<1> DEFINE rest == DOMAIN slot \ D
<1>1. Play!ListedFirst(listed) = listed \o Play!InOrder(rest)
  BY ListIsSeq DEF Play!ListedFirst, Play!ToSet, ToSet
<1>2. Cardinality(D) \in Nat
  BY ListIsSeq
<1>3. Lists(Play!InOrder(rest), rest) /\ Cardinality(rest) \in Nat
  BY SomeInOrder
<1>4. D \cap rest = {} /\ D \cup rest = DOMAIN slot
  OBVIOUS
<1>5. Lists(listed \o Play!InOrder(rest), D \cup rest)
  BY <1>2, <1>3, <1>4, JoinedLists
<1>6. QED
  BY <1>1, <1>4, <1>5

-----------------------------------------------------------------------------
(* The tables that new items make. *)

\* PlayOrder inserts as this module does.
LEMMA SameInsert ==
  \A s, i, e : Play!InsertAt(s, i, e) = InsertAt(s, i, e)
BY DEF Play!InsertAt, InsertAt

\* The elements of a sequence with one inserted.
LEMMA InsertElements ==
  ASSUME NEW X, NEW s \in Seq(X), NEW i \in 1..(Len(s) + 1), NEW e \in X
  PROVE  /\ InsertAt(s, i, e) \in Seq(X)
         /\ Len(InsertAt(s, i, e)) = Len(s) + 1
         /\ \A k \in 1..(Len(s) + 1) :
                InsertAt(s, i, e)[k] = IF k < i THEN s[k]
                                       ELSE IF k = i THEN e ELSE s[k - 1]
<1>1. PICK n \in Nat : n = i - 1 /\ i = n + 1 /\ n <= Len(s)
  OBVIOUS
<1>2. PICK m \in Nat : m = Len(s) /\ m - n \in Nat
  BY <1>1
<1>3. PICK before : before = SubSeq(s, 1, n)
  OBVIOUS
<1>4. PICK after : after = SubSeq(s, n + 1, m)
  OBVIOUS
<1>5. PICK one : one = <<e>>
  OBVIOUS
<1>6. PICK front : front = before \o one
  OBVIOUS
<1>7. PICK t : t = front \o after
  OBVIOUS
<1>8. InsertAt(s, i, e) = t
  <2>1. InsertAt(s, i, e)
          = SubSeq(s, 1, i - 1) \o <<e>> \o SubSeq(s, i, Len(s))
    BY DEF InsertAt
  <2>2. SubSeq(s, 1, i - 1) = before /\ SubSeq(s, i, Len(s)) = after
    BY <1>1, <1>2, <1>3, <1>4
  <2>3. QED
    BY <1>5, <1>6, <1>7, <2>1, <2>2, Zenon
<1>9. /\ before \in Seq(X) /\ Len(before) = n
      /\ \A k \in 1..n : before[k] = s[k]
  BY <1>2, <1>3
<1>10. /\ after \in Seq(X) /\ Len(after) = m - n
       /\ \A k \in 1..(m - n) : after[k] = s[n + k]
  BY <1>1, <1>2, <1>4
<1>11. one \in Seq(X) /\ Len(one) = 1 /\ one[1] = e
  BY <1>5
<1>12. /\ front \in Seq(X) /\ Len(front) = n + 1
       /\ \A k \in 1..n : front[k] = before[k]
       /\ front[n + 1] = e
  <2>1. /\ front \in Seq(X) /\ Len(front) = Len(before) + Len(one)
        /\ \A k \in 1..Len(before) : front[k] = before[k]
        /\ \A k \in (Len(before) + 1)..(Len(before) + Len(one)) :
                front[k] = one[k - Len(before)]
    BY <1>6, <1>9, <1>11, JoinElements, ZenonT(30)
  <2>2. QED
    BY <1>9, <1>11, <2>1
<1>13. /\ t \in Seq(X) /\ Len(t) = m + 1
       /\ \A k \in 1..(n + 1) : t[k] = front[k]
       /\ \A k \in (n + 2)..(m + 1) : t[k] = after[k - (n + 1)]
  <2>1. /\ t \in Seq(X) /\ Len(t) = Len(front) + Len(after)
        /\ \A k \in 1..Len(front) : t[k] = front[k]
        /\ \A k \in (Len(front) + 1)..(Len(front) + Len(after)) :
                t[k] = after[k - Len(front)]
    BY <1>7, <1>10, <1>12, JoinElements, ZenonT(30)
  <2>2. QED
    BY <1>2, <1>10, <1>12, <2>1
<1>14. \A k \in 1..n : t[k] = s[k]
  BY <1>2, <1>9, <1>12, <1>13
<1>15. t[n + 1] = e
  BY <1>2, <1>12, <1>13
<1>16. ASSUME NEW k \in (n + 2)..(m + 1) PROVE t[k] = s[k - 1]
  <2>1. k - (n + 1) \in 1..(m - n) /\ n + (k - (n + 1)) = k - 1
    BY <1>2
  <2>2. t[k] = after[k - (n + 1)]
    BY <1>13
  <2>3. QED
    BY <1>10, <2>1, <2>2
<1>17. \A k \in 1..(m + 1) :
            t[k] = IF k < i THEN s[k] ELSE IF k = i THEN e ELSE s[k - 1]
  BY <1>1, <1>14, <1>15, <1>16
<1>18. QED
  BY <1>2, <1>8, <1>13, <1>17

\* A list with a new member inserted lists the set with that member.
LEMMA InsertedLists ==
  ASSUME NEW X, NEW s \in Seq(X), NEW i \in 1..(Len(s) + 1), NEW e \in X,
         NEW D
  PROVE  (/\ X = D \cup {e} /\ e \notin D
          /\ Lists(s, D) /\ Cardinality(D) \in Nat)
            => Lists(InsertAt(s, i, e), X)
<1>0. SUFFICES ASSUME X = D \cup {e}, e \notin D, Lists(s, D),
                      Cardinality(D) \in Nat
               PROVE  Lists(InsertAt(s, i, e), X)
  OBVIOUS
<1>1. PICK m \in Nat : m = Len(s) /\ m = Cardinality(D)
  BY <1>0 DEF Lists
<1>2. /\ InsertAt(s, i, e) \in Seq(X)
      /\ Len(InsertAt(s, i, e)) = Len(s) + 1
      /\ \A k \in 1..(Len(s) + 1) :
            InsertAt(s, i, e)[k] = IF k < i THEN s[k]
                                   ELSE IF k = i THEN e ELSE s[k - 1]
  BY InsertElements
<1>3. /\ s \in [1..m -> D] /\ i \in 1..(m + 1)
      /\ \A d \in D : \E k \in 1..m : s[k] = d
      /\ \A x, y \in 1..m : s[x] = s[y] => x = y
  BY <1>0, <1>1 DEF Lists
<1>10. PICK t : t = InsertAt(s, i, e)
  OBVIOUS
<1>4. /\ t \in [1..(m + 1) -> X]
      /\ \A k \in 1..(i - 1) : t[k] = s[k]
      /\ t[i] = e
      /\ \A k \in (i + 1)..(m + 1) : t[k] = s[k - 1]
  BY <1>1, <1>2, <1>10
<1>5. ASSUME NEW d \in X PROVE \E k \in 1..(m + 1) : t[k] = d
  <2>1. CASE d = e
    BY <1>3, <1>4, <2>1
  <2>2. CASE d # e
    <3>1. PICK k \in 1..m : s[k] = d
      BY <1>0, <1>3, <2>2
    <3>2. CASE k < i
      BY <1>3, <1>4, <3>1, <3>2
    <3>3. CASE k >= i
      <4>1. /\ k + 1 \in (i + 1)..(m + 1) /\ (k + 1) - 1 = k
            /\ k + 1 \in 1..(m + 1)
        BY <1>3, <3>3
      <4>2. QED
        BY <1>4, <3>1, <4>1
    <3>4. QED
      BY <1>3, <3>2, <3>3
  <2>3. QED
    BY <2>1, <2>2
<1>6. ASSUME NEW j \in 1..(m + 1), NEW k \in 1..(m + 1), t[j] = t[k]
      PROVE  j = k
  <2> DEFINE from(h) == IF h < i THEN h ELSE h - 1
  <2>1. \A h \in 1..(m + 1) :
            h # i => t[h] = s[from(h)] /\ from(h) \in 1..m
    BY <1>0, <1>3, <1>4
  <2>2. CASE j # i /\ k # i
    <3>1. from(j) = from(k)
      BY <1>3, <1>6, <2>1, <2>2
    <3>2. QED
      BY <1>3, <2>2, <3>1
  <2>3. CASE j = i /\ k # i
    BY <1>0, <1>3, <1>4, <1>6, <2>1, <2>3
  <2>4. CASE j # i /\ k = i
    BY <1>0, <1>3, <1>4, <1>6, <2>1, <2>4
  <2>5. QED
    BY <2>2, <2>3, <2>4
<1>7. m + 1 \in Nat
  OBVIOUS
<1>8. Lists(t, X)
  BY <1>4, <1>5, <1>6, <1>7, ListsBy
<1>9. QED
  BY <1>10, <1>8

\* The order of the slots, as a sequence whose length and elements are known.
LEMMA OrderOfNow ==
  ASSUME TablesAreTyped
  PROVE  \E n \in Nat : \E o \in Seq(DOMAIN slot) :
            /\ o = Play!Order /\ n = Cardinality(DOMAIN slot) /\ n = Len(o)
            /\ Lists(o, DOMAIN slot) /\ o \in [1..n -> DOMAIN slot]
            /\ \A i \in DOMAIN slot : \E k \in 1..n : o[k] = i
            /\ \A j, k \in 1..n : o[j] = o[k] => j = k
            /\ \A j, k \in 1..n : j < k => Comes(slot, o[j], o[k])
            /\ \A i \in DOMAIN slot :
                    i \in Nat /\ i < newId /\ slot[i].at \in Int
<1>1. /\ Lists(Play!Order, DOMAIN slot)
      /\ Cardinality(DOMAIN slot) \in Nat
      /\ DOMAIN Play!Order = 1..Cardinality(DOMAIN slot)
      /\ Play!Order \in Seq(DOMAIN slot)
      /\ Len(Play!Order) = Cardinality(DOMAIN slot)
      /\ \A j, k \in 1..Cardinality(DOMAIN slot) :
            j < k => Comes(slot, Play!Order[j], Play!Order[k])
  BY SomeInOrder DEF Play!Order
<1>2. \A i \in DOMAIN slot : i \in Nat /\ i < newId /\ slot[i].at \in Int
  BY SlotsTable DEF TableOK
<1>3. PICK o \in Seq(DOMAIN slot) : o = Play!Order
  BY <1>1
<1>4. PICK n \in Nat : n = Cardinality(DOMAIN slot)
  BY <1>1
<1>5. /\ Lists(o, DOMAIN slot) /\ n = Len(o) /\ DOMAIN o = 1..n
      /\ \A j, k \in 1..n : j < k => Comes(slot, o[j], o[k])
  BY <1>1, <1>3, <1>4
<1>6. /\ o \in [1..n -> DOMAIN slot]
      /\ \A i \in DOMAIN slot : \E k \in 1..n : o[k] = i
      /\ \A j, k \in 1..n : o[j] = o[k] => j = k
  BY <1>4, <1>5 DEF Lists
<1>7. QED
  BY <1>2, <1>3, <1>4, <1>5, <1>6

\* The end of the Schedule is behind every slot.
LEMMA EndIsBehind ==
  ASSUME TablesAreTyped
  PROVE  Play!AtEnd \in Int /\ \A i \in DOMAIN slot : slot[i].at < Play!AtEnd
<1>1. PICK n \in Nat, o \in Seq(DOMAIN slot) :
            /\ o = Play!Order /\ n = Len(o) /\ o \in [1..n -> DOMAIN slot]
            /\ \A i \in DOMAIN slot : \E k \in 1..n : o[k] = i
            /\ \A j, k \in 1..n : j < k => Comes(slot, o[j], o[k])
            /\ \A i \in DOMAIN slot : slot[i].at \in Int
  BY OrderOfNow
<1>2. CASE n = 0
  <2>1. o = <<>>
    BY <1>1, <1>2
  <2>2. DOMAIN slot = {}
    <3>1. SUFFICES ASSUME NEW i \in DOMAIN slot PROVE FALSE
      OBVIOUS
    <3>2. PICK k \in 1..n : o[k] = i
      BY <1>1
    <3>3. QED
      BY <1>2
  <2>3. Play!AtEnd = 0
    BY <1>1, <2>1 DEF Play!AtEnd
  <2>4. QED
    BY <2>2, <2>3
<1>3. CASE n # 0
  <2>1. n \in 1..n /\ o[n] \in DOMAIN slot /\ o # <<>>
    BY <1>1, <1>3
  <2>2. Play!AtEnd = slot[o[n]].at + 1
    <3>1. Play!Last(o) = o[n]
      BY <1>1 DEF Play!Last
    <3>2. QED
      BY <1>1, <2>1, <3>1 DEF Play!AtEnd
  <2>3. ASSUME NEW i \in DOMAIN slot PROVE slot[i].at <= slot[o[n]].at
    <3>1. PICK k \in 1..n : o[k] = i
      BY <1>1
    <3>2. CASE k = n
      BY <1>1, <2>1, <3>1, <3>2
    <3>3. CASE k < n
      <4>1. Comes(slot, o[k], o[n])
        BY <1>1, <2>1, <3>3
      <4>2. QED
        BY <1>1, <2>1, <3>1, <4>1 DEF Comes
    <3>4. QED
      BY <3>2, <3>3
  <2>4. QED
    BY <1>1, <2>1, <2>2, <2>3
<1>4. QED
  BY <1>2, <1>3

\* New slots behind the others, in the order of their ids.
LEMMA AppendMakesOrder ==
  ASSUME TablesAreTyped, NEW new \in Seq(Target)
  PROVE  InOrderOf(Play!Order \o [k \in DOMAIN new |-> newId + k - 1],
                   Grown(slot, new, Play!AtEnd))
<1>1. PICK n \in Nat, o \in Seq(DOMAIN slot) :
            /\ o = Play!Order /\ n = Cardinality(DOMAIN slot) /\ n = Len(o)
            /\ Lists(o, DOMAIN slot) /\ o \in [1..n -> DOMAIN slot]
            /\ \A j, k \in 1..n : j < k => Comes(slot, o[j], o[k])
            /\ \A i \in DOMAIN slot :
                    i \in Nat /\ i < newId /\ slot[i].at \in Int
  BY OrderOfNow
<1>2. PICK l \in Nat : l = Len(new) /\ DOMAIN new = 1..l
  OBVIOUS
<1>3. PICK end \in Int : /\ end = Play!AtEnd
                         /\ \A i \in DOMAIN slot : slot[i].at < end
  BY EndIsBehind
<1>4. PICK from \in Nat : from = newId
  BY DEF TablesAreTyped
<1>5. PICK fresh : fresh = from..(from + l - 1)
  OBVIOUS
<1>6. PICK ids : ids = [k \in 1..l |-> from + k - 1]
  OBVIOUS
<1>7. ids \in [1..l -> fresh] /\ \A k \in 1..l : ids[k] = from + k - 1
  BY <1>5, <1>6
<1>8. Lists(ids, fresh) /\ Cardinality(fresh) = l
  <2>1. ASSUME NEW i \in fresh PROVE \E k \in 1..l : ids[k] = i
    <3>1. i - from + 1 \in 1..l /\ from + (i - from + 1) - 1 = i
      BY <1>5
    <3>2. QED
      BY <1>7, <3>1
  <2>2. \A j, k \in 1..l : ids[j] = ids[k] => j = k
    BY <1>7
  <2>3. QED
    BY <1>7, <2>1, <2>2, ListsBy
<1>9. PICK s : s = o \o ids
  OBVIOUS
<1>10. Play!Order \o [k \in DOMAIN new |-> newId + k - 1] = s
  BY <1>1, <1>2, <1>4, <1>6, <1>9
<1>11. DOMAIN slot \cap fresh = {}
  BY <1>1, <1>4, <1>5
<1>12. Lists(s, DOMAIN slot \cup fresh)
  BY <1>1, <1>8, <1>9, <1>11, JoinedLists
<1>13. /\ DOMAIN s = 1..(n + l)
       /\ \A k \in 1..n : s[k] = o[k]
       /\ \A k \in (n + 1)..(n + l) : s[k] = from + (k - n) - 1
  <2>1. PICK all : all = DOMAIN slot \cup fresh
    OBVIOUS
  <2>2. PICK u \in Seq(all), v \in Seq(all) : u = o /\ v = ids
    BY <1>7, <2>1
  <2>3. Len(u) = n /\ Len(v) = l
    BY <1>1, <1>7, <2>2
  <2>4. /\ DOMAIN (u \o v) = 1..(Len(u) + Len(v))
        /\ \A k \in 1..Len(u) : (u \o v)[k] = u[k]
        /\ \A k \in (Len(u) + 1)..(Len(u) + Len(v)) :
                (u \o v)[k] = v[k - Len(u)]
    BY JoinElements
  <2>5. u \o v = s
    BY <1>9, <2>2
  <2>6. /\ DOMAIN s = 1..(n + l)
        /\ \A k \in 1..n : s[k] = o[k]
        /\ \A k \in (n + 1)..(n + l) : s[k] = ids[k - n]
    BY <2>2, <2>3, <2>4, <2>5
  <2>7. \A k \in (n + 1)..(n + l) : k - n \in 1..l
    OBVIOUS
  <2>8. QED
    BY <1>7, <2>6, <2>7
<1>14. PICK f : f = Grown(slot, new, end)
  OBVIOUS
<1>15. DOMAIN f = DOMAIN slot \cup fresh
  BY <1>2, <1>4, <1>5, <1>14 DEF Grown
<1>16. \A k \in 1..n : f[s[k]] = slot[o[k]] /\ o[k] \in DOMAIN slot
  BY <1>1, <1>13, <1>14 DEF Grown
<1>17. ASSUME NEW k \in (n + 1)..(n + l)
       PROVE  f[s[k]].at = end + (k - n) - 1
  <2>1. s[k] \in fresh /\ s[k] \notin DOMAIN slot /\ s[k] = from + (k - n) - 1
    BY <1>5, <1>11, <1>13
  <2>2. f[s[k]].at = end + s[k] - from
    BY <1>2, <1>4, <1>5, <1>14, <2>1 DEF Grown
  <2>3. QED
    BY <2>1, <2>2
<1>18. ASSUME NEW j \in 1..(n + l), NEW k \in 1..(n + l), j < k
       PROVE  Comes(f, s[j], s[k])
  <2>1. CASE k <= n
    <3>1. j \in 1..n /\ k \in 1..n
      BY <1>18, <2>1
    <3>2. Comes(slot, o[j], o[k])
      BY <1>1, <1>18, <3>1
    <3>3. f[s[j]] = slot[o[j]] /\ f[s[k]] = slot[o[k]]
          /\ s[j] = o[j] /\ s[k] = o[k]
      BY <1>13, <1>16, <3>1
    <3>4. QED
      BY <3>2, <3>3 DEF Comes
  <2>2. CASE j <= n /\ k > n
    <3>1. j \in 1..n /\ k \in (n + 1)..(n + l)
      BY <1>18, <2>2
    <3>2. slot[o[j]].at < end /\ slot[o[j]].at \in Int
      BY <1>1, <1>3, <1>16, <3>1
    <3>3. f[s[j]].at = slot[o[j]].at /\ f[s[k]].at = end + (k - n) - 1
      BY <1>16, <1>17, <3>1
    <3>4. f[s[j]].at < f[s[k]].at
      BY <3>1, <3>2, <3>3
    <3>5. QED
      BY <3>4 DEF Comes
  <2>3. CASE j > n
    <3>1. j \in (n + 1)..(n + l) /\ k \in (n + 1)..(n + l)
      BY <1>18, <2>3
    <3>2. f[s[j]].at = end + (j - n) - 1 /\ f[s[k]].at = end + (k - n) - 1
      BY <1>17, <3>1
    <3>3. f[s[j]].at < f[s[k]].at
      BY <1>18, <3>2
    <3>4. QED
      BY <3>3 DEF Comes
  <2>4. QED
    BY <2>1, <2>2, <2>3
<1>19. InOrderOf(s, f)
  BY <1>12, <1>13, <1>15, <1>18 DEF InOrderOf
<1>20. QED
  BY <1>3, <1>10, <1>14, <1>19

\* The order with the next id inserted after n slots.
LEMMA InsertIntoOrder ==
  ASSUME TablesAreTyped, NEW n \in 0..Len(Play!Order)
  PROVE  \E s : /\ s = InsertAt(Play!Order, n + 1, newId)
                /\ Lists(s, DOMAIN slot \cup {newId})
                /\ DOMAIN s = 1..(Len(Play!Order) + 1)
                /\ \A k \in 1..(Len(Play!Order) + 1) :
                        s[k] = IF k < n + 1 THEN Play!Order[k]
                               ELSE IF k = n + 1 THEN newId
                               ELSE Play!Order[k - 1]
<1>1. PICK X : X = DOMAIN slot \cup {newId}
  OBVIOUS
<1>2. /\ Play!Order \in Seq(DOMAIN slot)
      /\ Len(Play!Order) = Cardinality(DOMAIN slot)
      /\ Lists(Play!Order, DOMAIN slot)
      /\ newId \notin DOMAIN slot
  <2>1. PICK o \in Seq(DOMAIN slot) :
            /\ o = Play!Order /\ Len(o) = Cardinality(DOMAIN slot)
            /\ Lists(o, DOMAIN slot)
            /\ \A i \in DOMAIN slot : i \in Nat /\ i < newId
    BY OrderOfNow
  <2>2. QED
    BY <2>1 DEF TablesAreTyped
<1>3. PICK u \in Seq(X) : u = Play!Order
  BY <1>1, <1>2
<1>4. PICK e \in X : e = newId
  BY <1>1
<1>5. PICK i \in 1..(Len(u) + 1) : i = n + 1
  BY <1>3
<1>6. /\ InsertAt(u, i, e) \in Seq(X)
      /\ Len(InsertAt(u, i, e)) = Len(u) + 1
      /\ \A k \in 1..(Len(u) + 1) :
            InsertAt(u, i, e)[k] = IF k < i THEN u[k]
                                   ELSE IF k = i THEN e ELSE u[k - 1]
  BY InsertElements
<1>7. PICK s : s = InsertAt(u, i, e)
  OBVIOUS
<1>8. Lists(s, X)
  <2>1. Lists(u, DOMAIN slot) /\ Cardinality(DOMAIN slot) \in Nat
    BY <1>2, <1>3
  <2>2. X = DOMAIN slot \cup {e} /\ e \notin DOMAIN slot
    BY <1>1, <1>2, <1>4
  <2>3. Lists(InsertAt(u, i, e), X)
    BY <2>1, <2>2, InsertedLists
  <2>4. QED
    BY <1>7, <2>3
<1>9. DOMAIN s = 1..(Len(u) + 1)
  BY <1>6, <1>7
<1>10. \A k \in 1..(Len(u) + 1) :
            s[k] = IF k < i THEN u[k] ELSE IF k = i THEN e ELSE u[k - 1]
  BY <1>6, <1>7
<1>11. s = InsertAt(Play!Order, n + 1, newId)
  BY <1>3, <1>4, <1>5, <1>7
<1>12. QED
  BY <1>1, <1>3, <1>4, <1>5, <1>8, <1>9, <1>10, <1>11

\* An item of the place asked for, the slots from there on moved up.
LEMMA InsertMakesOrder ==
  ASSUME TablesAreTyped, Play!Untied, NEW n \in 0..(Len(Play!Order) - 1),
         NEW t \in Target, NEW at, at = slot[Play!Order[n + 1]].at
  PROVE  /\ InOrderOf(InsertAt(Play!Order, n + 1, newId),
                      Grown(Shifted(slot, at), <<t>>, at))
         /\ at \in Int
<1>1. PICK m \in Nat, o \in Seq(DOMAIN slot) :
            /\ o = Play!Order /\ m = Cardinality(DOMAIN slot) /\ m = Len(o)
            /\ Lists(o, DOMAIN slot) /\ o \in [1..m -> DOMAIN slot]
            /\ \A j, k \in 1..m : o[j] = o[k] => j = k
            /\ \A j, k \in 1..m : j < k => Comes(slot, o[j], o[k])
            /\ \A i \in DOMAIN slot :
                    i \in Nat /\ i < newId /\ slot[i].at \in Int
  BY OrderOfNow
<1>2. PICK here \in 1..m : here = n + 1 /\ at = slot[o[here]].at
  BY <1>1
<1>3. at \in Int
  BY <1>1, <1>2
<1>4. \A j, k \in 1..m : j < k => slot[o[j]].at < slot[o[k]].at
  <2>1. SUFFICES ASSUME NEW j \in 1..m, NEW k \in 1..m, j < k
                 PROVE  slot[o[j]].at < slot[o[k]].at
    OBVIOUS
  <2>2. Comes(slot, o[j], o[k]) /\ o[j] \in DOMAIN slot /\ o[k] \in DOMAIN slot
    BY <1>1, <2>1
  <2>3. o[j] # o[k]
    BY <1>1, <2>1
  <2>4. slot[o[j]].at # slot[o[k]].at
    BY <2>2, <2>3 DEF Play!Untied
  <2>5. QED
    BY <2>2, <2>4 DEF Comes
<1>5. PICK from \in Nat : from = newId /\ from \notin DOMAIN slot
  BY <1>1 DEF TablesAreTyped
<1>6. PICK f : f = Grown(Shifted(slot, at), <<t>>, at)
  OBVIOUS
<1>7. /\ DOMAIN f = DOMAIN slot \cup {from}
      /\ f[from].at = at
      /\ \A i \in DOMAIN slot :
            f[i].at = IF slot[i].at >= at THEN slot[i].at + 1 ELSE slot[i].at
  <2>1. /\ DOMAIN Shifted(slot, at) = DOMAIN slot
        /\ \A i \in DOMAIN slot :
                Shifted(slot, at)[i].at
                    = IF slot[i].at >= at THEN slot[i].at + 1 ELSE slot[i].at
    BY DEF Shifted, TablesAreTyped, SlotState
  <2>2. newId..(newId + Len(<<t>>) - 1) = {from} /\ from - newId = 0
        /\ at + from - newId = at
    BY <1>3, <1>5
  <2>3. f = [i \in DOMAIN slot \cup {from} |->
                IF i \in DOMAIN slot THEN Shifted(slot, at)[i]
                ELSE [of |-> <<t>>[i - newId + 1], at |-> at + i - newId]]
    BY <1>6, <2>1, <2>2 DEF Grown
  <2>4. QED
    BY <1>5, <2>1, <2>2, <2>3
<1>8. PICK s : /\ s = InsertAt(Play!Order, n + 1, newId)
               /\ Lists(s, DOMAIN slot \cup {newId})
               /\ DOMAIN s = 1..(Len(Play!Order) + 1)
               /\ \A k \in 1..(Len(Play!Order) + 1) :
                        s[k] = IF k < n + 1 THEN Play!Order[k]
                               ELSE IF k = n + 1 THEN newId
                               ELSE Play!Order[k - 1]
  <2>1. n \in 0..Len(Play!Order)
    BY <1>1
  <2>2. QED
    BY <2>1, InsertIntoOrder
<1>13. /\ DOMAIN s = 1..(m + 1)
       /\ \A k \in 1..(m + 1) : s[k] = IF k < here THEN o[k]
                                       ELSE IF k = here THEN from ELSE o[k - 1]
  BY <1>1, <1>2, <1>5, <1>8
<1>14. \A k \in 1..(m + 1) :
            f[s[k]].at = IF k < here THEN slot[o[k]].at
                         ELSE IF k = here THEN at ELSE slot[o[k - 1]].at + 1
  <2>1. SUFFICES ASSUME NEW k \in 1..(m + 1)
                 PROVE  f[s[k]].at = IF k < here THEN slot[o[k]].at
                                     ELSE IF k = here THEN at
                                     ELSE slot[o[k - 1]].at + 1
    OBVIOUS
  <2>2. CASE k < here
    <3>1. k \in 1..m /\ s[k] = o[k] /\ o[k] \in DOMAIN slot
      BY <1>1, <1>13, <2>2
    <3>2. slot[o[k]].at < at /\ slot[o[k]].at \in Int
      BY <1>1, <1>2, <1>4, <2>2, <3>1
    <3>3. QED
      BY <1>3, <1>7, <2>2, <3>1, <3>2
  <2>3. CASE k = here
    BY <1>7, <1>13, <2>3
  <2>4. CASE k > here
    <3>1. k - 1 \in 1..m /\ s[k] = o[k - 1] /\ o[k - 1] \in DOMAIN slot
      BY <1>1, <1>13, <2>4, SMTT(30)
    <3>2. slot[o[k - 1]].at >= at
      <4>1. CASE k - 1 = here
        BY <1>1, <1>2, <1>3, <4>1
      <4>2. CASE here < k - 1
        BY <1>1, <1>2, <1>4, <3>1, <4>2
      <4>3. QED
        BY <2>4, <4>1, <4>2
    <3>3. QED
      BY <1>7, <2>4, <3>1, <3>2
  <2>5. QED
    BY <2>2, <2>3, <2>4
<1>15. \A k \in 1..m : slot[o[k]].at \in Int
  BY <1>1
<1>16. \A j, k \in 1..(m + 1) : j < k => f[s[j]].at < f[s[k]].at
  <2>1. SUFFICES ASSUME NEW j \in 1..(m + 1), NEW k \in 1..(m + 1), j < k
                 PROVE  f[s[j]].at < f[s[k]].at
    OBVIOUS
  <2>2. CASE k < here
    <3>1. j \in 1..m /\ k \in 1..m /\ j < here
      BY <2>1, <2>2
    <3>2. slot[o[j]].at < slot[o[k]].at
      BY <1>4, <2>1, <3>1
    <3>3. QED
      BY <1>14, <2>2, <3>1, <3>2
  <2>3. CASE k = here
    <3>1. j \in 1..m /\ j < here
      BY <2>1, <2>3
    <3>2. slot[o[j]].at < at
      BY <1>2, <1>4, <3>1
    <3>3. QED
      BY <1>14, <2>3, <3>1, <3>2
  <2>4. CASE k > here /\ j < here
    <3>1. j \in 1..m /\ k - 1 \in 1..m /\ j < k - 1
      BY <2>1, <2>4
    <3>2. slot[o[j]].at < slot[o[k - 1]].at
      BY <1>4, <3>1
    <3>3. slot[o[j]].at < slot[o[k - 1]].at + 1
      BY <1>15, <3>1, <3>2
    <3>4. QED
      BY <1>14, <2>4, <3>3
  <2>5. CASE k > here /\ j = here
    <3>1. k - 1 \in 1..m /\ (k - 1 = here \/ here < k - 1)
      BY <2>5
    <3>2. at <= slot[o[k - 1]].at
      BY <1>2, <1>3, <1>4, <1>15, <3>1
    <3>3. at < slot[o[k - 1]].at + 1
      BY <1>3, <1>15, <3>1, <3>2, SMTT(30)
    <3>4. QED
      BY <1>14, <2>5, <3>3
  <2>6. CASE j > here
    <3>1. j - 1 \in 1..m /\ k - 1 \in 1..m /\ j - 1 < k - 1 /\ k > here
      BY <2>1, <2>6
    <3>2. slot[o[j - 1]].at < slot[o[k - 1]].at
      BY <1>4, <3>1
    <3>3. slot[o[j - 1]].at + 1 < slot[o[k - 1]].at + 1
      BY <1>15, <3>1, <3>2, SMTT(30)
    <3>4. QED
      BY <1>14, <2>6, <3>1, <3>3
  <2>7. QED
    BY <2>1, <2>2, <2>3, <2>4, <2>5, <2>6
<1>17. InOrderOf(s, f)
  <2>1. DOMAIN f = DOMAIN slot \cup {newId}
    BY <1>5, <1>7
  <2>2. QED
    BY <1>8, <1>13, <1>16, <2>1 DEF InOrderOf, Comes
<1>18. QED
  BY <1>3, <1>6, <1>8, <1>17

\* The new item first, then the others around it.
LEMMA DuplicateMakesOrder ==
  ASSUME TablesAreTyped, NEW t \in Target, NEW at \in 0..Len(Play!Order)
  PROVE  InOrderOf(InsertAt(Play!Order, at + 1, newId),
                   Planned(Grown(slot, <<t>>, at), Play!Renumber(Play!Order, at)))
<1>1. PICK m \in Nat, o \in Seq(DOMAIN slot) :
            /\ o = Play!Order /\ m = Len(o)
            /\ Lists(o, DOMAIN slot) /\ o \in [1..m -> DOMAIN slot]
            /\ \A i \in DOMAIN slot :
                    i \in Nat /\ i < newId /\ slot[i].at \in Int
  BY OrderOfNow
<1>2. PICK from \in Nat : from = newId /\ from \notin DOMAIN slot
  BY <1>1 DEF TablesAreTyped
<1>3. PICK s : /\ s = InsertAt(Play!Order, at + 1, newId)
               /\ Lists(s, DOMAIN slot \cup {newId})
               /\ DOMAIN s = 1..(Len(Play!Order) + 1)
               /\ \A k \in 1..(Len(Play!Order) + 1) :
                        s[k] = IF k < at + 1 THEN Play!Order[k]
                               ELSE IF k = at + 1 THEN newId
                               ELSE Play!Order[k - 1]
  BY InsertIntoOrder
<1>4. /\ DOMAIN s = 1..(m + 1) /\ at \in 0..m
      /\ \A k \in 1..(m + 1) : s[k] = IF k < at + 1 THEN o[k]
                                      ELSE IF k = at + 1 THEN from ELSE o[k - 1]
  BY <1>1, <1>2, <1>3
<1>5. PICK plan : plan = Play!Renumber(o, at)
  OBVIOUS
<1>6. /\ \A i \in DOMAIN plan : i \in DOMAIN slot /\ plan[i] \in Int
      /\ \A k \in DOMAIN o :
            IF o[k] \in DOMAIN plan
            THEN plan[o[k]] = (IF k - 1 < at THEN k - 1 ELSE k)
            ELSE slot[o[k]].at = (IF k - 1 < at THEN k - 1 ELSE k)
  <2>1. at \in Int
    OBVIOUS
  <2>2. QED
    BY <1>1, <1>5, <2>1, PlanNumbers
<1>7. PICK f : f = Planned(Grown(slot, <<t>>, at), plan)
  OBVIOUS
<1>8. /\ DOMAIN f = DOMAIN slot \cup {from}
      /\ f[from].at = at
      /\ \A i \in DOMAIN slot :
            f[i].at = IF i \in DOMAIN plan THEN plan[i] ELSE slot[i].at
  <2>1. newId..(newId + Len(<<t>>) - 1) = {from} /\ from - newId = 0
        /\ at + from - newId = at
    BY <1>2
  <2>2. PICK g : g = Grown(slot, <<t>>, at)
    OBVIOUS
  <2>3. g = [i \in DOMAIN slot \cup {from} |->
                IF i \in DOMAIN slot THEN slot[i]
                ELSE [of |-> <<t>>[i - newId + 1], at |-> at + i - newId]]
    BY <2>1, <2>2 DEF Grown
  <2>4. /\ DOMAIN g = DOMAIN slot \cup {from} /\ g[from].at = at
        /\ \A i \in DOMAIN slot : g[i] = slot[i]
    BY <1>2, <2>1, <2>3
  <2>5. f = [i \in DOMAIN g |-> IF i \in DOMAIN plan
                                THEN [g[i] EXCEPT !.at = plan[i]] ELSE g[i]]
    BY <1>7, <2>2 DEF Planned
  <2>6. DOMAIN f = DOMAIN slot \cup {from}
    BY <2>4, <2>5
  <2>7. f[from].at = at
    BY <1>2, <1>6, <2>4, <2>5
  <2>8. \A i \in DOMAIN slot :
            f[i].at = IF i \in DOMAIN plan THEN plan[i] ELSE slot[i].at
    <3>1. \A i \in DOMAIN slot : slot[i] \in SlotState
      BY DEF TablesAreTyped
    <3>2. QED
      BY <2>4, <2>5, <3>1 DEF SlotState
  <2>9. QED
    BY <2>6, <2>7, <2>8
<1>9. ASSUME NEW k \in 1..(m + 1) PROVE f[s[k]].at = k - 1
  <2>1. CASE k < at + 1
    <3>1. k \in DOMAIN o /\ s[k] = o[k] /\ o[k] \in DOMAIN slot /\ k - 1 < at
      BY <1>1, <1>4, <2>1
    <3>2. QED
      BY <1>6, <1>8, <3>1
  <2>2. CASE k = at + 1
    BY <1>4, <1>8, <2>2
  <2>3. CASE k > at + 1
    <3>1. /\ k - 1 \in DOMAIN o /\ s[k] = o[k - 1] /\ o[k - 1] \in DOMAIN slot
          /\ ~((k - 1) - 1 < at)
      BY <1>1, <1>4, <2>3
    <3>2. QED
      BY <1>6, <1>8, <3>1
  <2>4. QED
    BY <1>4, <2>1, <2>2, <2>3
<1>10. InOrderOf(s, f)
  BY <1>2, <1>3, <1>4, <1>8, <1>9, SMTT(30) DEF InOrderOf, Comes
<1>11. QED
  BY <1>1, <1>3, <1>5, <1>7, <1>10

\* The place behind an asset's last slot is one of the order's places.
LEMMA UpToLastIsPlace ==
  ASSUME TablesAreTyped, NEW a
  PROVE  Play!UpToLast(a) \in 0..Len(Play!Order)
<1>1. /\ IsFiniteSet(DOMAIN slot) /\ Cardinality(DOMAIN slot) \in Nat
      /\ Len(Play!Order) = Cardinality(DOMAIN slot)
  BY SlotsTable, SomeInOrder DEF TableOK, Play!Order
<1>2. \A D \in SUBSET DOMAIN slot :
            Cardinality(D) \in Nat /\ Cardinality(D) <= Cardinality(DOMAIN slot)
  BY <1>1, FS_Subset, FS_CardinalityType
<1>3. \E D \in SUBSET DOMAIN slot : Play!UpToLast(a) = Cardinality(D)
  <2>1. PICK own : own = {i \in DOMAIN slot : slot[i].of = a}
    OBVIOUS
  <2>2. PICK D : D = {j \in DOMAIN slot : \E i \in own : ~Play!Precedes(i, j)}
    OBVIOUS
  <2>3. Play!UpToLast(a) = IF own = {} THEN Cardinality(DOMAIN slot)
                           ELSE Cardinality(D)
    BY <2>1, <2>2, SameCount DEF Play!UpToLast
  <2>4. QED
    BY <2>2, <2>3
<1>4. QED
  BY <1>1, <1>2, <1>3

\* The mirror permutes the positions that the slots of assets have, and none
\* when they are in step with play_order.
LEMMA MirrorInStep ==
  ASSUME TablesAreTyped
  PROVE  /\ \A i \in DOMAIN Play!MirrorPlan : Play!MirrorPlan[i] \in Int
         /\ Play!InStep => DOMAIN Play!MirrorPlan = {}
<1> DEFINE D == Play!Listed
           ahead == [i \in D |->
                        {j \in D :
                            \/ Play!PlayOrderOf(j) < Play!PlayOrderOf(i)
                            \/ /\ Play!PlayOrderOf(j) = Play!PlayOrderOf(i)
                               /\ Comes(slot, j, i)}]
           listed == Play!InOrder(D)
           sorted == Play!Sorted(ahead)
           changed == {k \in DOMAIN listed :
                            slot[sorted[k]].at # slot[listed[k]].at}
<1>1. D \subseteq DOMAIN slot /\ \A i \in D : slot[i].of \in Asset
  BY DEF Play!Listed
<1>2. /\ \A i \in D : i \in Int /\ slot[i].at \in Int
      /\ \A i \in D : Play!PlayOrderOf(i) \in Int
      /\ IsFiniteSet(D)
  <2>1. IsFiniteSet(D)
    BY <1>1, SlotsTable, FS_Subset DEF TableOK
  <2>2. \A i \in D : i \in Int /\ slot[i].at \in Int
    BY <1>1, SlotsTable DEF TableOK
  <2>3. \A i \in D : Play!PlayOrderOf(i) \in Int
    BY <1>1 DEF Play!PlayOrderOf, TablesAreTyped, RowState
  <2>4. QED
    BY <2>1, <2>2, <2>3
<1>3. Play!MirrorPlan
        = [i \in {sorted[k] : k \in changed} |->
                slot[listed[Play!PlaceIn(sorted, i) + 1]].at]
  BY DEF Play!MirrorPlan, Play!Precedes, Comes
<1>4. IsOrdering(ahead, D)
  <2> HIDE DEF D
  <2>1. QED
    BY <1>2 DEF IsOrdering, Comes
<1> HIDE DEF ahead
<1>5. Lists(sorted, D)
  BY <1>2, <1>4, SortedLists
<1>6. /\ Lists(listed, D) /\ Cardinality(D) \in Nat
      /\ \A j, k \in 1..Cardinality(D) :
            j < k => Comes(slot, listed[j], listed[k])
  BY <1>1, SomeInOrder
<1> HIDE DEF D, listed, sorted
<1>7. /\ sorted \in [1..Cardinality(D) -> D]
      /\ listed \in [1..Cardinality(D) -> D]
  BY <1>5, <1>6 DEF Lists
<1>8. ASSUME NEW i \in DOMAIN Play!MirrorPlan PROVE Play!MirrorPlan[i] \in Int
  <2>1. PICK k \in changed : i = sorted[k]
    BY <1>3
  <2>2. (CHOOSE j \in DOMAIN sorted : sorted[j] = i) \in DOMAIN sorted
    BY <1>7, <2>1
  <2>3. Play!PlaceIn(sorted, i) + 1 \in 1..Cardinality(D)
    BY <1>6, <1>7, <2>2 DEF Play!PlaceIn
  <2>4. slot[listed[Play!PlaceIn(sorted, i) + 1]].at \in Int
    BY <1>2, <1>7, <2>3
  <2>5. QED
    BY <1>3, <2>4
<1>9. ASSUME Play!InStep PROVE DOMAIN Play!MirrorPlan = {}
  <2>1. ASSUME NEW j \in DOMAIN listed, NEW k \in DOMAIN listed, j < k
        PROVE  listed[j] \in ahead[listed[k]]
    <3>1. /\ listed[j] \in D /\ listed[k] \in D
          /\ Comes(slot, listed[j], listed[k])
      BY <1>6, <1>7, <2>1
    <3>2. Play!Precedes(listed[j], listed[k])
      BY <3>1 DEF Comes, Play!Precedes
    <3>3. Play!PlayOrderOf(listed[j]) <= Play!PlayOrderOf(listed[k])
      BY <1>9, <3>1, <3>2 DEF Play!InStep, D
    <3>4. QED
      BY <1>2, <3>1, <3>3 DEF ahead
  <2>2. sorted = listed
    BY <1>2, <1>4, <1>6, <2>1, SortedIs DEF sorted
  <2>3. changed = {}
    BY <2>2
  <2>4. QED
    BY <1>3, <2>3
<1>10. QED
  BY <1>8, <1>9

-----------------------------------------------------------------------------
(* The order after a step. *)

\* A step that leaves table f leaves the order of f.
LEMMA OrderAfter ==
  ASSUME NEW f, slot' = f, TableOK(f), NEW s, InOrderOf(s, f)
  PROVE  Play!Order' = s
<1>1. Play!Order' = OrderOfTable(slot')
  BY OrderOfSlots
<1>2. OrderOfTable(f) = s
  BY TheOrderOfTable
<1>3. QED
  BY <1>1, <1>2

\* A step that keeps some of the slots keeps their order.
LEMMA OrderOfSome ==
  ASSUME TablesAreTyped, NEW D \in SUBSET DOMAIN slot,
         slot' = [i \in D |-> slot[i]]
  PROVE  Play!Order' = Play!InOrder(D)
<1>1. PICK f : f = [i \in D |-> slot[i]]
  OBVIOUS
<1>2. DOMAIN f = D /\ \A i \in D : f[i] = slot[i]
  BY <1>1
<1>3. TableOK(f)
  <2>1. TableOK(slot)
    BY SlotsTable
  <2>2. IsFiniteSet(D)
    BY <2>1, FS_Subset DEF TableOK
  <2>3. QED
    BY <1>2, <2>1, <2>2 DEF TableOK
<1>4. PICK s : s = Play!InOrder(D)
  OBVIOUS
<1>5. /\ Lists(s, D) /\ DOMAIN s = 1..Cardinality(D)
      /\ \A j, k \in 1..Cardinality(D) : j < k => Comes(slot, s[j], s[k])
  BY <1>4, SomeInOrder
<1>6. \A k \in DOMAIN s : s[k] \in D
  BY <1>5 DEF Lists
<1>7. InOrderOf(s, f)
  BY <1>2, <1>5, <1>6 DEF InOrderOf, Comes
<1>8. QED
  BY <1>1, <1>3, <1>4, <1>7, OrderAfter

\* What a step that writes neither table cannot change.
LEMMA SameTables ==
  ASSUME row' = row, slot' = slot, newId' = newId
  PROVE  /\ Play!Order' = Play!Order
         /\ Play!InStep' <=> Play!InStep
         /\ Play!Untied' <=> Play!Untied
         /\ \A D : Play!InOrder(D)' = Play!InOrder(D)
         /\ \A refs : Play!Dragged(refs)' = Play!Dragged(refs)
         /\ \A i, up : Play!Moved(i, up)' = Play!Moved(i, up)
         /\ \A a : Play!UpToLast(a)' = Play!UpToLast(a)
         /\ \A ids : Play!ListedFirst(ids)' = Play!ListedFirst(ids)
         /\ \A a : Play!Exists(a)' <=> Play!Exists(a)
         /\ \A t : MayPlace(t)' <=> MayPlace(t)
<1>1. \A D : Play!InOrder(D)' = Play!InOrder(D)
  BY DEF Play!InOrder, Play!Precedes, Play!Sorted
<1>2. Play!Order' = Play!Order
  BY <1>1 DEF Play!Order, Play!InOrder, Play!Precedes, Play!Sorted
<1>3. Play!InStep' <=> Play!InStep
  BY DEF Play!InStep, Play!Listed, Play!Precedes, Play!PlayOrderOf
<1>4. Play!Untied' <=> Play!Untied
  BY DEF Play!Untied
<1>5. \A refs : Play!Dragged(refs)' = Play!Dragged(refs)
  BY DEF Play!Dragged, Play!Precedes, Play!Sorted, Play!ToSet, Play!PlaceIn
<1>6. \A i, up : Play!Moved(i, up)' = Play!Moved(i, up)
  BY <1>2 DEF Play!Moved, Play!PlaceIn
<1>7. \A a : Play!UpToLast(a)' = Play!UpToLast(a)
  BY DEF Play!UpToLast, Play!Precedes
<1>8. \A ids : Play!ListedFirst(ids)' = Play!ListedFirst(ids)
  BY DEF Play!ListedFirst, Play!ToSet, Play!InOrder, Play!Precedes, Play!Sorted
<1>9. \A a : Play!Exists(a)' <=> Play!Exists(a)
  BY DEF Play!Exists
<1>10. \A t : MayPlace(t)' <=> MayPlace(t)
  BY DEF MayPlace, Play!Exists
<1>11. QED
  BY <1>1, <1>2, <1>3, <1>4, <1>5, <1>6, <1>7, <1>8, <1>9, <1>10

\* What a request leads to is a matter of the tables alone.
LEMMA LeadsOn ==
  ASSUME row' = row, slot' = slot, newId' = newId, NEW q, NEW s, LeadsTo(q, s)
  PROVE  LeadsTo(q, s)'
<1>1. ReadLeadsTo(q, s) => ReadLeadsTo(q, s)'
  BY SameTables DEF ReadLeadsTo
<1>2. CASE q.pc = "save"
  BY <1>2, SameTables DEF LeadsTo
<1>3. CASE q.pc = "number"
  BY <1>3, SameTables DEF LeadsTo
<1>4. CASE q.pc = "delete"
  BY <1>4, SameTables DEF LeadsTo
<1>5. CASE q.pc = "remove"
  BY <1>5, SameTables DEF LeadsTo
<1>6. CASE q.pc = "read"
  BY <1>1, <1>6 DEF LeadsTo
<1>7. CASE q.pc = "shift"
  <2>1. Grown(Shifted(slot, q.n), q.new, q.n)'
            = Grown(Shifted(slot, q.n), q.new, q.n)
    BY DEF Grown, Shifted
  <2>2. InOrderOf(s, Grown(Shifted(slot, q.n), q.new, q.n))
            => InOrderOf(s, Grown(Shifted(slot, q.n), q.new, q.n))'
    BY <2>1 DEF InOrderOf, Lists, Comes
  <2>3. QED
    BY <1>7, <2>2, SameTables DEF LeadsTo
<1>8. CASE q.pc = "create"
  <2>1. Planned(Grown(slot, q.new, q.n), q.plan)'
            = Planned(Grown(slot, q.new, q.n), q.plan)
    BY DEF Grown, Planned
  <2>2. InOrderOf(s, Planned(Grown(slot, q.new, q.n), q.plan))
            => InOrderOf(s, Planned(Grown(slot, q.new, q.n), q.plan))'
    BY <2>1 DEF InOrderOf, Lists, Comes
  <2>3. QED
    BY <1>8, <2>2, SameTables DEF LeadsTo
<1>9. CASE q.pc = "write"
  BY <1>9 DEF LeadsTo, Planned
<1>10. QED
  BY <1>2, <1>3, <1>4, <1>5, <1>6, <1>7, <1>8, <1>9 DEF LeadsTo

-----------------------------------------------------------------------------
(* A step of a request thread. *)

\* The request that ends leaves the order it was sent for.
WishesAreGranted ==
    \A w \in Worker :
        (Wishes(handler[w]) /\ handler[w].pc # "idle" /\ handler'[w].pc = "idle")
            => Play!Order' = handler[w].wish.slots

\* A handler at rest is typed and wishes nothing.
LEMMA RestingIsTyped ==
  /\ HandlerIsTyped(Play!Resting) /\ ~Wishes(Play!Resting)
  /\ Play!Resting.pc = "idle"
<1>1. <<>> \in Seq(Target) /\ DOMAIN <<>> = {}
  OBVIOUS
<1>2. Play!Resting.wish.slots = << 0 >>
  BY DEF Play!Resting, Play!NoWish
<1>3. QED
  BY <1>1, <1>2 DEF HandlerIsTyped, Play!Resting, Play!Gone, RowState, Wishes

\* A wish changes nothing else.
LEMMA Wishing ==
  ASSUME NEW q, HandlerIsTyped(q), NEW x, NEW r, r = [q EXCEPT !.wish = x]
  PROVE  /\ HandlerIsTyped(r) /\ r.wish = x
         /\ r.pc = q.pc /\ r.then = q.then
         /\ \A s : LeadsTo(q, s)' => LeadsTo(r, s)'
<1>1. /\ r.pc = q.pc /\ r.how = q.how /\ r.then = q.then /\ r.asset = q.asset
      /\ r.edit = q.edit /\ r.ids = q.ids /\ r.n = q.n /\ r.new = q.new
      /\ r.plan = q.plan /\ r.wish = x
      /\ r \in [pc : {r.pc}, how : {r.how}, then : {"idle", "active", "splice"},
                asset : {r.asset}, edit : RowState, ids : {r.ids}, n : Int,
                new : Seq(Target), plan : {r.plan}, wish : {r.wish}]
  BY DEF HandlerIsTyped
<1>2. HandlerIsTyped(r)
  BY <1>1 DEF HandlerIsTyped
<1>3. \A s : ReadLeadsTo(q, s)' <=> ReadLeadsTo(r, s)'
  BY <1>1 DEF ReadLeadsTo
<1>4. \A s : LeadsTo(q, s)' => LeadsTo(r, s)'
  <2>1. SUFFICES ASSUME NEW s, LeadsTo(q, s)' PROVE LeadsTo(r, s)'
    OBVIOUS
  <2>2. CASE q.pc = "save"
    BY <1>1, <2>1, <2>2 DEF LeadsTo
  <2>3. CASE q.pc = "number"
    BY <1>1, <2>1, <2>3 DEF LeadsTo
  <2>4. CASE q.pc = "delete"
    BY <1>1, <2>1, <2>4 DEF LeadsTo
  <2>5. CASE q.pc = "remove"
    BY <1>1, <2>1, <2>5 DEF LeadsTo
  <2>6. CASE q.pc = "read"
    BY <1>1, <1>3, <2>1, <2>6 DEF LeadsTo
  <2>7. CASE q.pc = "shift"
    BY <1>1, <2>1, <2>7 DEF LeadsTo
  <2>8. CASE q.pc = "create"
    BY <1>1, <2>1, <2>8 DEF LeadsTo
  <2>9. CASE q.pc = "write"
    BY <1>1, <2>1, <2>9 DEF LeadsTo
  <2>10. QED
    BY <2>1, <2>2, <2>3, <2>4, <2>5, <2>6, <2>7, <2>8, <2>9 DEF LeadsTo
<1>5. QED
  BY <1>1, <1>2, <1>4

\* A handler's step keeps the invariant if it goes to a typed state that still
\* leads to what was wished, or ends with that order in the table.
LEMMA Proceeds ==
  ASSUME OrderInv, NEW w \in Worker, handler[w].pc # "idle",
         TablesAreTyped', OneSlotEach',
         NEW state, Play!Becomes(w, state),
         state.pc # "idle" => (/\ HandlerIsTyped(state)
                               /\ state.wish = handler[w].wish),
         NEW asked, asked = handler[w].wish.slots,
         Wishes(handler[w]) =>
            IF state.pc = "idle" THEN Play!Order' = asked
            ELSE state.then = "idle" /\ LeadsTo(state, asked)'
  PROVE  OrderInv' /\ WishesAreGranted
<1>1. PICK next : next = IF state.pc = "idle" THEN Play!Resting ELSE state
  OBVIOUS
<1>2. /\ HandlerIsTyped(next)
      /\ Wishes(next) => Wishes(handler[w]) /\ next.pc # "idle"
                            /\ next = state /\ state.pc # "idle"
      /\ next.pc = "idle" <=> state.pc = "idle"
      /\ state.pc # "idle" => next = state
  BY <1>1, RestingIsTyped DEF Wishes
<1>3. handler' = [handler EXCEPT ![w] = next]
  BY <1>1 DEF Play!Becomes
<1>4. handler = [v \in Worker |-> handler[v]]
  BY DEF OrderInv, HandlersAreTyped
<1>5. /\ handler' = [v \in Worker |-> handler'[v]]
      /\ handler'[w] = next
      /\ \A v \in Worker : v # w => handler'[v] = handler[v]
  BY <1>3, <1>4
<1>6. \A v \in Worker : v # w => ~Wishes(handler[v])
  BY DEF OrderInv, WishersAreAlone
<1>7. HandlersAreTyped'
  <2>1. \A v \in Worker : HandlerIsTyped(handler'[v])
    BY <1>2, <1>5 DEF OrderInv, HandlersAreTyped
  <2>2. \A v \in Worker : Wishes(handler'[v]) => handler'[v].pc # "idle"
    BY <1>2, <1>5, <1>6
  <2>3. QED
    BY <1>5, <2>1, <2>2 DEF HandlersAreTyped, Wishes, HandlerIsTyped
<1>8. WishersAreAlone'
  BY <1>2, <1>5, <1>6 DEF OrderInv, WishersAreAlone, Wishes
<1>9. WishesComeTrue'
  <2>1. SUFFICES ASSUME NEW v \in Worker, NEW q, q = handler'[v], Wishes(q),
                        NEW s, s = q.wish.slots
                 PROVE  q.then = "idle" /\ LeadsTo(q, s)'
    BY DEF WishesComeTrue
  <2>2. v = w /\ q = next
    BY <1>5, <1>6, <2>1
  <2>3. q = state /\ Wishes(handler[w]) /\ state.pc # "idle"
    BY <1>2, <2>1, <2>2
  <2>4. s = asked
    BY <2>1, <2>3
  <2>5. QED
    BY <2>3, <2>4
<1>10. WishesAreGranted
  BY <1>2, <1>5, <1>6 DEF WishesAreGranted
<1>11. QED
  BY <1>7, <1>8, <1>9, <1>10 DEF OrderInv

\* A request that arrives keeps the invariant if its first state is typed and
\* leads to what it wishes.
LEMMA Begins ==
  ASSUME OrderInv, NEW w \in Worker, handler[w].pc = "idle",
         NEW state, NEW wish, Play!Begin(w, state, wish),
         HandlerIsTyped(state), ~Wishes(state),
         row' \in [Asset -> RowState],
         wish # Play!NoWish => state.pc # "idle",
         (wish.slots # << 0 >> /\ wish.despite = "none") =>
            /\ row' = row /\ state.then = "idle"
            /\ LeadsTo(state, wish.slots)
  PROVE  OrderInv' /\ WishesAreGranted
<1>1. slot' = slot /\ newId' = newId
  BY DEF Play!Begin
<1>2. TablesAreTyped' /\ OneSlotEach'
  BY <1>1 DEF OrderInv, TablesAreTyped, OneSlotEach
<1>3. handler = [v \in Worker |-> handler[v]]
      /\ \A v \in Worker : /\ HandlerIsTyped(handler[v])
                           /\ Wishes(handler[v]) => handler[v].pc # "idle"
  BY DEF OrderInv, HandlersAreTyped
<1>4. Play!NoWish.slots = << 0 >>
  BY DEF Play!NoWish
<1>5. CASE Play!Quiet
  <2>1. PICK next : next = [state EXCEPT !.wish = wish]
    OBVIOUS
  <2>2. /\ HandlerIsTyped(next) /\ next.wish = wish
        /\ next.pc = state.pc /\ next.then = state.then
        /\ \A s : LeadsTo(state, s)' => LeadsTo(next, s)'
    BY <2>1, Wishing
  <2>3. handler' = [handler EXCEPT ![w] = next]
    BY <1>5, <2>1 DEF Play!Begin
  <2>4. /\ handler' = [v \in Worker |-> handler'[v]]
        /\ handler'[w] = next
        /\ \A v \in Worker : v # w => handler'[v] = handler[v]
    BY <1>3, <2>3
  <2>5. \A v \in Worker : handler[v].pc = "idle" /\ ~Wishes(handler[v])
    BY <1>3, <1>5 DEF Play!Quiet
  <2>6. Wishes(next) => next.pc # "idle"
    BY <1>4, <2>2 DEF Wishes
  <2>7. HandlersAreTyped'
    <3>1. \A v \in Worker : HandlerIsTyped(handler'[v])
      BY <1>3, <2>2, <2>4
    <3>2. \A v \in Worker : Wishes(handler'[v]) => handler'[v].pc # "idle"
      BY <2>4, <2>5, <2>6
    <3>3. QED
      BY <2>4, <3>1, <3>2 DEF HandlersAreTyped, Wishes, HandlerIsTyped
  <2>8. WishersAreAlone'
    BY <2>4, <2>5 DEF WishersAreAlone, Wishes
  <2>9. WishesComeTrue'
    <3>1. SUFFICES ASSUME NEW v \in Worker, NEW q, q = handler'[v], Wishes(q),
                          NEW s, s = q.wish.slots
                   PROVE  q.then = "idle" /\ LeadsTo(q, s)'
      BY DEF WishesComeTrue
    <3>2. v = w /\ q = next
      BY <2>4, <2>5, <3>1
    <3>3. s = wish.slots /\ s # << 0 >> /\ wish.despite = "none"
      BY <2>2, <3>1, <3>2 DEF Wishes
    <3>4. LeadsTo(state, s)'
      BY <1>1, <3>3, LeadsOn
    <3>5. QED
      BY <2>2, <3>2, <3>3, <3>4
  <2>10. WishesAreGranted
    BY <2>5 DEF WishesAreGranted
  <2>11. QED
    BY <1>2, <2>7, <2>8, <2>9, <2>10 DEF OrderInv
<1>6. CASE ~Play!Quiet
  <2>1. handler' = [v \in Worker |->
                        IF v = w THEN state
                        ELSE [handler[v] EXCEPT !.wish = Play!NoWish]]
    BY <1>6 DEF Play!Begin
  <2>2. ASSUME NEW v \in Worker
        PROVE  HandlerIsTyped(handler'[v]) /\ ~Wishes(handler'[v])
    <3>1. CASE v = w
      BY <2>1, <3>1
    <3>2. CASE v # w
      <4>1. PICK q : q = handler[v]
        OBVIOUS
      <4>2. PICK r : r = [q EXCEPT !.wish = Play!NoWish]
        OBVIOUS
      <4>3. HandlerIsTyped(r) /\ r.wish = Play!NoWish
        BY <1>3, <4>1, <4>2, Wishing
      <4>4. handler'[v] = r
        BY <2>1, <3>2, <4>1, <4>2
      <4>5. QED
        BY <1>4, <4>3, <4>4 DEF Wishes
    <3>3. QED
      BY <3>1, <3>2
  <2>3. HandlersAreTyped'
    BY <2>1, <2>2 DEF HandlersAreTyped, Wishes, HandlerIsTyped
  <2>4. WishersAreAlone' /\ WishesComeTrue'
    BY <2>2 DEF WishersAreAlone, WishesComeTrue, Wishes
  <2>5. \A v \in Worker : handler'[v].pc = "idle" => handler[v].pc = "idle"
    <3>1. \A v \in Worker : v # w => handler'[v].pc = handler[v].pc
      BY <1>3, <2>1 DEF HandlerIsTyped
    <3>2. QED
      BY <3>1
  <2>6. WishesAreGranted
    BY <2>5 DEF WishesAreGranted
  <2>7. QED
    BY <1>2, <2>3, <2>4, <2>6 DEF OrderInv
<1>7. QED
  BY <1>5, <1>6

\* What the invariant says of one handler.
LEMMA AtWork ==
  ASSUME OrderInv, NEW w \in Worker, NEW q, q = handler[w]
  PROVE  /\ HandlerIsTyped(q)
         /\ Wishes(q) => q.then = "idle" /\ LeadsTo(q, q.wish.slots)
         /\ TablesAreTyped /\ OneSlotEach
BY DEF OrderInv, HandlersAreTyped, WishesComeTrue

\* An asset row that changes leaves the slots alone.
LEMMA RowKept ==
  ASSUME OrderInv, slot' = slot, newId' = newId, row' \in [Asset -> RowState]
  PROVE  TablesAreTyped' /\ OneSlotEach' /\ Play!Order' = Play!Order
<1>1. Play!Order' = Play!Order
  BY DEF Play!Order, Play!InOrder, Play!Precedes, Play!Sorted
<1>2. QED
  BY <1>1 DEF OrderInv, TablesAreTyped, OneSlotEach

LEMMA InsertRowStep ==
  ASSUME OrderInv, NEW w \in Worker, Play!InsertRow(w)
  PROVE  OrderInv' /\ WishesAreGranted
<1>1. PICK q, asked : q = handler[w] /\ asked = q.wish.slots
  OBVIOUS
<1>2. PICK state : state = [q EXCEPT !.pc = "place"]
  OBVIOUS
<1>3. HandlerIsTyped(q) /\ (Wishes(q) => LeadsTo(q, asked))
  BY <1>1, AtWork
<1>4. /\ q.pc = "insert" /\ row' = [row EXCEPT ![q.asset] = q.edit]
      /\ slot' = slot /\ newId' = newId /\ Play!Becomes(w, state)
  BY <1>1, <1>2 DEF Play!InsertRow, Play!Continue
<1>5. HandlerIsTyped(state) /\ state.wish = q.wish /\ state.pc # "idle"
  BY <1>2, <1>3, <1>4 DEF HandlerIsTyped
<1>6. row' \in [Asset -> RowState]
  BY <1>3, <1>4 DEF OrderInv, TablesAreTyped, HandlerIsTyped
<1>7. ~Wishes(q)
  BY <1>3, <1>4 DEF LeadsTo
<1>8. QED
  BY <1>1, <1>4, <1>5, <1>6, <1>7, RowKept, Proceeds

LEMMA SaveRowStep ==
  ASSUME OrderInv, NEW w \in Worker, Play!SaveRow(w)
  PROVE  OrderInv' /\ WishesAreGranted
<1>1. PICK q, asked : q = handler[w] /\ asked = q.wish.slots
  OBVIOUS
<1>2. PICK state : state = [q EXCEPT !.pc = IF Play!Exists(q.asset) THEN "read"
                                            ELSE "place"]
  OBVIOUS
<1>3. HandlerIsTyped(q) /\ (Wishes(q) => q.then = "idle" /\ LeadsTo(q, asked))
  BY <1>1, AtWork
<1>4. /\ q.pc = "save" /\ row' = [row EXCEPT ![q.asset] = q.edit]
      /\ slot' = slot /\ newId' = newId /\ Play!Becomes(w, state)
  BY <1>1, <1>2 DEF Play!SaveRow, Play!Continue
<1>5. /\ HandlerIsTyped(state) /\ state.wish = q.wish /\ state.pc # "idle"
      /\ state.how = "mirror" /\ state.then = q.then
      /\ state.pc = IF Play!Exists(q.asset) THEN "read" ELSE "place"
  BY <1>2, <1>3, <1>4 DEF HandlerIsTyped
<1>6. row' \in [Asset -> RowState]
  BY <1>3, <1>4 DEF OrderInv, TablesAreTyped, HandlerIsTyped
<1>7. TablesAreTyped' /\ OneSlotEach' /\ Play!Order' = Play!Order
  BY <1>4, <1>6, RowKept
<1>8. ASSUME Wishes(q) PROVE state.then = "idle" /\ LeadsTo(state, asked)'
  <2>1. /\ q.asset \in Asset /\ Play!Exists(q.asset)
        /\ q.edit.order = row[q.asset].order
        /\ asked = Play!Order /\ Play!InStep
    BY <1>3, <1>4, <1>8 DEF LeadsTo
  <2>2. \A a \in Asset : row'[a].order = row[a].order
    BY <1>3, <1>4, <2>1 DEF OrderInv, TablesAreTyped, HandlerIsTyped
  <2>3. Play!InStep'
    BY <1>4, <2>1, <2>2 DEF Play!InStep, Play!Listed, Play!PlayOrderOf,
                            Play!Precedes
  <2>4. ReadLeadsTo(state, asked)'
    BY <1>5, <1>7, <2>1, <2>3 DEF ReadLeadsTo
  <2>5. QED
    BY <1>3, <1>5, <1>8, <2>1, <2>4 DEF LeadsTo
<1>9. QED
  BY <1>1, <1>4, <1>5, <1>7, <1>8, Proceeds

LEMMA ReadActiveStep ==
  ASSUME OrderInv, NEW w \in Worker, Play!ReadActive(w)
  PROVE  OrderInv' /\ WishesAreGranted
<1>1. PICK q, asked : q = handler[w] /\ asked = q.wish.slots
  OBVIOUS
<1>2. PICK state, ids : /\ state = [q EXCEPT !.pc = "splice", !.ids = ids]
                        /\ q.pc = "active" /\ Play!Becomes(w, state)
                        /\ row' = row /\ slot' = slot /\ newId' = newId
  BY <1>1 DEF Play!ReadActive
<1>3. HandlerIsTyped(q) /\ (Wishes(q) => LeadsTo(q, asked))
  BY <1>1, AtWork
<1>4. HandlerIsTyped(state) /\ state.wish = q.wish /\ state.pc # "idle"
  BY <1>2, <1>3 DEF HandlerIsTyped
<1>5. ~Wishes(q)
  BY <1>2, <1>3 DEF LeadsTo
<1>6. row' \in [Asset -> RowState]
  BY <1>2 DEF OrderInv, TablesAreTyped
<1>7. QED
  BY <1>1, <1>2, <1>4, <1>5, <1>6, RowKept, Proceeds

LEMMA SpliceStep ==
  ASSUME OrderInv, NEW w \in Worker, Play!Splice(w)
  PROVE  OrderInv' /\ WishesAreGranted
<1>1. PICK q, asked : q = handler[w] /\ asked = q.wish.slots
  OBVIOUS
<1>2. PICK state, ids :
            /\ \/ state = Play!Resting
               \/ state = [q EXCEPT !.pc = IF ids = <<>> THEN "read"
                                           ELSE "number",
                                    !.ids = ids, !.then = "idle"]
            /\ q.pc = "splice" /\ Play!Becomes(w, state)
            /\ row' = row /\ slot' = slot /\ newId' = newId
  <2>1. PICK ids : /\ Play!Becomes(w,
                        IF ~Play!Exists(q.asset) THEN Play!Resting
                        ELSE [q EXCEPT !.pc = IF ids = <<>> THEN "read"
                                              ELSE "number",
                                       !.ids = ids, !.then = "idle"])
                   /\ q.pc = "splice"
                   /\ row' = row /\ slot' = slot /\ newId' = newId
    BY <1>1 DEF Play!Splice
  <2>2. CASE Play!Exists(q.asset)
    BY <2>1, <2>2
  <2>3. CASE ~Play!Exists(q.asset)
    BY <2>1, <2>3
  <2>4. QED
    BY <2>2, <2>3
<1>3. HandlerIsTyped(q) /\ (Wishes(q) => LeadsTo(q, asked))
  BY <1>1, AtWork
<1>4. \/ state.pc = "idle"
      \/ HandlerIsTyped(state) /\ state.wish = q.wish
  <2>1. CASE state = Play!Resting
    BY <2>1, RestingIsTyped
  <2>2. CASE state # Play!Resting
    BY <1>2, <1>3, <2>2, ZenonT(30) DEF HandlerIsTyped
  <2>3. QED
    BY <2>1, <2>2
<1>5. ~Wishes(q)
  BY <1>2, <1>3 DEF LeadsTo
<1>6. row' \in [Asset -> RowState]
  BY <1>2 DEF OrderInv, TablesAreTyped
<1>7. QED
  BY <1>1, <1>2, <1>4, <1>5, <1>6, RowKept, Proceeds

LEMMA NumberNextStep ==
  ASSUME OrderInv, NEW w \in Worker, Play!NumberNext(w)
  PROVE  OrderInv' /\ WishesAreGranted
<1>1. PICK q, asked : q = handler[w] /\ asked = q.wish.slots
  OBVIOUS
<1>2. PICK state, a :
            /\ state = [q EXCEPT !.n = q.n + 1,
                                 !.pc = IF q.n + 1 = Len(q.ids) THEN "read"
                                        ELSE "number"]
            /\ row' = IF Play!Exists(a) THEN [row EXCEPT ![a].order = q.n]
                      ELSE row
            /\ q.pc = "number" /\ Play!Becomes(w, state)
            /\ slot' = slot /\ newId' = newId
  BY <1>1 DEF Play!NumberNext
<1>3. HandlerIsTyped(q) /\ (Wishes(q) => q.then = "idle" /\ LeadsTo(q, asked))
  BY <1>1, AtWork
<1>4. /\ state.wish = q.wish /\ state.pc \in {"read", "number"}
      /\ state.how = q.how /\ state.then = q.then /\ state.new = q.new
  BY <1>2, <1>3 DEF HandlerIsTyped
<1>5. HandlerIsTyped(state)
  <2>1. q.n + 1 \in Int
    BY <1>3 DEF HandlerIsTyped
  <2>2. PICK n \in Int, pc \in {"read", "number"} :
            state = [q EXCEPT !.n = n, !.pc = pc]
    BY <1>2, <2>1
  <2>3. q.how # "insert"
    BY <1>2, <1>3, <2>2 DEF HandlerIsTyped
  <2>4. QED
    BY <1>3, <2>2, <2>3 DEF HandlerIsTyped
<1>6. row' \in [Asset -> RowState]
  BY <1>2, <1>3 DEF OrderInv, TablesAreTyped, HandlerIsTyped, RowState
<1>7. TablesAreTyped' /\ OneSlotEach' /\ Play!Order' = Play!Order
  BY <1>2, <1>6, RowKept
<1>8. ASSUME Wishes(q) PROVE state.then = "idle" /\ LeadsTo(state, asked)'
  <2>1. q.how = "drag" /\ asked = Play!Dragged(q.new)
    BY <1>2, <1>3, <1>8 DEF LeadsTo
  <2>2. Play!Dragged(q.new)' = Play!Dragged(q.new)
    BY <1>2 DEF Play!Dragged, Play!Precedes, Play!Sorted, Play!ToSet,
                Play!PlaceIn
  <2>3. asked = Play!Dragged(state.new)'
    BY <1>4, <2>1, <2>2
  <2>4. ReadLeadsTo(state, asked)'
    BY <1>4, <2>1, <2>3 DEF ReadLeadsTo
  <2>5. QED
    BY <1>3, <1>4, <1>8, <2>1, <2>3, <2>4 DEF LeadsTo
<1>9. QED
  BY <1>1, <1>2, <1>4, <1>5, <1>7, <1>8, Proceeds

\* The table of the next state can be sorted too.
LEMMA NextTable ==
  ASSUME TablesAreTyped' PROVE TableOK(slot')
<1>1. PICK n, D : /\ n \in Nat /\ n = newId'
                 /\ D = DOMAIN slot' /\ D \subseteq 1..(n - 1)
  BY DEF TablesAreTyped
<1>2. IsFiniteSet(D)
  <2>1. n - 1 \in Int
    BY <1>1
  <2>2. IsFiniteSet(1..(n - 1))
    BY <2>1, FS_Interval
  <2>3. QED
    BY <1>1, <2>2, FS_Subset
<1>3. \A i \in DOMAIN slot' : slot'[i] \in SlotState
  BY DEF TablesAreTyped
<1>4. QED
  BY <1>1, <1>2, <1>3 DEF TableOK, SlotState

\* The changes are written by a later step, or there are none.
LEMMA ChangesFollow ==
  ASSUME OrderInv, NEW w \in Worker, handler[w].pc # "idle",
         TablesAreTyped', OneSlotEach',
         NEW plan, Play!WriteLater(w, plan),
         \A i \in DOMAIN plan : plan[i] \in Int,
         NEW asked, asked = handler[w].wish.slots,
         Wishes(handler[w]) => InOrderOf(asked, Planned(slot', plan))
  PROVE  OrderInv' /\ WishesAreGranted
<1>1. PICK q : q = handler[w]
  OBVIOUS
<1>2. PICK state : state = [q EXCEPT !.plan = plan,
                                     !.pc = IF DOMAIN plan = {} THEN q.then
                                            ELSE "write"]
  OBVIOUS
<1>3. HandlerIsTyped(q) /\ (Wishes(q) => q.then = "idle")
  BY <1>1, AtWork
<1>4. Play!Becomes(w, state)
  BY <1>1, <1>2 DEF Play!WriteLater
<1>5. /\ state.pc = IF DOMAIN plan = {} THEN q.then ELSE "write"
      /\ state.plan = plan /\ state.wish = q.wish /\ state.then = q.then
  BY <1>2, <1>3 DEF HandlerIsTyped
<1>6. HandlerIsTyped(state)
  <2>1. PICK pc \in {"idle", "active", "splice", "write"} :
            /\ state = [q EXCEPT !.plan = plan, !.pc = pc]
            /\ pc \in {"active", "splice"} => q.then # "idle"
    BY <1>2, <1>3 DEF HandlerIsTyped
  <2>2. QED
    BY <1>3, <2>1 DEF HandlerIsTyped
<1>7. ASSUME Wishes(q)
      PROVE  IF state.pc = "idle" THEN Play!Order' = asked
             ELSE state.then = "idle" /\ LeadsTo(state, asked)'
  <2>1. CASE DOMAIN plan = {}
    <3>1. PICK f : f = slot'
      OBVIOUS
    <3>2. Planned(f, plan) = [i \in DOMAIN f |-> f[i]]
      BY <2>1 DEF Planned
    <3>3. f = [i \in DOMAIN f |-> f[i]]
      BY <3>1 DEF TablesAreTyped
    <3>4. InOrderOf(asked, f) /\ TableOK(f)
      BY <1>1, <1>7, <3>1, <3>2, <3>3, NextTable
    <3>5. Play!Order' = asked
      BY <3>1, <3>4, OrderAfter
    <3>6. QED
      BY <1>3, <1>5, <1>7, <2>1, <3>5
  <2>2. CASE DOMAIN plan # {}
    <3>1. InOrderOf(asked, Planned(slot', state.plan))
      BY <1>1, <1>5, <1>7
    <3>2. LeadsTo(state, asked)'
      BY <1>5, <2>2, <3>1 DEF LeadsTo, InOrderOf, Planned, Lists, Comes
    <3>3. QED
      BY <1>3, <1>5, <1>7, <2>2, <3>2
  <2>3. QED
    BY <2>1, <2>2
<1>8. QED
  BY <1>1, <1>4, <1>5, <1>6, <1>7, Proceeds

LEMMA MirrorStep ==
  ASSUME OrderInv, NEW w \in Worker, Play!Mirror(w)
  PROVE  OrderInv' /\ WishesAreGranted
<1>1. PICK q, asked : q = handler[w] /\ asked = q.wish.slots
  OBVIOUS
<1>2. PICK plan : plan = Play!MirrorPlan
  OBVIOUS
<1>3. /\ q.pc = "read" /\ q.how = "mirror" /\ Play!WriteLater(w, plan)
      /\ row' = row /\ slot' = slot /\ newId' = newId
  BY <1>1, <1>2 DEF Play!Mirror
<1>4. HandlerIsTyped(q) /\ (Wishes(q) => LeadsTo(q, asked)) /\ TablesAreTyped
  BY <1>1, AtWork
<1>5. TablesAreTyped' /\ OneSlotEach'
  BY <1>3, RowKept DEF OrderInv, TablesAreTyped
<1>6. ASSUME Wishes(q) PROVE InOrderOf(asked, Planned(slot', plan))
  <2>1. asked = Play!Order /\ Play!InStep
    BY <1>3, <1>4, <1>6 DEF LeadsTo, ReadLeadsTo
  <2>2. DOMAIN plan = {}
    BY <1>2, <1>4, <2>1, MirrorInStep
  <2>3. Planned(slot, plan) = [i \in DOMAIN slot |-> slot[i]]
    BY <2>2 DEF Planned
  <2>4. slot = [i \in DOMAIN slot |-> slot[i]]
    BY <1>4 DEF TablesAreTyped
  <2>5. InOrderOf(Play!Order, slot)
    BY <1>4, OrderOfNow DEF InOrderOf
  <2>6. QED
    BY <1>3, <2>1, <2>3, <2>4, <2>5
<1>7. \A i \in DOMAIN plan : plan[i] \in Int
  BY <1>2, <1>4, MirrorInStep
<1>8. QED
  BY <1>1, <1>3, <1>5, <1>6, <1>7, ChangesFollow

LEMMA ReadForDragStep ==
  ASSUME OrderInv, NEW w \in Worker, Play!ReadForDrag(w)
  PROVE  OrderInv' /\ WishesAreGranted
<1>1. PICK q, asked : q = handler[w] /\ asked = q.wish.slots
  OBVIOUS
<1>2. HandlerIsTyped(q) /\ (Wishes(q) => LeadsTo(q, asked)) /\ TablesAreTyped
  BY <1>1, AtWork
<1>3. PICK refs \in Seq(Target) : refs = q.new
  BY <1>2 DEF HandlerIsTyped
<1>4. PICK s : s = Play!Dragged(refs)
  OBVIOUS
<1>5. PICK plan : plan = Play!Renumber(s, Len(Play!Order))
  OBVIOUS
<1>6. /\ q.pc = "read" /\ q.how = "drag" /\ Play!WriteLater(w, plan)
      /\ row' = row /\ slot' = slot /\ newId' = newId
  BY <1>1, <1>3, <1>4, <1>5 DEF Play!ReadForDrag
<1>7. Lists(s, DOMAIN slot)
  BY <1>2, <1>4, DraggedLists
<1>8. /\ InOrderOf(s, Planned(slot, plan))
      /\ \A i \in DOMAIN plan : plan[i] \in Int
  BY <1>2, <1>5, <1>7, PlanMakesOrder
<1>9. TablesAreTyped' /\ OneSlotEach'
  BY <1>6, RowKept DEF OrderInv, TablesAreTyped
<1>10. Wishes(q) => asked = s
  BY <1>2, <1>3, <1>4, <1>6 DEF LeadsTo, ReadLeadsTo
<1>11. QED
  BY <1>1, <1>6, <1>8, <1>9, <1>10, ChangesFollow

LEMMA ReadForDuplicateStep ==
  ASSUME OrderInv, NEW w \in Worker, Play!ReadForDuplicate(w)
  PROVE  OrderInv' /\ WishesAreGranted
<1>1. PICK q, asked : q = handler[w] /\ asked = q.wish.slots
  OBVIOUS
<1>2. /\ HandlerIsTyped(q) /\ TablesAreTyped
      /\ Wishes(q) => q.then = "idle" /\ LeadsTo(q, asked)
  BY <1>1, AtWork
<1>3. PICK at \in 0..Len(Play!Order) : at = Play!UpToLast(q.new[1])
  BY <1>2, UpToLastIsPlace
<1>4. PICK plan : plan = Play!Renumber(Play!Order, at)
  OBVIOUS
<1>5. PICK state : state = [q EXCEPT !.pc = "create", !.n = at, !.plan = plan]
  OBVIOUS
<1>6. /\ q.pc = "read" /\ q.how = "duplicate" /\ Play!Becomes(w, state)
      /\ row' = row /\ slot' = slot /\ newId' = newId
  BY <1>1, <1>3, <1>4, <1>5 DEF Play!ReadForDuplicate
<1>7. \A i \in DOMAIN plan : plan[i] \in Int
  <2>1. PICK o : o = Play!Order /\ Lists(o, DOMAIN slot)
    BY <1>2, OrderOfNow
  <2>2. at \in Int /\ plan = Play!Renumber(o, at)
    BY <1>4, <2>1
  <2>3. QED
    BY <1>2, <2>1, <2>2, PlanNumbers
<1>8. /\ state.pc = "create" /\ state.how = q.how /\ state.then = q.then
      /\ state.new = q.new /\ state.wish = q.wish
      /\ state.n = at /\ state.plan = plan
  BY <1>2, <1>5 DEF HandlerIsTyped
<1>9. HandlerIsTyped(state)
  <2>1. at \in Int
    OBVIOUS
  <2>2. QED
    BY <1>2, <1>5, <1>6, <1>7, <2>1, ZenonT(30) DEF HandlerIsTyped
<1>10. TablesAreTyped' /\ OneSlotEach'
  BY <1>6, RowKept DEF OrderInv, TablesAreTyped
<1>11. ASSUME Wishes(q) PROVE state.then = "idle" /\ LeadsTo(state, asked)'
  <2>1. PICK a \in Asset : /\ q.new = <<a>> /\ Play!Exists(a)
                           /\ asked = InsertAt(Play!Order, at + 1, newId)
    <3>1. PICK a \in Asset :
                /\ q.new = <<a>> /\ Play!Exists(a)
                /\ asked = InsertAt(Play!Order, Play!UpToLast(a) + 1, newId)
      BY <1>2, <1>6, <1>11 DEF LeadsTo, ReadLeadsTo
    <3>2. at = Play!UpToLast(a)
      BY <1>3, <3>1
    <3>3. QED
      BY <3>1, <3>2
  <2>2. InOrderOf(asked, Planned(Grown(slot, state.new, state.n), state.plan))
    BY <1>2, <1>4, <1>8, <2>1, DuplicateMakesOrder DEF Target
  <2>3. \A k \in DOMAIN state.new : MayPlace(state.new[k])
    BY <1>8, <2>1 DEF MayPlace
  <2>4. LeadsTo(state, asked)
    BY <1>8, <2>2, <2>3 DEF LeadsTo
  <2>5. QED
    BY <1>2, <1>6, <1>8, <1>11, <2>4, LeadsOn
<1>12. QED
  BY <1>1, <1>6, <1>8, <1>9, <1>10, <1>11, Proceeds

LEMMA ReadForAppendStep ==
  ASSUME OrderInv, NEW w \in Worker, Play!ReadForAppend(w)
  PROVE  OrderInv' /\ WishesAreGranted
<1>1. PICK q, asked : q = handler[w] /\ asked = q.wish.slots
  OBVIOUS
<1>2. /\ HandlerIsTyped(q) /\ TablesAreTyped
      /\ Wishes(q) => q.then = "idle" /\ LeadsTo(q, asked)
  BY <1>1, AtWork
<1>3. PICK at \in Int : at = Play!AtEnd
  BY <1>2, EndIsBehind
<1>4. PICK state : state = [q EXCEPT !.pc = "create", !.n = at]
  OBVIOUS
<1>5. /\ q.pc = "read" /\ q.how = "append" /\ Play!Becomes(w, state)
      /\ row' = row /\ slot' = slot /\ newId' = newId
  BY <1>1, <1>3, <1>4 DEF Play!ReadForAppend
<1>6. /\ state.pc = "create" /\ state.how = q.how /\ state.then = q.then
      /\ state.new = q.new /\ state.wish = q.wish
      /\ state.n = at /\ state.plan = q.plan
  BY <1>2, <1>4 DEF HandlerIsTyped
<1>7. HandlerIsTyped(state)
  BY <1>2, <1>4, <1>5 DEF HandlerIsTyped
<1>8. TablesAreTyped' /\ OneSlotEach'
  BY <1>5, RowKept DEF OrderInv, TablesAreTyped
<1>9. ASSUME Wishes(q) PROVE state.then = "idle" /\ LeadsTo(state, asked)'
  <2>1. PICK new \in Seq(Target) : new = q.new
    BY <1>2 DEF HandlerIsTyped
  <2>2. /\ q.plan = <<>> /\ \A k \in DOMAIN new : MayPlace(new[k])
        /\ asked = Play!Order \o [k \in DOMAIN new |-> newId + k - 1]
    BY <1>2, <1>5, <1>9, <2>1 DEF LeadsTo, ReadLeadsTo
  <2>3. InOrderOf(asked, Grown(slot, new, at))
    BY <1>2, <1>3, <2>2, AppendMakesOrder
  <2>4. Planned(Grown(slot, new, at), state.plan) = Grown(slot, new, at)
    BY <1>6, <2>2 DEF Planned, Grown
  <2>5. LeadsTo(state, asked)
    BY <1>6, <2>1, <2>2, <2>3, <2>4 DEF LeadsTo
  <2>6. QED
    BY <1>2, <1>5, <1>6, <1>9, <2>5, LeadsOn
<1>10. QED
  BY <1>1, <1>5, <1>6, <1>7, <1>8, <1>9, Proceeds

LEMMA ReadForInsertStep ==
  ASSUME OrderInv, NEW w \in Worker, Play!ReadForInsert(w)
  PROVE  OrderInv' /\ WishesAreGranted
<1>1. PICK q, asked : q = handler[w] /\ asked = q.wish.slots
  OBVIOUS
<1>2. /\ HandlerIsTyped(q) /\ TablesAreTyped
      /\ Wishes(q) => q.then = "idle" /\ LeadsTo(q, asked)
  BY <1>1, AtWork
<1>3. PICK state :
        /\ state = [q EXCEPT
                !.pc = IF q.n < Len(Play!Order) THEN "shift" ELSE "create",
                !.n = IF q.n < Len(Play!Order) THEN slot[Play!Order[q.n + 1]].at
                      ELSE Play!AtEnd]
        /\ q.pc = "read" /\ q.how = "insert" /\ Play!Becomes(w, state)
        /\ row' = row /\ slot' = slot /\ newId' = newId
  BY <1>1 DEF Play!ReadForInsert
<1>4. q.n \in Nat
  BY <1>2, <1>3 DEF HandlerIsTyped
<1>5. PICK m \in Nat, o \in Seq(DOMAIN slot) :
            /\ o = Play!Order /\ m = Len(o)
            /\ o \in [1..m -> DOMAIN slot]
            /\ \A i \in DOMAIN slot : slot[i].at \in Int
  BY <1>2, OrderOfNow
<1>6. PICK pc \in {"shift", "create"}, at \in Int :
        /\ state = [q EXCEPT !.pc = pc, !.n = at]
        /\ q.n < m => pc = "shift" /\ at = slot[o[q.n + 1]].at
  <2>1. CASE q.n < m
    <3>1. q.n + 1 \in 1..m
      BY <1>4, <2>1
    <3>2. slot[o[q.n + 1]].at \in Int
      BY <1>5, <3>1
    <3>3. state = [q EXCEPT !.pc = "shift", !.n = slot[o[q.n + 1]].at]
      BY <1>3, <1>5, <2>1
    <3>4. QED
      BY <3>2, <3>3
  <2>2. CASE ~(q.n < m)
    <3>1. state = [q EXCEPT !.pc = "create", !.n = Play!AtEnd]
      BY <1>3, <1>5, <2>2
    <3>2. QED
      BY <1>2, <2>2, <3>1, EndIsBehind
  <2>3. QED
    BY <2>1, <2>2
<1>7. /\ state.pc = pc /\ state.how = q.how /\ state.then = q.then
      /\ state.new = q.new /\ state.wish = q.wish
      /\ state.n = at /\ state.plan = q.plan
  BY <1>2, <1>6 DEF HandlerIsTyped
<1>8. HandlerIsTyped(state)
  BY <1>2, <1>3, <1>6, ZenonT(30) DEF HandlerIsTyped
<1>9. TablesAreTyped' /\ OneSlotEach'
  BY <1>3, RowKept DEF OrderInv, TablesAreTyped
<1>10. ASSUME Wishes(q) PROVE state.then = "idle" /\ LeadsTo(state, asked)'
  <2>1. PICK n \in 0..(Len(Play!Order) - 1), a \in Asset :
            /\ n = q.n /\ q.plan = <<>> /\ q.new = <<a>> /\ Play!Exists(a)
            /\ Play!Untied /\ asked = InsertAt(Play!Order, n + 1, newId)
    BY <1>2, <1>3, <1>10 DEF LeadsTo, ReadLeadsTo
  <2>2. n < m
    BY <1>5, <2>1
  <2>3. pc = "shift" /\ at = slot[Play!Order[n + 1]].at
    BY <1>5, <1>6, <2>1, <2>2
  <2>4. a \in Target
    BY DEF Target
  <2>5. InOrderOf(asked, Grown(Shifted(slot, at), <<a>>, at))
    BY <1>2, <2>1, <2>3, <2>4, InsertMakesOrder
  <2>6. \A k \in DOMAIN <<a>> : MayPlace(<<a>>[k])
    BY <2>1 DEF MayPlace
  <2>7. LeadsTo(state, asked)
    BY <1>7, <2>1, <2>3, <2>5, <2>6 DEF LeadsTo
  <2>8. QED
    BY <1>2, <1>3, <1>7, <1>10, <2>7, LeadsOn
<1>11. QED
  BY <1>1, <1>3, <1>7, <1>8, <1>9, <1>10, Proceeds, ZenonT(30)

\* A request may end with the order as it is.
LEMMA TurnsAway ==
  ASSUME OrderInv, NEW w \in Worker, handler[w].pc # "idle",
         TablesAreTyped', OneSlotEach', Play!Becomes(w, Play!Resting),
         NEW asked, asked = handler[w].wish.slots,
         Wishes(handler[w]) => Play!Order' = asked
  PROVE  OrderInv' /\ WishesAreGranted
<1>1. PICK state : state = Play!Resting
  OBVIOUS
<1>2. state.pc = "idle" /\ Play!Becomes(w, state)
  BY <1>1, RestingIsTyped
<1>3. QED
  BY <1>2, Proceeds

LEMMA ReadForMoveStep ==
  ASSUME OrderInv, NEW w \in Worker, Play!ReadForMove(w)
  PROVE  OrderInv' /\ WishesAreGranted
<1>1. PICK q, asked : q = handler[w] /\ asked = q.wish.slots
  OBVIOUS
<1>2. HandlerIsTyped(q) /\ (Wishes(q) => LeadsTo(q, asked)) /\ TablesAreTyped
  BY <1>1, AtWork
<1>3. PICK up \in BOOLEAN : up = q.edit.enabled
  BY <1>2 DEF HandlerIsTyped, RowState
<1>4. PICK s : s = Play!Moved(q.n, up)
  OBVIOUS
<1>5. PICK plan : plan = Play!Renumber(s, Len(Play!Order))
  OBVIOUS
<1>6. /\ q.pc = "read" /\ q.how = "move"
      /\ row' = row /\ slot' = slot /\ newId' = newId
      /\ IF q.n \notin DOMAIN slot \/ s = Play!Order
         THEN Play!Becomes(w, Play!Resting) ELSE Play!WriteLater(w, plan)
  BY <1>1, <1>3, <1>4, <1>5 DEF Play!ReadForMove
<1>7. TablesAreTyped' /\ OneSlotEach' /\ Play!Order' = Play!Order
  BY <1>6, RowKept DEF OrderInv, TablesAreTyped
<1>8. Wishes(q) => q.n \in DOMAIN slot /\ asked = s
  BY <1>2, <1>3, <1>4, <1>6 DEF LeadsTo, ReadLeadsTo
<1>9. CASE q.n \notin DOMAIN slot \/ s = Play!Order
  BY <1>1, <1>6, <1>7, <1>8, <1>9, TurnsAway
<1>10. CASE ~(q.n \notin DOMAIN slot \/ s = Play!Order)
  <2>1. PICK i \in DOMAIN slot : i = q.n /\ s = Play!Moved(i, up)
    BY <1>4, <1>10
  <2>2. Lists(s, DOMAIN slot)
    BY <1>2, <2>1, MovedLists
  <2>3. /\ InOrderOf(s, Planned(slot, plan))
        /\ \A j \in DOMAIN plan : plan[j] \in Int
    BY <1>2, <1>5, <2>2, PlanMakesOrder
  <2>4. QED
    BY <1>1, <1>6, <1>7, <1>8, <1>10, <2>3, ChangesFollow
<1>11. QED
  BY <1>9, <1>10

LEMMA ReadForOrderStep ==
  ASSUME OrderInv, NEW w \in Worker, Play!ReadForOrder(w)
  PROVE  OrderInv' /\ WishesAreGranted
<1>1. PICK q, asked : q = handler[w] /\ asked = q.wish.slots
  OBVIOUS
<1>2. HandlerIsTyped(q) /\ (Wishes(q) => LeadsTo(q, asked)) /\ TablesAreTyped
  BY <1>1, AtWork
<1>3. PICK ids, D : ids = q.ids /\ D = Play!ToSet(ids)
  OBVIOUS
<1>4. PICK s : s = Play!ListedFirst(ids)
  OBVIOUS
<1>5. PICK plan : plan = Play!Renumber(s, Len(Play!Order))
  OBVIOUS
<1>6. /\ q.pc = "read" /\ q.how = "order"
      /\ row' = row /\ slot' = slot /\ newId' = newId
      /\ IF D \subseteq DOMAIN slot THEN Play!WriteLater(w, plan)
         ELSE Play!Becomes(w, Play!Resting)
  BY <1>1, <1>3, <1>4, <1>5 DEF Play!ReadForOrder
<1>7. TablesAreTyped' /\ OneSlotEach' /\ Play!Order' = Play!Order
  BY <1>6, RowKept DEF OrderInv, TablesAreTyped
<1>8. Wishes(q) => D \subseteq DOMAIN slot /\ asked = s
  <2>1. SUFFICES ASSUME Wishes(q) PROVE D \subseteq DOMAIN slot /\ asked = s
    OBVIOUS
  <2>2. PICK C \in SUBSET DOMAIN slot : Lists(ids, C) /\ asked = s
    BY <1>2, <1>3, <1>4, <1>6, <2>1 DEF LeadsTo, ReadLeadsTo
  <2>3. \A k \in DOMAIN ids : ids[k] \in C
    BY <2>2 DEF Lists
  <2>4. QED
    BY <1>3, <2>2, <2>3 DEF Play!ToSet
<1>9. CASE ~(D \subseteq DOMAIN slot)
  BY <1>1, <1>6, <1>7, <1>8, <1>9, TurnsAway
<1>10. CASE D \subseteq DOMAIN slot
  <2>1. Lists(ids, D)
    BY <1>2, <1>3, <1>6 DEF HandlerIsTyped
  <2>2. Lists(s, DOMAIN slot)
    BY <1>2, <1>4, <1>10, <2>1, ListedFirstLists
  <2>3. /\ InOrderOf(s, Planned(slot, plan))
        /\ \A j \in DOMAIN plan : plan[j] \in Int
    BY <1>2, <1>5, <2>2, PlanMakesOrder
  <2>4. QED
    BY <1>1, <1>6, <1>7, <1>8, <1>10, <2>3, ChangesFollow
<1>11. QED
  BY <1>9, <1>10

LEMMA DeleteRowStep ==
  ASSUME OrderInv, NEW w \in Worker, Play!DeleteRow(w)
  PROVE  OrderInv' /\ WishesAreGranted
<1>1. PICK q, asked : q = handler[w] /\ asked = q.wish.slots
  OBVIOUS
<1>2. HandlerIsTyped(q) /\ (Wishes(q) => LeadsTo(q, asked)) /\ TablesAreTyped
  BY <1>1, AtWork
<1>3. PICK D \in SUBSET DOMAIN slot :
        D = {i \in DOMAIN slot : slot[i].of # q.asset}
  OBVIOUS
<1>4. /\ q.pc = "delete" /\ row' = [row EXCEPT ![q.asset] = Play!Gone]
      /\ slot' = [i \in D |-> slot[i]] /\ newId' = newId
      /\ Play!Becomes(w, Play!Resting)
  BY <1>1, <1>3 DEF Play!DeleteRow, Play!Restrict
<1>5. Play!Gone \in RowState
  BY DEF Play!Gone, RowState
<1>6. TablesAreTyped' /\ OneSlotEach'
  BY <1>2, <1>3, <1>4, <1>5 DEF OrderInv, TablesAreTyped, OneSlotEach
<1>7. Wishes(q) => asked = Play!InOrder(D)
  BY <1>2, <1>3, <1>4 DEF LeadsTo
<1>8. Play!Order' = Play!InOrder(D)
  BY <1>2, <1>4, OrderOfSome
<1>9. QED
  BY <1>1, <1>4, <1>6, <1>7, <1>8, TurnsAway

LEMMA ShiftStep ==
  ASSUME OrderInv, NEW w \in Worker, Play!Shift(w)
  PROVE  OrderInv' /\ WishesAreGranted
<1>1. PICK q, asked : q = handler[w] /\ asked = q.wish.slots
  OBVIOUS
<1>2. /\ HandlerIsTyped(q) /\ TablesAreTyped /\ OneSlotEach
      /\ Wishes(q) => q.then = "idle" /\ LeadsTo(q, asked)
  BY <1>1, AtWork
<1>3. PICK f, state : /\ f = Shifted(slot, q.n)
                      /\ state = [q EXCEPT !.pc = "create"]
  OBVIOUS
<1>4. /\ q.pc = "shift" /\ slot' = f /\ Play!Becomes(w, state)
      /\ row' = row /\ newId' = newId
  BY <1>1, <1>3 DEF Play!Shift, Play!Continue, Shifted
<1>5. /\ state.pc = "create" /\ state.how = q.how /\ state.then = q.then
      /\ state.new = q.new /\ state.wish = q.wish
      /\ state.n = q.n /\ state.plan = q.plan
  BY <1>2, <1>3 DEF HandlerIsTyped
<1>6. HandlerIsTyped(state)
  BY <1>2, <1>3, <1>4 DEF HandlerIsTyped
<1>7. /\ DOMAIN f = DOMAIN slot
      /\ \A i \in DOMAIN slot : f[i] \in SlotState /\ f[i].of = slot[i].of
      /\ f = [i \in DOMAIN slot |-> f[i]]
  BY <1>2, <1>3 DEF TablesAreTyped, SlotState, Shifted
<1>8. TablesAreTyped' /\ OneSlotEach'
  BY <1>2, <1>4, <1>7 DEF TablesAreTyped, OneSlotEach
<1>9. ASSUME Wishes(q) PROVE state.then = "idle" /\ LeadsTo(state, asked)'
  <2>1. /\ q.plan = <<>> /\ \A k \in DOMAIN q.new : MayPlace(q.new[k])
        /\ InOrderOf(asked, Grown(f, q.new, q.n))
    BY <1>2, <1>3, <1>4, <1>9 DEF LeadsTo
  <2>2. \A k \in DOMAIN state.new : MayPlace(state.new[k])'
    BY <1>4, <1>5, <1>7, <2>1 DEF MayPlace, Play!Exists
  <2>3. PICK g : g = Grown(f, q.new, q.n)
    OBVIOUS
  <2>4. Grown(slot, state.new, state.n)' = g
    BY <1>4, <1>5, <2>3 DEF Grown
  <2>5. Planned(g, state.plan) = g
    BY <1>5, <2>1, <2>3 DEF Planned, Grown
  <2>6. InOrderOf(asked, Planned(Grown(slot, state.new, state.n)', state.plan))
    BY <2>1, <2>3, <2>4, <2>5
  <2>7. InOrderOf(asked, Planned(Grown(slot, state.new, state.n), state.plan))'
    BY <2>6 DEF InOrderOf, Planned, Grown, Lists, Comes
  <2>8. QED
    BY <1>2, <1>5, <1>9, <2>2, <2>7 DEF LeadsTo
<1>10. QED
  BY <1>1, <1>4, <1>5, <1>6, <1>8, <1>9, Proceeds

\* New items get free keys, and a playlist its only slot.
LEMMA AddKeepsTables ==
  ASSUME Play!OrderAssumption, TablesAreTyped, OneSlotEach,
         NEW new \in Seq(Target), NEW at \in Int, Play!Add(new, at), row' = row,
         \A j, k \in DOMAIN new : new[j] = new[k] => j = k,
         \A k \in DOMAIN new : MayPlace(new[k])
  PROVE  slot' = Grown(slot, new, at) /\ TablesAreTyped' /\ OneSlotEach'
<1>1. slot' = Grown(slot, new, at)
  BY DEF Play!Add, Grown
<1>2. PICK from \in Nat \ {0}, l \in Nat :
            /\ from = newId /\ l = Len(new) /\ DOMAIN new = 1..l
            /\ newId' = from + l
  BY DEF TablesAreTyped, Play!Add
<1>3. PICK D : /\ D = DOMAIN slot
               /\ \A i \in D : i \in Nat /\ i >= 1 /\ i < from
               /\ \A i \in D : slot[i] \in SlotState
  BY <1>2, SlotsTable DEF TablesAreTyped
<1>4. PICK f : f = Grown(slot, new, at)
  OBVIOUS
<1>5. /\ DOMAIN f = D \cup (from..(from + l - 1))
      /\ \A i \in DOMAIN f :
            f[i] = IF i \in D THEN slot[i]
                   ELSE [of |-> new[i - from + 1], at |-> at + i - from]
      /\ f = [i \in DOMAIN f |-> f[i]]
  BY <1>2, <1>3, <1>4 DEF Grown
<1>6. \A i \in DOMAIN f : i \notin D =>
            \E k \in 1..l : /\ k = i - from + 1 /\ i \in Nat /\ i < from + l
                            /\ f[i] = [of |-> new[k], at |-> at + i - from]
                            /\ f[i].of = new[k] /\ new[k] \in Target
                            /\ at + i - from \in Int
  <2>1. SUFFICES ASSUME NEW i \in DOMAIN f, i \notin D
                 PROVE  \E k \in 1..l :
                            /\ k = i - from + 1 /\ i \in Nat /\ i < from + l
                            /\ f[i] = [of |-> new[k], at |-> at + i - from]
                            /\ f[i].of = new[k] /\ new[k] \in Target
                            /\ at + i - from \in Int
    OBVIOUS
  <2>2. i \in from..(from + l - 1)
    BY <1>5, <2>1
  <2>3. PICK k \in 1..l : k = i - from + 1
    BY <1>2, <2>2
  <2>4. f[i] = [of |-> new[k], at |-> at + i - from]
    BY <1>5, <2>1, <2>3
  <2>5. new[k] \in Target
    BY <1>2
  <2>6. QED
    BY <1>2, <2>2, <2>3, <2>4, <2>5, SMTT(30)
<1>7. \A i \in DOMAIN f : i \in 1..(from + l - 1) /\ f[i] \in SlotState
  <2>1. SUFFICES ASSUME NEW i \in DOMAIN f
                 PROVE  i \in 1..(from + l - 1) /\ f[i] \in SlotState
    OBVIOUS
  <2>2. CASE i \in D
    <3>1. f[i] = slot[i] /\ f[i] \in SlotState
      BY <1>3, <1>5, <2>2
    <3>2. i \in Nat /\ i >= 1 /\ i < from
      BY <1>3, <2>2
    <3>3. i \in 1..(from + l - 1)
      BY <3>2
    <3>4. QED
      BY <3>1, <3>3
  <2>3. CASE i \notin D
    <3>1. PICK k \in 1..l : /\ k = i - from + 1 /\ i \in Nat /\ i < from + l
                            /\ f[i] = [of |-> new[k], at |-> at + i - from]
                            /\ new[k] \in Target
                            /\ at + i - from \in Int
      BY <1>6, <2>1, <2>3
    <3>2. i \in 1..(from + l - 1)
      BY <1>2, <3>1
    <3>3. QED
      BY <3>1, <3>2 DEF SlotState
  <2>4. QED
    BY <2>2, <2>3
<1>8. TablesAreTyped'
  <2>1. slot' \in [DOMAIN slot' -> SlotState]
    BY <1>1, <1>4, <1>5, <1>7
  <2>2. newId' \in Nat \ {0} /\ DOMAIN slot' \subseteq 1..(newId' - 1)
    BY <1>1, <1>2, <1>4, <1>7
  <2>3. QED
    BY <2>1, <2>2 DEF TablesAreTyped
<1>9. \A t \in Nested : t \notin Asset
  BY DEF Play!OrderAssumption
<1>10. ASSUME NEW i \in DOMAIN f, NEW j \in DOMAIN f,
              f[i].of = f[j].of, f[i].of \in Nested
       PROVE  i = j
  <2>1. CASE i \in D /\ j \in D
    BY <1>3, <1>5, <1>10, <2>1 DEF OneSlotEach
  <2>2. ASSUME NEW a \in D, NEW b \in DOMAIN f, b \notin D,
               f[a].of = f[b].of, f[a].of \in Nested
        PROVE  FALSE
    <3>1. PICK k \in 1..l : f[b].of = new[k]
      BY <1>6, <2>2
    <3>2. MayPlace(new[k]) /\ new[k] \notin Asset
      BY <1>2, <1>9, <2>2, <3>1
    <3>3. slot[a].of # new[k]
      BY <1>3, <3>2 DEF MayPlace
    <3>4. f[a].of = slot[a].of
      BY <1>3, <1>5
    <3>5. QED
      BY <2>2, <3>1, <3>3, <3>4
  <2>3. CASE i \notin D /\ j \notin D
    <3>1. PICK k \in 1..l : k = i - from + 1 /\ i \in Nat /\ f[i].of = new[k]
      BY <1>6, <2>3
    <3>2. PICK m \in 1..l : m = j - from + 1 /\ j \in Nat /\ f[j].of = new[m]
      BY <1>6, <2>3
    <3>3. k = m
      BY <1>2, <1>10, <3>1, <3>2
    <3>4. QED
      BY <1>2, <3>1, <3>2, <3>3
  <2>4. QED
    BY <1>10, <2>1, <2>2, <2>3
<1>11. OneSlotEach'
  BY <1>1, <1>4, <1>10 DEF OneSlotEach
<1>12. QED
  BY <1>1, <1>8, <1>11

LEMMA PlaceAssetStep ==
  ASSUME Play!OrderAssumption, OrderInv, NEW w \in Worker, Play!PlaceAsset(w)
  PROVE  OrderInv' /\ WishesAreGranted
<1>1. PICK q, asked, a : q = handler[w] /\ asked = q.wish.slots /\ a = q.asset
  OBVIOUS
<1>2. /\ HandlerIsTyped(q) /\ TablesAreTyped /\ OneSlotEach
      /\ Wishes(q) => LeadsTo(q, asked)
  BY <1>1, AtWork
<1>3. PICK at : at = q.edit.order
  OBVIOUS
<1>4. PICK state : state = [q EXCEPT !.pc = "read"]
  OBVIOUS
<1>5. /\ q.pc = "place" /\ row' = row
      /\ IF Play!Exists(a) /\ \A i \in DOMAIN slot : slot[i].of # a
         THEN Play!Add(<<a>>, at) ELSE slot' = slot /\ newId' = newId
      /\ IF Play!Exists(a) THEN Play!Becomes(w, state)
         ELSE Play!Becomes(w, Play!Resting)
  BY <1>1, <1>3, <1>4 DEF Play!PlaceAsset, Play!Continue
<1>6. a \in Asset /\ q.how = "mirror" /\ at \in Int
  BY <1>1, <1>2, <1>3, <1>5 DEF HandlerIsTyped, RowState
<1>7. ~Wishes(q)
  BY <1>2, <1>5 DEF LeadsTo
<1>8. TablesAreTyped' /\ OneSlotEach'
  <2>1. CASE slot' = slot /\ newId' = newId
    BY <1>2, <1>5, <2>1, RowKept DEF OrderInv, TablesAreTyped
  <2>2. CASE Play!Exists(a) /\ Play!Add(<<a>>, at)
    <3>1. PICK new \in Seq(Target) : new = <<a>>
      <4>1. PICK t \in Target : t = a
        BY <1>6 DEF Target
      <4>2. <<t>> \in Seq(Target)
        OBVIOUS
      <4>3. QED
        BY <4>1, <4>2
    <3>2. \A k \in DOMAIN new : new[k] = a /\ k = 1
      BY <3>1
    <3>3. \A k \in DOMAIN new : MayPlace(new[k])
      BY <1>6, <2>2, <3>2 DEF MayPlace
    <3>4. Play!Add(new, at)
      BY <2>2, <3>1
    <3>5. \A j, k \in DOMAIN new : new[j] = new[k] => j = k
      BY <3>2
    <3>6. QED
      BY <1>2, <1>5, <1>6, <3>3, <3>4, <3>5, AddKeepsTables
  <2>3. QED
    BY <1>5, <2>1, <2>2
<1>9. CASE Play!Exists(a)
  <2>1. HandlerIsTyped(state) /\ state.wish = q.wish /\ state.pc = "read"
    BY <1>2, <1>4, <1>5, <1>6 DEF HandlerIsTyped
  <2>2. QED
    BY <1>1, <1>5, <1>7, <1>8, <1>9, <2>1, Proceeds
<1>10. CASE ~Play!Exists(a)
  BY <1>1, <1>5, <1>7, <1>8, <1>10, TurnsAway
<1>11. QED
  BY <1>9, <1>10

LEMMA CreateItemsStep ==
  ASSUME Play!OrderAssumption, OrderInv, NEW w \in Worker, Play!CreateItems(w)
  PROVE  OrderInv' /\ WishesAreGranted
<1>1. PICK q, asked, plan :
        q = handler[w] /\ asked = q.wish.slots /\ plan = q.plan
  OBVIOUS
<1>2. /\ HandlerIsTyped(q) /\ TablesAreTyped /\ OneSlotEach
      /\ Wishes(q) => LeadsTo(q, asked)
  BY <1>1, AtWork
<1>3. PICK new \in Seq(Target), at \in Int :
            /\ new = q.new /\ at = q.n
            /\ \A j, k \in DOMAIN new : new[j] = new[k] => j = k
            /\ \A i \in DOMAIN plan : plan[i] \in Int
  BY <1>1, <1>2 DEF HandlerIsTyped
<1>4. q.pc = "create" /\ row' = row
  BY <1>1 DEF Play!CreateItems
<1>5. \/ /\ \A k \in DOMAIN new : MayPlace(new[k])
         /\ Play!Add(new, at) /\ Play!WriteLater(w, plan)
      \/ /\ ~(\A k \in DOMAIN new : MayPlace(new[k]))
         /\ Play!Becomes(w, Play!Resting) /\ slot' = slot /\ newId' = newId
  <2>1. (\A t \in Play!ToSet(new) :
            IF t \in Asset THEN Play!Exists(t)
            ELSE t \notin {slot[i].of : i \in DOMAIN slot})
            <=> \A k \in DOMAIN new : MayPlace(new[k])
    BY DEF Play!ToSet, MayPlace
  <2>2. QED
    BY <1>1, <1>3, <2>1 DEF Play!CreateItems
<1>6. Wishes(q) => /\ \A k \in DOMAIN new : MayPlace(new[k])
                   /\ InOrderOf(asked, Planned(Grown(slot, new, at), plan))
  BY <1>1, <1>2, <1>3, <1>4 DEF LeadsTo
<1>7. CASE Play!Add(new, at) /\ Play!WriteLater(w, plan)
           /\ \A k \in DOMAIN new : MayPlace(new[k])
  <2>1. slot' = Grown(slot, new, at) /\ TablesAreTyped' /\ OneSlotEach'
    BY <1>2, <1>3, <1>4, <1>7, AddKeepsTables
  <2>2. Wishes(q) => InOrderOf(asked, Planned(slot', plan))
    BY <1>6, <2>1
  <2>3. QED
    BY <1>1, <1>3, <1>4, <1>7, <2>1, <2>2, ChangesFollow
<1>8. CASE /\ ~(\A k \in DOMAIN new : MayPlace(new[k]))
           /\ Play!Becomes(w, Play!Resting) /\ slot' = slot /\ newId' = newId
  <2>1. TablesAreTyped' /\ OneSlotEach'
    BY <1>4, <1>8, RowKept DEF OrderInv, TablesAreTyped
  <2>2. QED
    BY <1>1, <1>4, <1>6, <1>8, <2>1, TurnsAway
<1>9. QED
  BY <1>5, <1>7, <1>8

LEMMA DeleteItemStep ==
  ASSUME Play!OrderAssumption, OrderInv, NEW w \in Worker, Play!DeleteItem(w)
  PROVE  OrderInv' /\ WishesAreGranted
<1>1. PICK q, asked : q = handler[w] /\ asked = q.wish.slots
  OBVIOUS
<1>2. /\ HandlerIsTyped(q) /\ TablesAreTyped /\ OneSlotEach
      /\ Wishes(q) => q.then = "idle" /\ LeadsTo(q, asked)
  BY <1>1, AtWork
<1>3. PICK D \in SUBSET DOMAIN slot : D = DOMAIN slot \ {q.n}
  OBVIOUS
<1>4. PICK state : state = [q EXCEPT !.pc = "read"]
  OBVIOUS
<1>5. /\ q.pc = "remove" /\ slot' = [i \in D |-> slot[i]]
      /\ row' = row /\ newId' = newId
      /\ IF q.new = <<>> THEN Play!Becomes(w, Play!Resting)
         ELSE Play!Becomes(w, state)
  BY <1>1, <1>3, <1>4 DEF Play!DeleteItem, Play!Restrict
<1>6. TablesAreTyped' /\ OneSlotEach'
  BY <1>2, <1>3, <1>5 DEF TablesAreTyped, OneSlotEach
<1>7. PICK s : s = Play!InOrder(D)
  OBVIOUS
<1>8. Play!Order' = s
  BY <1>2, <1>5, <1>7, OrderOfSome
<1>9. Wishes(q) =>
        /\ q.n \in DOMAIN slot /\ q.plan = <<>> /\ q.how = "append"
        /\ \/ q.new = <<>> /\ asked = s
           \/ /\ q.new = <<slot[q.n].of>> /\ slot[q.n].of \in Nested
              /\ asked = Append(s, newId)
  BY <1>2, <1>3, <1>5, <1>7 DEF LeadsTo
<1>10. CASE q.new = <<>>
  <2>1. Wishes(q) => asked = s
    BY <1>9, <1>10
  <2>2. QED
    BY <1>1, <1>5, <1>6, <1>8, <1>10, <2>1, TurnsAway
<1>11. CASE q.new # <<>>
  <2>1. /\ state.pc = "read" /\ state.how = q.how /\ state.then = q.then
        /\ state.new = q.new /\ state.wish = q.wish /\ state.plan = q.plan
    BY <1>2, <1>4 DEF HandlerIsTyped
  <2>2. HandlerIsTyped(state)
    BY <1>2, <1>4, <1>5 DEF HandlerIsTyped
  <2>3. ASSUME Wishes(q) PROVE state.then = "idle" /\ LeadsTo(state, asked)'
    <3>1. PICK t \in Nested : t = slot[q.n].of /\ q.new = <<t>>
      BY <1>9, <1>11, <2>3
    <3>2. t \notin Asset
      BY DEF Play!OrderAssumption
    <3>3. \A i \in D : slot[i].of # t
      BY <1>2, <1>3, <1>9, <2>3, <3>1 DEF OneSlotEach
    <3>4. MayPlace(t)'
      BY <1>3, <1>5, <3>2, <3>3 DEF MayPlace
    <3>5. \A k \in DOMAIN state.new : MayPlace(state.new[k])'
      BY <2>1, <3>1, <3>4
    <3>6. asked = Append(s, newId)
      BY <1>9, <1>11, <2>3
    <3>7. s \in Seq(DOMAIN slot)
      BY <1>2, <1>7, SomeInOrder
    <3>8. asked = s \o [k \in DOMAIN state.new |-> newId + k - 1]
      <4>1. PICK from \in Nat : from = newId
        BY <1>2 DEF TablesAreTyped
      <4>2. [k \in DOMAIN state.new |-> newId + k - 1] = <<from>>
        BY <2>1, <3>1, <4>1
      <4>3. Append(s, from) = s \o <<from>>
        BY <3>7
      <4>4. QED
        BY <3>6, <4>1, <4>2, <4>3
    <3>9. asked = (Play!Order \o [k \in DOMAIN state.new |-> newId + k - 1])'
      BY <1>5, <1>8, <3>8
    <3>10. QED
      BY <1>2, <1>9, <2>1, <2>3, <3>5, <3>9 DEF LeadsTo, ReadLeadsTo
  <2>4. QED
    BY <1>1, <1>5, <1>6, <1>11, <2>1, <2>2, <2>3, Proceeds
<1>12. QED
  BY <1>10, <1>11

LEMMA WritePositionsStep ==
  ASSUME OrderInv, NEW w \in Worker, Play!WritePositions(w)
  PROVE  OrderInv' /\ WishesAreGranted
<1>1. PICK q, asked : q = handler[w] /\ asked = q.wish.slots
  OBVIOUS
<1>2. /\ HandlerIsTyped(q) /\ TablesAreTyped /\ OneSlotEach
      /\ Wishes(q) => q.then = "idle" /\ LeadsTo(q, asked)
  BY <1>1, AtWork
<1>3. PICK f, state : /\ f = Planned(slot, q.plan)
                      /\ state = [q EXCEPT !.pc = q.then, !.plan = <<>>]
  OBVIOUS
<1>4. /\ q.pc = "write" /\ slot' = f /\ Play!Becomes(w, state)
      /\ row' = row /\ newId' = newId
  BY <1>1, <1>3 DEF Play!WritePositions, Planned
<1>5. /\ state.pc = q.then /\ state.wish = q.wish
  BY <1>2, <1>3 DEF HandlerIsTyped
<1>6. HandlerIsTyped(state)
  <2>1. PICK pc \in {"idle", "active", "splice"} :
            pc = q.then /\ state = [q EXCEPT !.pc = pc, !.plan = <<>>]
    BY <1>2, <1>3 DEF HandlerIsTyped
  <2>2. DOMAIN <<>> = {}
    OBVIOUS
  <2>3. QED
    BY <1>2, <1>4, <2>1, <2>2 DEF HandlerIsTyped
<1>7. /\ DOMAIN f = DOMAIN slot
      /\ \A i \in DOMAIN slot : f[i] \in SlotState /\ f[i].of = slot[i].of
      /\ f = [i \in DOMAIN slot |-> f[i]]
  BY <1>2, <1>3, ZenonT(30) DEF TablesAreTyped, SlotState, Planned, HandlerIsTyped
<1>8. TablesAreTyped' /\ OneSlotEach'
  BY <1>2, <1>4, <1>7 DEF TablesAreTyped, OneSlotEach
<1>9. ASSUME Wishes(q) PROVE state.pc = "idle" /\ Play!Order' = asked
  <2>1. InOrderOf(asked, f)
    BY <1>2, <1>3, <1>4, <1>9 DEF LeadsTo
  <2>2. TableOK(f)
    BY <1>4, <1>8, NextTable
  <2>3. QED
    BY <1>2, <1>4, <1>5, <1>9, <2>1, <2>2, OrderAfter
<1>10. QED
  BY <1>1, <1>4, <1>5, <1>6, <1>8, <1>9, Proceeds

\* Every step of a handler at work keeps the invariant.
LEMMA HandleStep ==
  ASSUME Play!OrderAssumption, OrderInv, NEW w \in Worker, Play!Handle(w)
  PROVE  OrderInv' /\ WishesAreGranted
<1>1. CASE Play!InsertRow(w)
  BY <1>1, InsertRowStep
<1>2. CASE Play!SaveRow(w)
  BY <1>2, SaveRowStep
<1>3. CASE Play!PlaceAsset(w)
  BY <1>3, PlaceAssetStep
<1>4. CASE Play!ReadActive(w)
  BY <1>4, ReadActiveStep
<1>5. CASE Play!Splice(w)
  BY <1>5, SpliceStep
<1>6. CASE Play!NumberNext(w)
  BY <1>6, NumberNextStep
<1>7. CASE Play!DeleteRow(w)
  BY <1>7, DeleteRowStep
<1>8. CASE Play!Mirror(w)
  BY <1>8, MirrorStep
<1>9. CASE Play!ReadForDrag(w)
  BY <1>9, ReadForDragStep
<1>10. CASE Play!ReadForDuplicate(w)
  BY <1>10, ReadForDuplicateStep
<1>11. CASE Play!ReadForAppend(w)
  BY <1>11, ReadForAppendStep
<1>12. CASE Play!ReadForInsert(w)
  BY <1>12, ReadForInsertStep
<1>13. CASE Play!ReadForMove(w)
  BY <1>13, ReadForMoveStep
<1>14. CASE Play!ReadForOrder(w)
  BY <1>14, ReadForOrderStep
<1>15. CASE Play!Shift(w)
  BY <1>15, ShiftStep
<1>16. CASE Play!CreateItems(w)
  BY <1>16, CreateItemsStep
<1>17. CASE Play!DeleteItem(w)
  BY <1>17, DeleteItemStep
<1>18. CASE Play!WritePositions(w)
  BY <1>18, WritePositionsStep
<1>19. QED
  BY <1>1, <1>2, <1>3, <1>4, <1>5, <1>6, <1>7, <1>8, <1>9, <1>10, <1>11, <1>12,
     <1>13, <1>14, <1>15, <1>16, <1>17, <1>18 DEF Play!Handle

-----------------------------------------------------------------------------
(* The arrival of a request. *)

\* Listings of the members of a finite set.
LEMMA FiniteSets ==
  ASSUME Play!OrderAssumption, NEW S \in SUBSET Target
  PROVE  IsFiniteSet(S) /\ Cardinality(S) \in Nat
<1>1. IsFiniteSet(Target)
  BY DEF Play!OrderAssumption, Play!IsFiniteSet, IsFiniteSet, Target
<1>2. IsFiniteSet(S)
  BY <1>1, FS_Subset
<1>3. QED
  BY <1>2, FS_CardinalityType

\* Any listing of a finite set lists it.
LEMMA ListingLists ==
  ASSUME NEW S, IsFiniteSet(S), NEW s \in Play!SetToSeqs(S)
  PROVE  Lists(s, S) /\ Cardinality(S) \in Nat
<1>1. PICK n \in Nat : n = Cardinality(S)
  BY FS_CardinalityType
<1>2. /\ s \in [1..n -> S]
      /\ \A j, k \in 1..n : s[j] = s[k] => j = k
  BY <1>1, SameCount DEF Play!SetToSeqs
<1>3. IsFiniteSet(1..n) /\ Cardinality(1..n) = n
  <2>1. 1 \in Int /\ n \in Int /\ (1 > n => n = 0) /\ n - 1 + 1 = n
    BY <1>1
  <2>2. QED
    BY <2>1, FS_Interval
<1>4. s \in Injection(1..n, S)
  BY <1>2 DEF Injection, IsInjective
<1>5. s \in Surjection(1..n, S)
  BY <1>1, <1>3, <1>4, FS_Injection
<1>6. \A i \in S : \E k \in 1..n : s[k] = i
  BY <1>5 DEF Surjection
<1>7. QED
  BY <1>1, <1>2, <1>6 DEF Lists

\* A listing of some targets is a sequence that repeats none.
LEMMA ListingOfSome ==
  ASSUME Play!OrderAssumption, NEW S \in SUBSET Target,
         NEW s \in Play!SetToAllKPermutations(S)
  PROVE  /\ s \in Seq(S) /\ s \in Seq(Target)
         /\ \A j, k \in DOMAIN s : s[j] = s[k] => j = k
<1>1. PICK C \in SUBSET S : s \in Play!SetToSeqs(C)
  BY DEF Play!SetToAllKPermutations
<1>2. IsFiniteSet(C)
  BY FiniteSets
<1>3. Lists(s, C) /\ Cardinality(C) \in Nat
  BY <1>1, <1>2, ListingLists
<1>4. PICK n \in Nat : n = Cardinality(C) /\ s \in [1..n -> C]
  BY <1>3 DEF Lists
<1>5. s \in [1..n -> S] /\ s \in [1..n -> Target]
  BY <1>4
<1>6. s \in Seq(S) /\ s \in Seq(Target)
  BY <1>5
<1>7. QED
  BY <1>3, <1>6 DEF Lists

\* What a request starts with, field by field.
Sent(pc, how, then, asset, edit, ids, n, new) ==
    [pc |-> pc, how |-> how, then |-> then, asset |-> asset, edit |-> edit,
     ids |-> ids, n |-> n, new |-> new, plan |-> <<>>, wish |-> Play!NoWish]

\* The state a request is sent in is typed.
LEMMA SentIsTyped ==
  ASSUME NEW pc, NEW how, NEW then, NEW asset, NEW edit, NEW ids, NEW n, NEW new
  PROVE  (/\ then \in {"idle", "active", "splice"} /\ edit \in RowState
          /\ n \in Int /\ new \in Seq(Target)
          /\ pc \in {"insert", "place", "save", "delete"} => asset \in Asset
          /\ (\/ pc \in {"insert", "place", "save", "active", "splice"}
              \/ then # "idle") => how = "mirror"
          /\ pc = "remove" => how = "append"
          /\ how = "insert" => pc # "number" /\ (pc = "read" => n \in Nat)
          /\ how = "order" => Lists(ids, Play!ToSet(ids))
          /\ \A j, k \in DOMAIN new : new[j] = new[k] => j = k)
            => HandlerIsTyped(Sent(pc, how, then, asset, edit, ids, n, new))
<1>1. \A i \in DOMAIN <<>> : <<>>[i] \in Int
  OBVIOUS
<1>2. PICK q : q = Sent(pc, how, then, asset, edit, ids, n, new)
  OBVIOUS
<1>3. /\ q.pc = pc /\ q.how = how /\ q.then = then /\ q.asset = asset
      /\ q.edit = edit /\ q.ids = ids /\ q.n = n /\ q.new = new
      /\ q.plan = <<>> /\ q.wish = Play!NoWish
  BY <1>2 DEF Sent
<1>4. (/\ then \in {"idle", "active", "splice"} /\ edit \in RowState
       /\ n \in Int /\ new \in Seq(Target))
      => q \in [pc : {q.pc}, how : {q.how}, then : {"idle", "active", "splice"},
                asset : {q.asset}, edit : RowState, ids : {q.ids}, n : Int,
                new : Seq(Target), plan : {q.plan}, wish : {q.wish}]
  BY <1>2, <1>3 DEF Sent
<1>5. QED
  BY <1>1, <1>2, <1>3, <1>4 DEF HandlerIsTyped

\* The empty fields of such a state.
LEMMA SentEmpty ==
  \E zero \in Int, none \in Seq(Target), gone \in RowState :
    /\ zero = 0 /\ none = <<>> /\ gone = Play!Gone
    /\ \A j, k \in DOMAIN none : none[j] = none[k] => j = k
<1>1. /\ <<>> \in Seq(Target)
      /\ \A j, k \in DOMAIN <<>> : <<>>[j] = <<>>[k] => j = k
  OBVIOUS
<1>2. PICK gone \in RowState : gone = Play!Gone
  <2>1. Play!Gone \in RowState
    BY DEF Play!Gone, RowState
  <2>2. QED
    BY <2>1
<1>3. PICK zero \in Int : zero = 0
  OBVIOUS
<1>4. PICK none \in Seq(Target) :
            none = <<>> /\ \A j, k \in DOMAIN none : none[j] = none[k] => j = k
  BY <1>1
<1>5. QED
  BY <1>2, <1>3, <1>4

\* A list of one new row repeats nothing.
LEMMA OneItem ==
  ASSUME NEW t \in Target
  PROVE  \E new \in Seq(Target) :
            new = <<t>> /\ \A j, k \in DOMAIN new : new[j] = new[k] => j = k
<1>1. PICK new : new = <<t>>
  OBVIOUS
<1>2. new \in Seq(Target) /\ DOMAIN new = {1}
  BY <1>1
<1>3. QED
  BY <1>1, <1>2

\* The request is alone and leads to what it is sent for, or has no wish.
LEMMA Asks ==
  ASSUME OrderInv, NEW w \in Worker, handler[w].pc = "idle",
         NEW state, NEW s, Play!Begin(w, state, Play!Slots(s)),
         HandlerIsTyped(state), state.wish = Play!NoWish,
         state.pc # "idle", state.then = "idle", row' = row,
         LeadsTo(state, s)
  PROVE  OrderInv' /\ WishesAreGranted
<1>1. PICK wish : wish = Play!Slots(s)
  OBVIOUS
<1>2. wish.slots = s /\ Play!NoWish.slots = << 0 >>
  BY <1>1 DEF Play!Slots, Play!NoWish
<1>3. ~Wishes(state) /\ LeadsTo(state, wish.slots) /\ Play!Begin(w, state, wish)
  BY <1>1, <1>2 DEF Wishes
<1>4. row' \in [Asset -> RowState]
  BY DEF OrderInv, TablesAreTyped
<1>5. QED
  BY <1>3, <1>4, Begins

\* A request that does not tell what order it leaves keeps the invariant.
LEMMA AsksNothing ==
  ASSUME OrderInv, NEW w \in Worker, handler[w].pc = "idle",
         NEW state, NEW wish, Play!Begin(w, state, wish),
         HandlerIsTyped(state), state.wish = Play!NoWish,
         row' \in [Asset -> RowState],
         wish.slots = << 0 >>, wish # Play!NoWish => state.pc # "idle"
  PROVE  OrderInv' /\ WishesAreGranted
<1>1. ~Wishes(state)
  BY DEF Wishes, Play!NoWish
<1>2. QED
  BY <1>1, Begins

LEMMA NothingAsked ==
  Play!NoWish.slots = << 0 >>
BY DEF Play!NoWish

LEMMA CreateAssetStep ==
  ASSUME Play!OrderAssumption, OrderInv, NEW w \in Worker,
         handler[w].pc = "idle", Play!CreateAsset(w)
  PROVE  OrderInv' /\ WishesAreGranted
<1>1. Play!Cardinality(Play!Enabled) \in Int
  <2>1. Play!Enabled \in SUBSET Target
    BY DEF Play!Enabled, Target
  <2>2. QED
    BY <2>1, FiniteSets, SameCount
<1> DEFINE Made(a, n, ids, then) ==
               [Play!Resting EXCEPT
                    !.pc = "insert", !.asset = a, !.ids = ids,
                    !.edit = [enabled |-> TRUE, order |-> n], !.then = then]
<1>2. PICK a, n, ids, then, state :
            /\ a \in Asset /\ n \in Int /\ then \in {"splice", "idle"}
            /\ state = Made(a, n, ids, then)
            /\ Play!Begin(w, state, Play!NoWish) /\ row' = row
  <2>1. PICK a \in Asset :
            /\ \/ \E n \in 0..1, ids \in Play!ActiveIds :
                        Play!Begin(w, Made(a, n, ids, "splice"), Play!NoWish)
               \/ Play!Begin(w, Made(a, Play!Cardinality(Play!Enabled), <<>>,
                                     "idle"), Play!NoWish)
            /\ row' = row
    BY DEF Play!CreateAsset
  <2> HIDE DEF Made
  <2>2. \A n \in 0..1 : n \in Int
    OBVIOUS
  <2>3. CASE \E n \in 0..1, ids \in Play!ActiveIds :
                    Play!Begin(w, Made(a, n, ids, "splice"), Play!NoWish)
    <3>1. PICK n, ids : n \in 0..1 /\
                    Play!Begin(w, Made(a, n, ids, "splice"), Play!NoWish)
      BY <2>3
    <3>2. n \in Int
      BY <2>2, <3>1
    <3>3. PICK state : state = Made(a, n, ids, "splice")
      OBVIOUS
    <3>4. QED
      BY Zenon, <2>1, <3>1, <3>2, <3>3
  <2>4. CASE Play!Begin(w, Made(a, Play!Cardinality(Play!Enabled), <<>>, "idle"),
                        Play!NoWish)
    <3>1. PICK state :
            state = Made(a, Play!Cardinality(Play!Enabled), <<>>, "idle")
      OBVIOUS
    <3>2. QED
      BY Zenon, <1>1, <2>1, <2>4, <3>1
  <2>5. QED
    BY <2>1, <2>3, <2>4
<1>3. PICK zero \in Int, none \in Seq(Target), gone \in RowState :
            /\ zero = 0 /\ none = <<>> /\ gone = Play!Gone
            /\ \A j, k \in DOMAIN none : none[j] = none[k] => j = k
  BY SentEmpty
<1>4. PICK edit \in RowState : edit = [enabled |-> TRUE, order |-> n]
  BY <1>2 DEF RowState
<1>5. state = Sent("insert", "mirror", then, a, edit, ids, zero, none)
  BY <1>2, <1>3, <1>4 DEF Sent, Play!Resting
<1>6. HandlerIsTyped(Sent("insert", "mirror", then, a, edit, ids, zero, none))
  BY <1>2, <1>3, SentIsTyped
<1>7. HandlerIsTyped(state)
  BY <1>5, <1>6
<1>8. state.wish = Play!NoWish
  BY <1>5 DEF Sent
<1>9. row' \in [Asset -> RowState]
  BY <1>2 DEF OrderInv, TablesAreTyped
<1>10. QED
  BY <1>2, <1>7, <1>8, <1>9, NothingAsked, AsksNothing

LEMMA EditAssetStep ==
  ASSUME OrderInv, NEW w \in Worker, handler[w].pc = "idle", Play!EditAsset(w)
  PROVE  OrderInv' /\ WishesAreGranted
<1>1. PICK a, on, n, then, wish, state :
            /\ a \in Asset /\ on \in BOOLEAN
            /\ Play!Exists(a) /\ row' = row
            /\ state = [Play!Resting EXCEPT
                    !.pc = "save", !.asset = a, !.then = then,
                    !.edit = [enabled |-> on, order |-> n]]
            /\ Play!Begin(w, state, wish)
            /\ \/ /\ n = row[a].order /\ then = "idle"
                  /\ wish = [Play!Slots(Play!Order) EXCEPT
                        !.despite = IF Play!InStep THEN "none" ELSE "misfit"]
               \/ n \in 0..1 /\ then = "active" /\ wish = Play!NoWish
  BY DEF Play!EditAsset
<1>2. row \in [Asset -> RowState]
  BY DEF OrderInv, TablesAreTyped
<1>3. n \in Int
  BY <1>1, <1>2 DEF RowState
<1>4. PICK zero \in Int, none \in Seq(Target), gone \in RowState :
            /\ zero = 0 /\ none = <<>> /\ gone = Play!Gone
            /\ \A j, k \in DOMAIN none : none[j] = none[k] => j = k
  BY SentEmpty
<1>5. PICK edit \in RowState : edit = [enabled |-> on, order |-> n]
  BY <1>1, <1>3 DEF RowState
<1>6. state = Sent("save", "mirror", then, a, edit, none, zero, none)
  BY <1>1, <1>4, <1>5 DEF Sent, Play!Resting
<1>7. then \in {"idle", "active", "splice"}
  BY <1>1
<1>8. HandlerIsTyped(Sent("save", "mirror", then, a, edit, none, zero, none))
  BY <1>1, <1>4, <1>7, SentIsTyped
<1>9. /\ state.wish = Play!NoWish
      /\ state.pc = "save" /\ state.how = "mirror" /\ state.asset = a
      /\ state.then = then /\ state.edit = edit
  BY <1>6 DEF Sent
<1>10. HandlerIsTyped(state) /\ edit.order = n
  BY <1>5, <1>6, <1>8
<1>11. CASE wish = Play!NoWish
  BY <1>1, <1>2, <1>9, <1>10, <1>11, NothingAsked, AsksNothing
<1>12. CASE wish # Play!NoWish
  <2>1. /\ n = row[a].order /\ then = "idle"
        /\ wish = [Play!Slots(Play!Order) EXCEPT
                        !.despite = IF Play!InStep THEN "none" ELSE "misfit"]
    BY <1>1, <1>12
  <2>2. wish.slots = Play!Order /\ (wish.despite = "none" => Play!InStep)
    BY <2>1 DEF Play!Slots, Play!NoWish
  <2>3. wish.despite = "none" => LeadsTo(state, wish.slots)
    BY <1>1, <1>9, <1>10, <2>1, <2>2 DEF LeadsTo
  <2>4. ~Wishes(state) /\ row' \in [Asset -> RowState]
    BY <1>1, <1>2, <1>9 DEF Wishes, Play!NoWish
  <2>5. QED
    BY <1>1, <1>9, <1>10, <2>1, <2>3, <2>4, Begins
<1>13. QED
  BY <1>11, <1>12

LEMMA DeleteAssetStep ==
  ASSUME OrderInv, NEW w \in Worker, handler[w].pc = "idle", Play!DeleteAsset(w)
  PROVE  OrderInv' /\ WishesAreGranted
<1>1. PICK a, state, s :
            /\ a \in Asset
            /\ state = [Play!Resting EXCEPT !.pc = "delete", !.asset = a]
            /\ s = Play!InOrder({i \in DOMAIN slot : slot[i].of # a})
            /\ Play!Begin(w, state, Play!Slots(s)) /\ row' = row
  BY DEF Play!DeleteAsset
<1>2. PICK zero \in Int, none \in Seq(Target), gone \in RowState :
            /\ zero = 0 /\ none = <<>> /\ gone = Play!Gone
            /\ \A j, k \in DOMAIN none : none[j] = none[k] => j = k
  BY SentEmpty
<1>3. state = Sent("delete", "mirror", "idle", a, gone, none, zero, none)
  BY <1>1, <1>2 DEF Sent, Play!Resting
<1>4. HandlerIsTyped(Sent("delete", "mirror", "idle", a, gone, none, zero, none))
  BY <1>1, <1>2, SentIsTyped
<1>5. /\ state.wish = Play!NoWish
      /\ state.pc = "delete" /\ state.asset = a /\ state.then = "idle"
  BY <1>3 DEF Sent
<1>6. HandlerIsTyped(state) /\ LeadsTo(state, s)
  BY <1>1, <1>3, <1>4, <1>5 DEF LeadsTo
<1>7. QED
  BY <1>1, <1>5, <1>6, Asks

LEMMA BulkActionStep ==
  ASSUME OrderInv, NEW w \in Worker, handler[w].pc = "idle", Play!BulkAction(w)
  PROVE  OrderInv' /\ WishesAreGranted
<1>1. PICK chosen \in SUBSET Asset, on \in BOOLEAN :
            /\ Play!Begin(w, Play!Resting, Play!NoWish)
            /\ row' = [a \in Asset |-> IF a \in chosen /\ Play!Exists(a)
                                       THEN [row[a] EXCEPT !.enabled = on]
                                       ELSE row[a]]
  BY Zenon DEF Play!BulkAction
<1>2. row' \in [Asset -> RowState]
  <2>1. \A a \in Asset : row[a] \in RowState
    BY DEF OrderInv, TablesAreTyped
  <2>2. \A r \in RowState : [r EXCEPT !.enabled = on] \in RowState
    BY DEF RowState
  <2>3. QED
    BY <1>1, <2>1, <2>2
<1>3. Play!Resting.wish = Play!NoWish
  BY DEF Play!Resting
<1>4. QED
  BY <1>1, <1>2, <1>3, RestingIsTyped, NothingAsked, AsksNothing

LEMMA OrderAssetsStep ==
  ASSUME OrderInv, NEW w \in Worker, handler[w].pc = "idle", Play!OrderAssets(w)
  PROVE  OrderInv' /\ WishesAreGranted
<1>1. PICK ids, state, wish :
            /\ state = [Play!Resting EXCEPT !.pc = "number", !.ids = ids]
            /\ wish = [Play!NoWish EXCEPT !.assets = ids]
            /\ Play!Begin(w, state, wish) /\ row' = row
  BY DEF Play!OrderAssets
<1>2. PICK zero \in Int, none \in Seq(Target), gone \in RowState :
            /\ zero = 0 /\ none = <<>> /\ gone = Play!Gone
            /\ \A j, k \in DOMAIN none : none[j] = none[k] => j = k
  BY SentEmpty
<1>3. state = Sent("number", "mirror", "idle", None, gone, ids, zero, none)
  BY <1>1, <1>2 DEF Sent, Play!Resting
<1>4. HandlerIsTyped(Sent("number", "mirror", "idle", None, gone, ids, zero, none))
  BY <1>2, SentIsTyped
<1>5. state.wish = Play!NoWish /\ state.pc = "number"
  BY <1>3 DEF Sent
<1>6. wish.slots = << 0 >>
  BY <1>1 DEF Play!NoWish
<1>7. row' \in [Asset -> RowState]
  BY <1>1 DEF OrderInv, TablesAreTyped
<1>8. QED
  BY <1>1, <1>3, <1>4, <1>5, <1>6, <1>7, AsksNothing

LEMMA DragRowStep ==
  ASSUME Play!OrderAssumption, OrderInv, NEW w \in Worker,
         handler[w].pc = "idle", Play!DragRow(w)
  PROVE  OrderInv' /\ WishesAreGranted
<1>1. PICK refs, assets, pc, state, s :
            /\ refs \in Play!SetToAllKPermutations(Asset \cup Nested)
            /\ pc \in {"read", "number"} /\ s = Play!Dragged(refs)
            /\ state = [Play!Resting EXCEPT
                    !.pc = pc, !.how = "drag", !.ids = assets, !.new = refs]
            /\ Play!Begin(w, state, Play!Slots(s)) /\ row' = row
  <2>1. PICK refs, assets :
            /\ refs \in Play!SetToAllKPermutations(Asset \cup Nested)
            /\ Play!Begin(w, [Play!Resting EXCEPT
                    !.pc = IF assets = <<>> THEN "read" ELSE "number",
                    !.how = "drag", !.ids = assets, !.new = refs],
                    Play!Slots(Play!Dragged(refs)))
            /\ row' = row
    BY Zenon DEF Play!DragRow
  <2>2. PICK pc : pc = IF assets = <<>> THEN "read" ELSE "number"
    OBVIOUS
  <2>3. pc \in {"read", "number"}
    BY <2>2
  <2>4. QED
    BY <2>1, <2>2, <2>3
<1>2. PICK zero \in Int, none \in Seq(Target), gone \in RowState :
            /\ zero = 0 /\ none = <<>> /\ gone = Play!Gone
            /\ \A j, k \in DOMAIN none : none[j] = none[k] => j = k
  BY SentEmpty
<1>3. /\ refs \in Seq(Target)
      /\ \A j, k \in DOMAIN refs : refs[j] = refs[k] => j = k
  BY <1>1, ListingOfSome DEF Target
<1>4. state = Sent(pc, "drag", "idle", None, gone, assets, zero, refs)
  BY <1>1, <1>2 DEF Sent, Play!Resting
<1>5. HandlerIsTyped(Sent(pc, "drag", "idle", None, gone, assets, zero, refs))
  BY <1>1, <1>3, SentIsTyped
<1>6. /\ state.wish = Play!NoWish /\ state.pc = pc /\ state.how = "drag"
      /\ state.then = "idle" /\ state.new = refs
  BY <1>4 DEF Sent
<1>7. HandlerIsTyped(state) /\ LeadsTo(state, s)
  BY <1>1, <1>4, <1>5, <1>6 DEF LeadsTo, ReadLeadsTo
<1>8. QED
  BY <1>1, <1>6, <1>7, Asks

LEMMA DuplicateAssetStep ==
  ASSUME OrderInv, NEW w \in Worker, handler[w].pc = "idle",
         Play!DuplicateAsset(w)
  PROVE  OrderInv' /\ WishesAreGranted
<1>1. PICK a, state, s :
            /\ a \in Asset /\ Play!Exists(a) /\ row' = row
            /\ state = [Play!Resting EXCEPT !.pc = "read", !.how = "duplicate",
                                            !.new = <<a>>]
            /\ s = InsertAt(Play!Order, Play!UpToLast(a) + 1, newId)
            /\ Play!Begin(w, state, Play!Slots(s))
  <2>1. PICK a \in Asset :
            /\ Play!Exists(a) /\ row' = row
            /\ Play!Begin(w, [Play!Resting EXCEPT !.pc = "read",
                        !.how = "duplicate", !.new = <<a>>],
                        Play!Slots(Play!InsertAt(Play!Order,
                                        Play!UpToLast(a) + 1, newId)))
    BY Zenon DEF Play!DuplicateAsset
  <2>2. PICK s : s = Play!InsertAt(Play!Order, Play!UpToLast(a) + 1, newId)
    OBVIOUS
  <2>3. s = InsertAt(Play!Order, Play!UpToLast(a) + 1, newId)
    BY Zenon, <2>2, SameInsert
  <2>4. QED
    BY Zenon, <2>1, <2>2, <2>3
<1>2. PICK zero \in Int, none \in Seq(Target), gone \in RowState :
            /\ zero = 0 /\ none = <<>> /\ gone = Play!Gone
            /\ \A j, k \in DOMAIN none : none[j] = none[k] => j = k
  BY SentEmpty
<1>3. PICK new \in Seq(Target) :
            new = <<a>> /\ \A j, k \in DOMAIN new : new[j] = new[k] => j = k
  BY <1>1, OneItem DEF Target
<1>4. state = Sent("read", "duplicate", "idle", None, gone, none, zero, new)
  BY <1>1, <1>2, <1>3 DEF Sent, Play!Resting
<1>5. HandlerIsTyped(Sent("read", "duplicate", "idle", None, gone, none, zero, new))
  BY <1>2, <1>3, SentIsTyped
<1>6. /\ state.wish = Play!NoWish /\ state.pc = "read"
      /\ state.how = "duplicate" /\ state.then = "idle" /\ state.new = new
  BY <1>4 DEF Sent
<1>7. LeadsTo(state, s)
  BY <1>1, <1>3, <1>6 DEF LeadsTo, ReadLeadsTo
<1>8. HandlerIsTyped(state)
  BY <1>4, <1>5
<1>9. QED
  BY <1>1, <1>6, <1>7, <1>8, Asks

LEMMA AddAssetsStep ==
  ASSUME Play!OrderAssumption, OrderInv, NEW w \in Worker,
         handler[w].pc = "idle", Play!AddAssets(w)
  PROVE  OrderInv' /\ WishesAreGranted
<1>1. PICK new, state, s :
            /\ new \in Play!SetToAllKPermutations({a \in Asset : Play!Exists(a)})
            /\ row' = row
            /\ state = [Play!Resting EXCEPT !.pc = "read", !.how = "append",
                                            !.new = new]
            /\ s = Play!Order \o [k \in DOMAIN new |-> newId + k - 1]
            /\ Play!Begin(w, state, Play!Slots(s))
  BY Zenon DEF Play!AddAssets
<1>2. PICK zero \in Int, none \in Seq(Target), gone \in RowState :
            /\ zero = 0 /\ none = <<>> /\ gone = Play!Gone
            /\ \A j, k \in DOMAIN none : none[j] = none[k] => j = k
  BY SentEmpty
<1>3. PICK S \in SUBSET Target : S = {a \in Asset : Play!Exists(a)}
  BY DEF Target
<1>4. /\ new \in Seq(S) /\ new \in Seq(Target)
      /\ \A j, k \in DOMAIN new : new[j] = new[k] => j = k
  BY <1>1, <1>3, ListingOfSome
<1>5. \A k \in DOMAIN new : MayPlace(new[k])
  <2>1. \A k \in DOMAIN new : new[k] \in S
    BY <1>4
  <2>2. QED
    BY <1>3, <2>1 DEF MayPlace
<1>6. state = Sent("read", "append", "idle", None, gone, none, zero, new)
  BY <1>1, <1>2 DEF Sent, Play!Resting
<1>7. HandlerIsTyped(Sent("read", "append", "idle", None, gone, none, zero, new))
  BY <1>2, <1>4, SentIsTyped
<1>8. /\ state.wish = Play!NoWish /\ state.pc = "read" /\ state.plan = <<>>
      /\ state.how = "append" /\ state.then = "idle" /\ state.new = new
  BY <1>6 DEF Sent
<1>9. LeadsTo(state, s)
  BY <1>1, <1>5, <1>8 DEF LeadsTo, ReadLeadsTo
<1>10. HandlerIsTyped(state)
  BY <1>6, <1>7
<1>11. QED
  BY <1>1, <1>8, <1>9, <1>10, Asks

LEMMA InsertItemStep ==
  ASSUME OrderInv, NEW w \in Worker, handler[w].pc = "idle", Play!InsertItem(w)
  PROVE  OrderInv' /\ WishesAreGranted
<1>1. PICK a, place, state, s, wish :
            /\ a \in Asset /\ place \in 0..(Len(Play!Order) - 1)
            /\ Play!Exists(a) /\ row' = row
            /\ state = [Play!Resting EXCEPT !.pc = "read", !.how = "insert",
                                            !.new = <<a>>, !.n = place]
            /\ s = InsertAt(Play!Order, place + 1, newId)
            /\ wish = [Play!Slots(s) EXCEPT
                        !.despite = IF Play!Untied THEN "none" ELSE "ties"]
            /\ Play!Begin(w, state, wish)
  <2>1. PICK a \in Asset, place \in 0..(Len(Play!Order) - 1) :
            /\ Play!Exists(a) /\ row' = row
            /\ Play!Begin(w, [Play!Resting EXCEPT !.pc = "read",
                        !.how = "insert", !.new = <<a>>, !.n = place],
                    [Play!Slots(Play!InsertAt(Play!Order, place + 1, newId))
                        EXCEPT !.despite = IF Play!Untied THEN "none"
                                           ELSE "ties"])
    BY Zenon DEF Play!InsertItem
  <2>2. PICK s : s = Play!InsertAt(Play!Order, place + 1, newId)
    OBVIOUS
  <2>3. s = InsertAt(Play!Order, place + 1, newId)
    BY Zenon, <2>2, SameInsert
  <2>4. QED
    BY Zenon, <2>1, <2>2, <2>3
<1>2. PICK zero \in Int, none \in Seq(Target), gone \in RowState :
            /\ zero = 0 /\ none = <<>> /\ gone = Play!Gone
            /\ \A j, k \in DOMAIN none : none[j] = none[k] => j = k
  BY SentEmpty
<1>3. PICK new \in Seq(Target) :
            new = <<a>> /\ \A j, k \in DOMAIN new : new[j] = new[k] => j = k
  BY <1>1, OneItem DEF Target
<1>4. place \in Nat /\ place \in Int
  BY <1>1
<1>5. state = Sent("read", "insert", "idle", None, gone, none, place, new)
  BY <1>1, <1>2, <1>3 DEF Sent, Play!Resting
<1>6. HandlerIsTyped(Sent("read", "insert", "idle", None, gone, none, place, new))
  BY <1>2, <1>3, <1>4, SentIsTyped
<1>7. /\ state.wish = Play!NoWish /\ state.pc = "read" /\ state.plan = <<>>
      /\ state.how = "insert" /\ state.then = "idle" /\ state.new = new
      /\ state.n = place
  BY <1>5 DEF Sent
<1>8. HandlerIsTyped(state)
  BY <1>5, <1>6
<1>9. wish.slots = s /\ (wish.despite = "none" => Play!Untied)
  BY <1>1 DEF Play!Slots, Play!NoWish
<1>10. wish.despite = "none" => LeadsTo(state, wish.slots)
  BY <1>1, <1>3, <1>7, <1>9 DEF LeadsTo, ReadLeadsTo
<1>11. ~Wishes(state) /\ row' \in [Asset -> RowState]
  BY <1>1, <1>7 DEF Wishes, Play!NoWish, OrderInv, TablesAreTyped
<1>12. QED
  BY <1>1, <1>7, <1>8, <1>10, <1>11, Begins

LEMMA MoveItemStep ==
  ASSUME OrderInv, NEW w \in Worker, handler[w].pc = "idle", Play!MoveItem(w)
  PROVE  OrderInv' /\ WishesAreGranted
<1>1. PICK i, up, state, s :
            /\ i \in DOMAIN slot /\ up \in BOOLEAN /\ row' = row /\ s = Play!Moved(i, up)
            /\ state = [Play!Resting EXCEPT !.pc = "read", !.how = "move",
                                            !.n = i, !.edit.enabled = up]
            /\ Play!Begin(w, state, Play!Slots(s))
  BY Zenon DEF Play!MoveItem
<1>2. PICK zero \in Int, none \in Seq(Target), gone \in RowState :
            /\ zero = 0 /\ none = <<>> /\ gone = Play!Gone
            /\ \A j, k \in DOMAIN none : none[j] = none[k] => j = k
  BY SentEmpty
<1>3. i \in Int
  BY <1>1, SlotsTable DEF OrderInv
<1>4. PICK edit \in RowState : edit = [gone EXCEPT !.enabled = up]
  BY <1>1 DEF RowState
<1>5. edit.enabled = up
  BY <1>4 DEF RowState
<1>6. state = Sent("read", "move", "idle", None, edit, none, i, none)
  BY <1>1, <1>2, <1>4 DEF Sent, Play!Resting
<1>7. HandlerIsTyped(Sent("read", "move", "idle", None, edit, none, i, none))
  BY <1>2, <1>3, SentIsTyped
<1>8. /\ state.wish = Play!NoWish /\ state.pc = "read" /\ state.n = i
      /\ state.how = "move" /\ state.then = "idle" /\ state.edit = edit
  BY <1>6 DEF Sent
<1>9. s = Play!Moved(state.n, state.edit.enabled)
  BY Zenon, <1>1, <1>5, <1>8
<1>10. LeadsTo(state, s)
  BY <1>1, <1>8, <1>9 DEF LeadsTo, ReadLeadsTo
<1>11. HandlerIsTyped(state)
  BY <1>6, <1>7
<1>12. QED
  BY <1>1, <1>8, <1>10, <1>11, Asks

LEMMA OrderItemsStep ==
  ASSUME OrderInv, NEW w \in Worker, handler[w].pc = "idle", Play!OrderItems(w)
  PROVE  OrderInv' /\ WishesAreGranted
<1>1. PICK chosen, listed, state, s :
            /\ chosen \in SUBSET DOMAIN slot
            /\ listed \in Play!SetToSeqs(chosen)
            /\ row' = row /\ s = Play!ListedFirst(listed)
            /\ state = [Play!Resting EXCEPT !.pc = "read", !.how = "order",
                                            !.ids = listed]
            /\ Play!Begin(w, state, Play!Slots(s))
  BY DEF Play!OrderItems
<1>2. PICK zero \in Int, none \in Seq(Target), gone \in RowState :
            /\ zero = 0 /\ none = <<>> /\ gone = Play!Gone
            /\ \A j, k \in DOMAIN none : none[j] = none[k] => j = k
  BY SentEmpty
<1>3. IsFiniteSet(chosen)
  BY <1>1, SlotsTable, FS_Subset DEF OrderInv, TableOK
<1>4. Lists(listed, chosen) /\ Cardinality(chosen) \in Nat
  BY <1>1, <1>3, ListingLists
<1>5. Play!ToSet(listed) = chosen
  BY <1>4 DEF Lists, Play!ToSet
<1>6. Lists(listed, Play!ToSet(listed))
  BY <1>4, <1>5
<1>7. state = Sent("read", "order", "idle", None, gone, listed, zero, none)
  BY <1>1, <1>2 DEF Sent, Play!Resting
<1>8. HandlerIsTyped(Sent("read", "order", "idle", None, gone, listed, zero, none))
  BY <1>2, <1>6, SentIsTyped
<1>9. /\ state.wish = Play!NoWish /\ state.pc = "read" /\ state.ids = listed
      /\ state.how = "order" /\ state.then = "idle"
  BY <1>7 DEF Sent
<1>10. LeadsTo(state, s)
  BY <1>1, <1>4, <1>9 DEF LeadsTo, ReadLeadsTo
<1>11. HandlerIsTyped(state)
  BY <1>7, <1>8
<1>12. QED
  BY <1>1, <1>9, <1>10, <1>11, Asks

LEMMA RemoveItemStep ==
  ASSUME OrderInv, NEW w \in Worker, handler[w].pc = "idle", Play!RemoveItem(w)
  PROVE  OrderInv' /\ WishesAreGranted
<1>1. PICK i, new, state, s, others :
            /\ i \in DOMAIN slot /\ row' = row /\ others = Play!InOrder(DOMAIN slot \ {i})
            /\ new = IF slot[i].of \in Nested THEN <<slot[i].of>> ELSE <<>>
            /\ s = IF slot[i].of \in Nested THEN Append(others, newId)
                   ELSE others
            /\ state = [Play!Resting EXCEPT !.pc = "remove", !.n = i,
                                            !.how = "append", !.new = new]
            /\ Play!Begin(w, state, Play!Slots(s))
  BY Zenon DEF Play!RemoveItem
<1>2. PICK zero \in Int, none \in Seq(Target), gone \in RowState :
            /\ zero = 0 /\ none = <<>> /\ gone = Play!Gone
            /\ \A j, k \in DOMAIN none : none[j] = none[k] => j = k
  BY SentEmpty
<1>3. i \in Int
  BY <1>1, SlotsTable DEF OrderInv
<1>4. new \in Seq(Target) /\ \A j, k \in DOMAIN new : new[j] = new[k] => j = k
  <2>1. CASE slot[i].of \in Nested
    <3>1. PICK t \in Target : t = slot[i].of
      BY <2>1 DEF Target
    <3>2. new = <<t>>
      BY <1>1, <2>1, <3>1
    <3>3. QED
      BY <3>2, OneItem
  <2>2. CASE slot[i].of \notin Nested
    BY <1>1, <1>2, <2>2
  <2>3. QED
    BY <2>1, <2>2
<1>5. state = Sent("remove", "append", "idle", None, gone, none, i, new)
  BY <1>1, <1>2 DEF Sent, Play!Resting
<1>6. HandlerIsTyped(Sent("remove", "append", "idle", None, gone, none, i, new))
  BY <1>2, <1>3, <1>4, SentIsTyped
<1>7. /\ state.wish = Play!NoWish /\ state.pc = "remove" /\ state.n = i
      /\ state.how = "append" /\ state.then = "idle" /\ state.new = new
      /\ state.plan = <<>>
  BY <1>5 DEF Sent
<1>8. \/ /\ new = <<>> /\ s = others
      \/ /\ new = <<slot[i].of>> /\ slot[i].of \in Nested
         /\ s = Append(others, newId)
  BY Zenon, <1>1
<1>9. LeadsTo(state, s)
  <2>1. state.n \in DOMAIN slot /\ others = Play!InOrder(DOMAIN slot \ {state.n})
    BY Zenon, <1>1, <1>7
  <2>2. \/ state.new = <<>> /\ s = others
        \/ /\ state.new = <<slot[state.n].of>> /\ slot[state.n].of \in Nested
           /\ s = Append(others, newId)
    BY Zenon, <1>7, <1>8
  <2>3. QED
    BY <1>7, <2>1, <2>2 DEF LeadsTo
<1>10. HandlerIsTyped(state)
  BY <1>5, <1>6
<1>11. QED
  BY <1>1, <1>7, <1>9, <1>10, Asks

\* Every request that arrives keeps the invariant.
LEMMA ArriveStep ==
  ASSUME Play!OrderAssumption, OrderInv, NEW w \in Worker, Play!Arrive(w)
  PROVE  OrderInv' /\ WishesAreGranted
<1> USE DEF Play!Arrive
<1>1. CASE Play!CreateAsset(w)
  BY <1>1, CreateAssetStep
<1>2. CASE Play!EditAsset(w)
  BY <1>2, EditAssetStep
<1>3. CASE Play!DeleteAsset(w)
  BY <1>3, DeleteAssetStep
<1>4. CASE Play!BulkAction(w)
  BY <1>4, BulkActionStep
<1>5. CASE Play!OrderAssets(w)
  BY <1>5, OrderAssetsStep
<1>6. CASE Play!DragRow(w)
  BY <1>6, DragRowStep
<1>7. CASE Play!DuplicateAsset(w)
  BY <1>7, DuplicateAssetStep
<1>8. CASE Play!AddAssets(w)
  BY <1>8, AddAssetsStep
<1>9. CASE Play!InsertItem(w)
  BY <1>9, InsertItemStep
<1>10. CASE Play!MoveItem(w)
  BY <1>10, MoveItemStep
<1>11. CASE Play!OrderItems(w)
  BY <1>11, OrderItemsStep
<1>12. CASE Play!RemoveItem(w)
  BY <1>12, RemoveItemStep
<1>13. QED
  BY <1>1, <1>2, <1>3, <1>4, <1>5, <1>6, <1>7, <1>8, <1>9, <1>10, <1>11, <1>12

\* The order the migrations leave.
LEMMA FirstTargets ==
  ASSUME Play!OrderAssumption, NEW assets \in Play!SetToAllKPermutations(Asset),
         NEW lists \in SUBSET Nested, NEW targets,
         targets = assets \o Play!SetToSeq(lists)
  PROVE  /\ targets \in Seq(Target)
         /\ assets \in Seq(Asset)
         /\ \A j, k \in DOMAIN targets :
                (targets[j] = targets[k] /\ targets[j] \in Nested) => j = k
<1>1. assets \in Seq(Asset) /\ assets \in Seq(Target)
  BY ListingOfSome DEF Target
<1>2. PICK tail : tail = Play!SetToSeq(lists)
  OBVIOUS
<1>3. PICK n \in Nat : n = Cardinality(lists) /\ IsFiniteSet(lists)
  BY FiniteSets DEF Target
<1>4. tail \in [1..n -> lists] /\ \A j, k \in 1..n : tail[j] = tail[k] => j = k
  <2>1. \E f \in [1..n -> lists] : Play!IsInjective(f)
    <3>1. ExistsBijection(1..n, lists)
      BY <1>3, FS_CardinalityType
    <3>2. PICK f \in [1..n -> lists] : f \in Injection(1..n, lists)
      BY <3>1 DEF ExistsBijection, Bijection, Injection
    <3>3. Play!IsInjective(f)
      BY <3>2 DEF Injection, IsInjective, Play!IsInjective
    <3>4. QED
      BY <3>3
  <2>2. tail = CHOOSE f \in [1..n -> lists] : Play!IsInjective(f)
    BY <1>2, <1>3, SameCount DEF Play!SetToSeq
  <2>3. tail \in [1..n -> lists] /\ Play!IsInjective(tail)
    BY <2>1, <2>2
  <2>4. QED
    BY <2>3 DEF Play!IsInjective
<1>5. tail \in Seq(Target) /\ Len(tail) = n
  <2>1. tail \in [1..n -> Target]
    BY <1>4 DEF Target
  <2>2. QED
    BY <2>1
<1>6. PICK l \in Nat : l = Len(assets)
  BY <1>1
<1>7. /\ targets \in Seq(Target) /\ DOMAIN targets = 1..(l + n)
      /\ \A k \in 1..l : targets[k] = assets[k]
      /\ \A k \in (l + 1)..(l + n) : targets[k] = tail[k - l]
  <2>1. targets = assets \o tail
    BY <1>2
  <2>2. PICK u \in Seq(Target), v \in Seq(Target) : u = assets /\ v = tail
    BY <1>1, <1>5
  <2>3. /\ u \o v \in Seq(Target)
        /\ DOMAIN (u \o v) = 1..(Len(u) + Len(v))
        /\ \A k \in 1..Len(u) : (u \o v)[k] = u[k]
        /\ \A k \in (Len(u) + 1)..(Len(u) + Len(v)) :
               (u \o v)[k] = v[k - Len(u)]
    BY JoinElements
  <2>4. u \o v = targets /\ Len(u) = l /\ Len(v) = n
    BY <1>5, <1>6, <2>1, <2>2
  <2>5. /\ targets \in Seq(Target)
        /\ DOMAIN targets = 1..(l + n)
        /\ \A k \in 1..l : targets[k] = u[k]
        /\ \A k \in (l + 1)..(l + n) : targets[k] = v[k - l]
    BY <2>3, <2>4
  <2>6. QED
    BY <2>2, <2>5
<1>8. \A k \in 1..l : targets[k] \notin Nested
  <2>1. \A k \in 1..l : assets[k] \in Asset
    BY <1>1, <1>6
  <2>2. QED
    BY <1>7, <2>1 DEF Play!OrderAssumption
<1>9. ASSUME NEW j \in 1..(l + n), NEW k \in 1..(l + n),
             targets[j] = targets[k], targets[j] \in Nested
      PROVE  j = k
  <2>1. j \in (l + 1)..(l + n) /\ k \in (l + 1)..(l + n)
    <3>1. targets[j] \in Nested /\ targets[k] \in Nested
      BY <1>9
    <3>2. ~(j \in 1..l) /\ ~(k \in 1..l)
      BY Zenon, <1>8, <3>1
    <3>3. QED
      BY <3>2
  <2>2. tail[j - l] = tail[k - l]
    BY <1>7, <1>9, <2>1
  <2>3. j - l \in 1..n /\ k - l \in 1..n
    BY <2>1
  <2>4. j - l = k - l
    BY <1>4, <2>2, <2>3
  <2>5. QED
    BY <2>1, <2>4
<1>10. QED
  BY <1>1, <1>7, <1>9

\* The migrations and the fixtures leave a state of the invariant.
LEMMA InitOrderInv ==
  ASSUME Play!OrderAssumption, Play!Init
  PROVE  OrderInv
<1>1. PICK assets, lists, targets :
        /\ assets \in Play!SetToAllKPermutations(Asset) /\ lists \in SUBSET Nested
        /\ targets = assets \o Play!SetToSeq(lists)
        /\ row = [a \in Asset |->
                    IF a \in Play!ToSet(assets)
                    THEN [enabled |-> TRUE, order |-> Play!PlaceIn(assets, a)]
                    ELSE Play!Gone]
        /\ slot = [i \in DOMAIN targets |-> [of |-> targets[i], at |-> i - 1]]
        /\ newId = Len(targets) + 1
        /\ handler = [w \in Worker |-> Play!Resting]
  BY Zenon DEF Play!Init
<1>2. /\ targets \in Seq(Target)
      /\ assets \in Seq(Asset)
      /\ \A j, k \in DOMAIN targets :
            (targets[j] = targets[k] /\ targets[j] \in Nested) => j = k
  BY <1>1, FirstTargets
<1>3. PICK l \in Nat : l = Len(targets) /\ DOMAIN targets = 1..l
  BY <1>2
<1>4. TablesAreTyped
  <2>1. row \in [Asset -> RowState]
    <3>1. \A a \in Asset : a \in Play!ToSet(assets) =>
                Play!PlaceIn(assets, a) \in Int
      <4>1. SUFFICES ASSUME NEW a \in Asset, a \in Play!ToSet(assets)
                     PROVE  Play!PlaceIn(assets, a) \in Int
        OBVIOUS
      <4>2. \E k \in DOMAIN assets : assets[k] = a
        BY <4>1 DEF Play!ToSet
      <4>3. PICK k \in DOMAIN assets :
                k = CHOOSE j \in DOMAIN assets : assets[j] = a
        BY <4>2
      <4>4. k \in Int /\ Play!PlaceIn(assets, a) = k - 1
        BY <1>2, <4>3 DEF Play!PlaceIn
      <4>5. QED
        BY <4>4
    <3>2. QED
      BY <1>1, <3>1 DEF RowState, Play!Gone
  <2>2. \A i \in 1..l : [of |-> targets[i], at |-> i - 1] \in SlotState
    BY <1>2, <1>3 DEF SlotState
  <2>3. slot \in [DOMAIN slot -> SlotState] /\ DOMAIN slot = 1..l
    BY <1>1, <1>3, <2>2
  <2>4. newId = l + 1
    BY <1>1, <1>3
  <2>5. newId \in Nat \ {0} /\ DOMAIN slot \subseteq 1..(newId - 1)
    BY <2>3, <2>4
  <2>6. QED
    BY <2>1, <2>3, <2>5 DEF TablesAreTyped
<1>5. OneSlotEach
  <2>1. \A i \in DOMAIN slot : i \in DOMAIN targets /\ slot[i].of = targets[i]
    BY <1>1
  <2>2. QED
    BY <1>2, <2>1 DEF OneSlotEach
<1>6. \A w \in Worker : handler[w] = Play!Resting /\ handler[w].pc = "idle"
  BY <1>1, RestingIsTyped
<1>7. \A w \in Worker : ~Wishes(handler[w])
  BY <1>6, RestingIsTyped
<1>8. HandlersAreTyped
  BY <1>1, <1>6, <1>7, RestingIsTyped DEF HandlersAreTyped
<1>9. WishersAreAlone /\ WishesComeTrue
  BY <1>7 DEF WishersAreAlone, WishesComeTrue
<1>10. QED
  BY <1>4, <1>5, <1>8, <1>9 DEF OrderInv

\* Every step keeps the invariant, and one that answers grants the wish.
LEMMA NextOrderInv ==
  ASSUME Play!OrderAssumption, OrderInv, [Play!Next]_Play!orderVars
  PROVE  OrderInv' /\ (WishesAreGranted \/ UNCHANGED Play!orderVars)
<1>1. CASE Play!Next
  <2>1. PICK w \in Worker : Play!Arrive(w) \/ Play!Handle(w)
    BY <1>1 DEF Play!Next
  <2>2. QED
    BY <2>1, ArriveStep, HandleStep
<1>2. CASE UNCHANGED Play!orderVars
  <2>1. /\ row' = row /\ slot' = slot /\ newId' = newId /\ handler' = handler
    BY <1>2 DEF Play!orderVars
  <2>2. TablesAreTyped' /\ OneSlotEach'
    BY <2>1 DEF OrderInv, TablesAreTyped, OneSlotEach
  <2>3. HandlersAreTyped'
    BY <2>1 DEF OrderInv, HandlersAreTyped, Wishes, HandlerIsTyped
  <2>4. WishersAreAlone'
    BY <2>1 DEF OrderInv, WishersAreAlone, Wishes
  <2>5. WishesComeTrue'
    <3>1. SUFFICES ASSUME NEW v \in Worker, NEW q, q = handler[v], Wishes(q),
                          NEW s, s = q.wish.slots
                   PROVE  q.then = "idle" /\ LeadsTo(q, s)'
      BY <2>1 DEF WishesComeTrue, Wishes
    <3>2. q.then = "idle" /\ LeadsTo(q, s)
      BY <3>1, AtWork
    <3>3. QED
      BY <2>1, <3>2, LeadsOn
  <2>6. QED
    BY <1>2, <2>2, <2>3, <2>4, <2>5 DEF OrderInv
<1>3. QED
  BY <1>1, <1>2

\* The specification the run checks adds to the order only which part moves.
LEMMA OrderPart ==
  /\ MCInit => Play!Init
  /\ [MCNext]_<<part, vars, orderVars>> => [Play!Next]_Play!orderVars
<1>1. UNCHANGED orderVars <=> UNCHANGED Play!orderVars
  BY DEF orderVars, Play!orderVars
<1>2. ASSUME [MCNext]_<<part, vars, orderVars>>
      PROVE  [Play!Next]_Play!orderVars
  BY <1>1, <1>2, Zenon DEF MCNext
<1>3. QED
  BY <1>2 DEF MCInit

\* A request that runs alone leaves the Schedule in the order it was sent for
\* (AskedOrderIsKept), for any number of assets, playlists, request threads and
\* requests.  An insertion is left out when two slots share a position, and the
\* save of an asset when play_order falls along the Schedule.
THEOREM AskedOrderAlwaysKept == MCSpec => AskedOrderIsKept
<1> DEFINE P == \A w \in Worker :
                  Play!Sent(w, "none") => Play!Order' = handler[w].wish.slots
<1>1. Play!Init => OrderInv
  BY InitOrderInv, PlaylistsAssumption
<1>2. OrderInv /\ [Play!Next]_Play!orderVars => OrderInv'
  BY NextOrderInv, PlaylistsAssumption
<1>3. OrderInv /\ [Play!Next]_Play!orderVars => [P]_Play!orderVars
  BY NextOrderInv, PlaylistsAssumption
  DEF WishesAreGranted, Wishes, Play!Sent, Play!Answered
<1>4. QED
  BY <1>1, <1>2, <1>3, OrderPart, PTL
  DEF MCSpec, AskedOrderIsKept, Play!AskedOrderIsKept
=============================================================================

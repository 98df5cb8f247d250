---------------------------- MODULE MCPlaylists -----------------------------
(***************************************************************************)
(* The playlists as the requests edit them: the tree they form, and the    *)
(* order of the slots in one of them.  The two share no variable here, so  *)
(* "part" names the one that moves.  The named playlists, the assets and   *)
(* the request threads are interchangeable; the same threads (Request and  *)
(* Worker) serve both.                                                     *)
(***************************************************************************)
EXTENDS PlaylistTree, TLC

CONSTANTS Asset, Nested, None, Worker, MaxListed, MaxEdits, Alone

VARIABLES part, row, slot, newId, handler, edits

Play == INSTANCE PlayOrder

ASSUME PlaylistsAssumption == Play!OrderAssumption

orderVars == <<row, slot, newId, handler, edits>>

MCInit ==
    /\ part \in {"tree", "order"}
    /\ Init /\ Play!Init
    /\ part = "tree" => newId = 1

MCNext ==
    /\ UNCHANGED part
    /\ \/ part = "tree" /\ Next /\ UNCHANGED orderVars
       \/ part = "order" /\ Play!Next /\ UNCHANGED vars

MCSpec == MCInit /\ [][MCNext]_<<part, vars, orderVars>>

AskedOrderIsKept == Play!AskedOrderIsKept

Symmetric ==
    Permutations(Playlist \ {Default}) \cup Permutations(Request)
        \cup Permutations(Asset)
=============================================================================

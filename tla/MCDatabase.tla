----------------------------- MODULE MCDatabase -----------------------------
(***************************************************************************)
(* The database: what its rows say is to be played, its file under backup  *)
(* and restore, and the account it keeps beside anthias.conf.  They share  *)
(* no variable; "part" names the one that moves.  The account is tried     *)
(* with two threads that set up the same name and nothing that fails, and  *)
(* with one thread, two names and two faults.                              *)
(***************************************************************************)
EXTENDS PlaylistEval, AccountPromise, BackupPromise

-----------------------------------------------------------------------------
(* Two families of tables over two or three playlists and two assets: all  *)
(* trees of three items with no window at all, some trees with every choice *)
(* of windows, and no items at all.                                        *)

Always == [days |-> {}, from |-> NoTime, to |-> NoTime]
Windows == {Always,
            [days |-> {7}, from |-> 2, to |-> 1],           \* overnight
            [days |-> {1, 7}, from |-> 1, to |-> 2],
            [days |-> {3}, from |-> 1, to |-> NoTime],      \* half filled
            [days |-> {0, 3}, from |-> NoTime, to |-> NoTime]}  \* junk

AnItem(k, p, n, x) == [id |-> k, playlist |-> p, position |-> n, target |-> x]

(* child_playlist is unique.                                               *)
OneParent(items) ==
    \A i, j \in items : i.target = j.target /\ i.target \in Playlist => i = j

Trees == {items \in
            {{AnItem(k, p[k], n[k], x[k]) : k \in 1..3} :
                p \in [1..3 -> {1, 2, 3}], n \in {<<0, 0, 0>>, <<1, 0, 0>>, <<0, 1, 0>>},
                x \in [1..3 -> {2, 3, 11}]} : OneParent(items)}

Plain == {[enabled |-> [x \in Row |-> TRUE], window |-> [x \in Row |-> Always],
           rank |-> [p \in Playlist |-> 3 - p], items |-> items] : items \in Trees}

(* One playlist within another, both with assets; two side by side.        *)
SomeTrees == {{AnItem(1, 1, 0, 11), AnItem(2, 1, 1, 2), AnItem(3, 2, 0, 12)},
              {AnItem(1, 1, 0, 11), AnItem(2, 2, 0, 12), AnItem(3, 2, 1, 11)}}

Scheduled == {[enabled |-> [x \in Row |-> x \notin off],
               window |-> [x \in Row |-> IF x \in DOMAIN w THEN w[x] ELSE Always],
               rank |-> [p \in Playlist |-> 0], items |-> items] :
                off \in {{}, {2}, {11}}, items \in SomeTrees,
                w \in [{1, 2, 11} -> Windows]}

\* Nothing is in any playlist.
Bare == [enabled |-> [x \in Row |-> FALSE], window |-> [x \in Row |-> Always],
         rank |-> [p \in Playlist |-> 0], items |-> {}]

MCInputs == Plain \cup Scheduled \cup {Bare}

-----------------------------------------------------------------------------

CONSTANTS t1, t2, n1, n2, p1, None

VARIABLES
    part, orphan, conn, produce, error, recover, carried, replaced, ok, faults,
    creds, tx, req, cuts

File == INSTANCE Backup WITH MaxCommits <- 1, MaxFaults <- 2

Racing == INSTANCE OperatorAccount WITH
    faults <- cuts, Thread <- {t1, t2}, Name <- {n1}, Word <- {p1},
    MaxFaults <- 0

Alone == INSTANCE OperatorAccount WITH
    faults <- cuts, Thread <- {t1}, Name <- {n1, n2}, Word <- {p1},
    MaxFaults <- 2

ASSUME /\ File!BackupAssumption
       /\ Racing!AccountAssumption /\ Alone!AccountAssumption

fileVars == <<main, log, orphan, conn, count, produce, error, reader, archive,
              recover, carried, replaced, ok, floor, disturbed, faults>>
accountVars == <<conf, creds, mem, users, migrated, phase, tx, req, cuts>>

MCInit ==
    /\ part \in {"rows", "file", "racing", "alone"}
    /\ IF part = "racing" THEN Racing!Init ELSE Alone!Init
    /\ File!Init
    /\ part \notin {"racing", "alone"} =>
           conf = Alone!Blank /\ creds = "none" /\ migrated
    /\ \/ part = "rows"
       \/ part # "rows" /\ table = Bare
    /\ Init

MCNext ==
    /\ UNCHANGED part
    /\ \/ part = "rows" /\ Next /\ UNCHANGED <<fileVars, accountVars>>
       \/ part = "file" /\ File!Next /\ UNCHANGED <<vars, accountVars>>
       \/ part = "racing" /\ Racing!Next /\ UNCHANGED <<vars, fileVars>>
       \/ part = "alone" /\ Alone!Next /\ UNCHANGED <<vars, fileVars>>

MCSpec == MCInit /\ [][MCNext]_<<part, vars, fileVars, accountVars>>
=============================================================================

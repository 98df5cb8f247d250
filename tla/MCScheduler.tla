---------------------------- MODULE MCScheduler ----------------------------
(***************************************************************************)
(* A device with three slots: o1 and o3 show the same asset, o2 and o3 sit *)
(* in a playlist that may be repeat=False, and o3's own window may close.  *)
(***************************************************************************)
EXTENDS Scheduler

CONSTANTS o1, o2, o3, a1, a2, p1

MCOcc == {o1, o2, o3}
MCAsset == {a1, a2}
MCAssetOf == [o \in MCOcc |-> IF o = o2 THEN a2 ELSE a1]
MCPlaylist == {p1}

Repeat == [o \in MCOcc |-> {}]
PlayOnce == [o \in MCOcc |-> IF o = o1 THEN {} ELSE {p1}]
AllOnce == [o \in MCOcc |-> {p1}]

MCSnapshots ==
    { [list |-> <<o1, o2>>, once |-> Repeat, windowed |-> FALSE,
       fields |-> 1, catalogue |-> 1, ready |-> {a1, a2}],
      [list |-> <<o1, o2, o3>>, once |-> PlayOnce, windowed |-> TRUE,
       fields |-> 2, catalogue |-> 2, ready |-> {a1, a2}],
      [list |-> <<o1, o2>>, once |-> PlayOnce, windowed |-> TRUE,
       fields |-> 2, catalogue |-> 2, ready |-> {a1, a2}],
      [list |-> <<o2, o3>>, once |-> AllOnce, windowed |-> FALSE,
       fields |-> 3, catalogue |-> 3, ready |-> {a2}],
      [list |-> <<>>, once |-> PlayOnce, windowed |-> TRUE,
       fields |-> 2, catalogue |-> 2, ready |-> {a1, a2}] }
=============================================================================

------------------------------ MODULE MCViewer ------------------------------
(***************************************************************************)
(* The viewer's main thread seen twice: with the commands that steer it    *)
(* (ViewerLoop), and with the web engine it drives (Webview).  The two     *)
(* share no variable here, so "part" names the one that moves.             *)
(*                                                                         *)
(* Of the two pages the first has two sets of headers to change between.   *)
(* The rotation is made of all assets, or of one page whose URL never      *)
(* changes.                                                                *)
(***************************************************************************)
EXTENDS Webview

CONSTANTS
    p1, p2, h1, h2, h3, i1,
    Shown, Clips, Lost,     \* what the loop plays: Asset, Video, Broken
    Loops, MaxCommands

VARIABLES
    part,
    active, owedReload, commands, at, asset, replay, screen, stopped, blanked,
    skip, currentId, script, checked, powered, refused, wayland

MCRotations == {{p1}, {p1, p2, i1}}
MCOwner == [h \in Header |-> IF h = h3 THEN p2 ELSE p1]

Loop == INSTANCE ViewerLoop WITH
    pc <- at, Asset <- Shown, Video <- Clips, Broken <- Lost

ASSUME Loop!LoopAssumption

loopVars == <<active, owedReload, commands, at, asset, replay, screen, stopped,
              blanked, skip, currentId, script, checked, powered, refused, wayland>>
allVars == <<part, vars, loopVars>>

MCInit ==
    /\ part \in {"web", "loop"}
    /\ Init /\ Loop!Init
    /\ part = "web" => ~wayland
    /\ part = "loop" =>
        rotation = {p1} /\ supports /\ headersOf = [p \in Page |-> None]

WebStep(A) == part = "web" /\ A /\ UNCHANGED <<part, loopVars>>
LoopStep(A) == part = "loop" /\ A /\ UNCHANGED <<part, vars>>

MCNext == WebStep(Next) \/ LoopStep(Loop!Next)

Brings(a) == Loop!NextAsset /\ asset' = a

\* The fairness of the two modules side by side: one condition may speak of an
\* action of each, as only those of the part that moves are ever enabled; and
\* of the two steps of the subscriber, as either is enabled only where the
\* other is not.
MCSpec ==
    /\ MCInit /\ [][MCNext]_allVars
    /\ WF_allVars(WebStep(MainStep) \/ LoopStep(Loop!Main))
    /\ WF_allVars(LoopStep(Loop!ReceiveReload \/ Loop!HandlerStep))
    /\ SF_allVars(WebStep(Pick(p1)) \/ LoopStep(Brings("image")))
    /\ SF_allVars(WebStep(Pick(p2)) \/ LoopStep(Brings("clip")))
    /\ SF_allVars(WebStep(Pick(i1)) \/ LoopStep(Brings("lost")))

FlagsAgree == Loop!FlagsAgree

\* What comes to be of the part that moves: a black webview is filled, a
\* blanked display goes dark and a removed asset leaves the screen.
ViewerFollows ==
    /\ part = "web" => BlankScreenIsFilled
    /\ part = "loop" => Loop!BlankedGoesDark /\ Loop!RemovedAssetLeavesScreen
=============================================================================

------------------------------ MODULE StackGame ------------------------------
(***************************************************************************)
(* The game of the search screen (stackEngine.ts, StackGame.tsx). The engine *)
(* paints a canvas from an animation loop that parks itself on a still scene *)
(* and has to be woken by everything that can change the scene: a tap, a new *)
(* size, the theme and the timer after a lost game. The search destroys the  *)
(* engine when it navigates, and a later search makes another one.           *)
(*                                                                         *)
(* Places and widths are whole units; the lerp of the camera, the flash, the *)
(* shake and the shards are the number of frames something still moves.      *)
(***************************************************************************)
EXTENDS Integers, Sequences, SequencesExt

CONSTANTS
    Widths,     \* of the canvas
    Eps,        \* the slack of a perfect drop
    MaxRows,    \* bound on the height of a tower
    MaxChanges  \* bound on the changes of size and theme, and on the engines made

VARIABLES
    gone,       \* destroyed
    width, phase, blocks, current, score, combo,
    best,       \* sessionBest, which no engine owns
    moving,     \* frames in which something of the last drop still moves
    looping,    \* a frame is scheduled
    redraw,     \* needsRedraw
    timer,      \* restartTimer
    painted,    \* the scene the canvas shows
    changes

tower == <<phase, blocks, current, score, combo>>
vars == <<gone, width, tower, best, moving, looping, redraw, timer, painted, changes>>

Blank == [phase |-> "blank", rows |-> 0, score |-> 0]
Scene == [phase |-> phase, rows |-> Len(blocks), score |-> score]

TypeOK ==
    /\ gone \in BOOLEAN /\ width \in Widths /\ phase \in {"idle", "running", "over"}
    /\ blocks \in Seq([x : Int, w : Int]) /\ Len(blocks) <= MaxRows
    /\ current \in [x : Int, w : Int, dir : {-1, 1}]
    /\ score \in Nat /\ combo \in 0 .. MaxRows /\ best \in Nat
    /\ moving \in 0 .. 2 /\ looping \in BOOLEAN /\ redraw \in BOOLEAN /\ timer \in BOOLEAN
    /\ painted \in [phase : {"blank", "idle", "running", "over"}, rows : 0 .. MaxRows,
                    score : Nat]
    /\ changes \in 0 .. MaxChanges

-----------------------------------------------------------------------------
\* reset: the base block is wider on a wider canvas and stands in its middle.
Base(w) == [x |-> w \div 4, w |-> w \div 2]

\* spawn: a block as wide as the top one enters from alternate sides.
Spawned(bs, w) ==
    IF Len(bs) % 2 = 0 THEN [x |-> 0 - Last(bs).w, w |-> Last(bs).w, dir |-> 1]
    ELSE [x |-> w, w |-> Last(bs).w, dir |-> -1]

Reset(w) ==
    /\ blocks' = <<Base(w)>> /\ current' = Spawned(<<Base(w)>>, w)
    /\ score' = 0 /\ combo' = 0

Init ==
    /\ gone = FALSE /\ width = CHOOSE w \in Widths : \A v \in Widths : w <= v
    /\ phase = "idle" /\ blocks = <<Base(width)>> /\ current = Spawned(blocks, width)
    /\ score = 0 /\ combo = 0 /\ best = 0 /\ moving = 0
    /\ looping = TRUE /\ redraw = TRUE /\ timer = FALSE /\ painted = Blank /\ changes = 0

-----------------------------------------------------------------------------
(* Input.                                                                   *)

\* The first tap starts the game; while it is over a tap leaves it to the timer.
Start ==
    /\ phase # "running"
    /\ phase' = IF phase = "idle" THEN "running" ELSE phase
    /\ UNCHANGED <<blocks, current, score, combo, best, moving, timer>>

Offset == current.x - Last(blocks).x
Distance == IF Offset < 0 THEN 0 - Offset ELSE Offset

\* What is left of a block that is dropped beside the top one.
Landed == [x |-> IF Offset > 0 THEN current.x ELSE Last(blocks).x,
           w |-> Last(blocks).w - Distance]

\* drop, with no overlap: the game is over, and comes back by itself.
Miss ==
    /\ phase = "running" /\ Distance >= Last(blocks).w
    /\ phase' = "over" /\ moving' = 2
    /\ best' = IF score > best THEN score ELSE best
    /\ timer' = TRUE
    /\ UNCHANGED <<blocks, current, score, combo>>

\* drop, flush or with an offcut. Only a streak of flush drops is worth more.
Land ==
    /\ phase = "running" /\ Distance < Last(blocks).w /\ Len(blocks) < MaxRows
    /\ LET perfect == Distance <= Eps
           top == IF perfect THEN Last(blocks) ELSE Landed
       IN  /\ blocks' = Append(blocks, top)
           /\ current' = Spawned(Append(blocks, top), width)
           /\ combo' = IF perfect THEN combo + 1 ELSE 0
           /\ score' = score + 1 + (IF perfect THEN (IF combo < 4 THEN combo + 1 ELSE 5) ELSE 0)
    /\ moving' = 2
    /\ UNCHANGED <<phase, best, timer>>

\* act: a tap, or a key that no control of the page has. It wakes the loop.
Act ==
    /\ ~ gone /\ looping' = TRUE
    /\ Start \/ Miss \/ Land
    /\ UNCHANGED <<gone, width, redraw, painted, changes>>

-----------------------------------------------------------------------------
(* What else changes the scene.                                             *)

\* Mutant: the restart counts on a loop that is still running.
RestartParked ==
    /\ timer /\ timer' = FALSE
    /\ Reset(width) /\ phase' = "running" /\ moving' = 0 /\ redraw' = TRUE
    /\ UNCHANGED <<gone, width, best, looping, painted, changes>>

\* The timer of a lost game, two seconds later: the loop has parked by then.
Restart ==
    /\ timer /\ timer' = FALSE
    /\ Reset(width) /\ phase' = "running" /\ moving' = 0 /\ redraw' = TRUE
    /\ looping' = TRUE
    /\ UNCHANGED <<gone, width, best, painted, changes>>

\* measure: the canvas is blank after a resize; only the base of a game not begun
\* follows the new width.
Measure(w) ==
    /\ ~ gone /\ w # width /\ changes < MaxChanges
    /\ changes' = changes + 1 /\ width' = w /\ painted' = Blank
    /\ IF phase = "idle" THEN Reset(w) ELSE UNCHANGED <<blocks, current, score, combo>>
    /\ moving' = IF phase = "idle" THEN 0 ELSE 2    \* the camera may have to follow
    /\ redraw' = TRUE /\ looping' = TRUE
    /\ UNCHANGED <<gone, phase, best, timer>>

RefreshTheme ==
    /\ ~ gone /\ changes < MaxChanges /\ changes' = changes + 1
    /\ redraw' = TRUE /\ looping' = TRUE
    /\ UNCHANGED <<gone, width, tower, best, moving, timer, painted>>

\* The search has found somebody, or was stopped.
Destroy ==
    /\ ~ gone /\ gone' = TRUE
    /\ looping' = FALSE /\ timer' = FALSE /\ blocks' = <<>> /\ moving' = 0
    /\ UNCHANGED <<width, phase, current, score, combo, best, redraw, painted, changes>>

\* Another search, with an engine of its own. The best score outlives them all.
Construct ==
    /\ gone /\ changes < MaxChanges /\ changes' = changes + 1
    /\ gone' = FALSE /\ phase' = "idle" /\ Reset(width) /\ moving' = 0
    /\ looping' = TRUE /\ redraw' = TRUE /\ painted' = Blank
    /\ UNCHANGED <<width, best, timer>>

-----------------------------------------------------------------------------
\* tick, its motion: the block runs until it has left the canvas and turns round.
Moved ==
    LET x == current.x + 2 * current.dir
        At(place, dir) == [x |-> place, w |-> current.w, dir |-> dir]
    IN  IF x <= 0 - current.w THEN At(0 - current.w, 1)
        ELSE IF x >= width THEN At(width, -1)
        ELSE At(x, current.dir)

\* Mutant: a frame asks for the next one whatever it found.
TickAlways ==
    /\ looping
    /\ current' = IF phase = "running" THEN Moved ELSE current
    /\ moving' = IF moving = 0 THEN 0 ELSE moving - 1
    /\ painted' = IF phase = "running" \/ moving' > 0 \/ redraw THEN Scene ELSE painted
    /\ redraw' = FALSE
    /\ UNCHANGED <<gone, width, phase, blocks, score, combo, best, looping, timer, changes>>

\* tick: a frame. It paints what may have moved, and is the last on a still scene.
Tick ==
    /\ looping
    /\ current' = IF phase = "running" THEN Moved ELSE current
    /\ moving' = IF moving = 0 THEN 0 ELSE moving - 1
    /\ LET animating == phase = "running" \/ moving' > 0 IN
         /\ painted' = IF animating \/ redraw THEN Scene ELSE painted
         /\ looping' = animating
    /\ redraw' = FALSE
    /\ UNCHANGED <<gone, width, phase, blocks, score, combo, best, timer, changes>>

-----------------------------------------------------------------------------
Next ==
    \/ Act \/ Restart \/ RefreshTheme \/ Destroy \/ Construct \/ Tick
    \/ \E w \in Widths : Measure(w)
Spec == Init /\ [][Next]_vars

\* Timers fire, and a visible page has its frames.
FairSpec == Spec /\ WF_vars(Restart) /\ WF_vars(Tick)
-----------------------------------------------------------------------------
(* Properties.                                                              *)

\* The loop never parks on a scene that moves or is not painted: whatever changes
\* the scene has to wake it.
LoopCovers == ~ gone /\ ~ looping =>
    phase # "running" /\ moving = 0 /\ ~ redraw /\ painted = Scene

\* Every block lies on the one beneath it, and something of it is left.
TowerStands == \A n \in 2 .. Len(blocks) :
    /\ blocks[n].w > 0
    /\ blocks[n - 1].x <= blocks[n].x
    /\ blocks[n].x + blocks[n].w <= blocks[n - 1].x + blocks[n - 1].w

\* An engine that was destroyed schedules nothing, and a lost game is waited for by
\* its timer and by no other.
DestroyedIsQuiet ==
    /\ gone => ~ looping /\ ~ timer
    /\ ~ gone => (timer <=> phase = "over")

\* The game never freezes on the screen, its tower stands, and it ends with the search.
GameSafe == LoopCovers /\ TowerStands /\ DestroyedIsQuiet

\* A lost game begins again by itself, or the search is over; a game that nobody
\* starts costs no frames.
GameComesBack ==
    /\ (phase = "over" ~> (phase = "running" \/ gone))
    /\ (phase = "idle" ~> (~ looping \/ phase # "idle"))
=============================================================================

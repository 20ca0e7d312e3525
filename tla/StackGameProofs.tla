--------------------------- MODULE StackGameProofs ---------------------------
(***************************************************************************)
(* Theorems about StackGame, for canvases of any size, towers of any height  *)
(* and any number of changes and engines.                                   *)
(***************************************************************************)
EXTENDS StackGame, TLAPS

-----------------------------------------------------------------------------
(* The inductive invariant.                                                 *)

Block == [x : Int, w : Int]
Entering == [x : Int, w : Int, dir : {-1, 1}]

Flags == gone \in BOOLEAN /\ looping \in BOOLEAN /\ redraw \in BOOLEAN /\ timer \in BOOLEAN

\* An engine that lives has its base block.
Shape ==
    /\ width \in Nat /\ moving \in 0 .. 2 /\ phase \in {"idle", "running", "over"}
    /\ blocks \in Seq(Block) /\ current \in Entering
    /\ ~ gone => blocks # <<>>

\* The loop parks on a still scene ...
Parked == ~ gone /\ ~ looping => phase # "running" /\ moving = 0 /\ ~ redraw

\* ... which is on the canvas already: the last frame that moved something painted it.
Painted == ~ gone /\ ~ redraw /\ phase # "running" /\ moving <= 1 => painted = Scene

IInv == Flags /\ Shape /\ Parked /\ Painted /\ TowerStands /\ DestroyedIsQuiet

\* The canvases have whole widths, and a smallest one, the first.
Canvases == Widths \subseteq Nat /\ \E w \in Widths : \A v \in Widths : w <= v

-----------------------------------------------------------------------------
(* The tower.                                                               *)

\* reset and spawn, for any width.
LEMMA SpawnTyped ==
    ASSUME NEW bs \in Seq(Block), bs # <<>>, NEW w \in Nat
    PROVE  Spawned(bs, w) \in Entering
<1>1. Len(bs) \in Nat \ {0} /\ bs[Len(bs)] \in Block
  OBVIOUS
<1>2. Last(bs) \in Block
  BY <1>1 DEF Last
<1>3. Last(bs).w \in Int /\ 0 - Last(bs).w \in Int
  BY <1>2 DEF Block
<1> QED BY <1>3 DEF Spawned, Entering

LEMMA ResetStands ==
    ASSUME NEW w \in Nat, Reset(w)
    PROVE  /\ blocks' \in Seq(Block) /\ blocks' # <<>> /\ current' \in Entering
           /\ TowerStands'
<1>1. Base(w) \in Block
  BY DEF Base, Block
<1>2. <<Base(w)>> \in Seq(Block) /\ <<Base(w)>> # <<>> /\ Len(<<Base(w)>>) = 1
  BY <1>1
<1>3. blocks' = <<Base(w)>> /\ current' = Spawned(<<Base(w)>>, w)
  BY DEF Reset
<1>4. TowerStands'
  BY <1>2, <1>3 DEF TowerStands
<1> QED BY <1>2, <1>3, <1>4, SpawnTyped

\* A drop that lands leaves a block on the top one.
LEMMA LandStands ==
    ASSUME Shape, ~ gone, TowerStands, Eps \in Nat, Land
    PROVE  /\ blocks' \in Seq(Block) /\ blocks' # <<>> /\ current' \in Entering
           /\ TowerStands'
<1> DEFINE top == IF Distance <= Eps THEN Last(blocks) ELSE Landed
<1>1. /\ Len(blocks) \in Nat \ {0} /\ blocks[Len(blocks)] \in Block
      /\ Last(blocks) = blocks[Len(blocks)]
  BY DEF Shape, Last
<1>2. /\ Last(blocks).x \in Int /\ Last(blocks).w \in Int /\ current.x \in Int
      /\ Last(blocks) \in Block
  BY <1>1 DEF Block, Shape, Entering
<1>3. /\ Offset \in Int /\ Distance \in Nat
      /\ Distance = Offset \/ (Distance = 0 - Offset /\ Offset < 0)
      /\ Distance < Last(blocks).w
  BY <1>2 DEF Offset, Distance, Land
<1>4. Landed \in Block
  BY <1>2, <1>3 DEF Landed, Block
<1>5. /\ top \in Block /\ top.w > 0 /\ Last(blocks).x <= top.x
      /\ top.x + top.w <= Last(blocks).x + Last(blocks).w
  <2>1. CASE Distance <= Eps
    BY <2>1, <1>2, <1>3
  <2>2. CASE ~ (Distance <= Eps)
    <3>1. top = Landed
      BY <2>2
    <3>2. Offset > 0 => Landed.x = current.x /\ Landed.w = Last(blocks).w - Offset
      BY <1>3 DEF Landed
    <3>3. ~ (Offset > 0) => Landed.x = Last(blocks).x /\ Landed.w = Last(blocks).w - Distance
      BY <1>3 DEF Landed
    <3>4. Landed.w > 0 /\ Last(blocks).x <= Landed.x
          /\ Landed.x + Landed.w <= Last(blocks).x + Last(blocks).w
      BY <1>2, <1>3, <3>2, <3>3 DEF Offset
    <3> QED BY <1>4, <3>1, <3>4
  <2> QED BY <2>1, <2>2
<1>6. blocks' = Append(blocks, top) /\ current' = Spawned(Append(blocks, top), width)
  BY DEF Land
<1> HIDE DEF top
<1>7. /\ blocks' \in Seq(Block) /\ Len(blocks') = Len(blocks) + 1 /\ blocks' # <<>>
      /\ \A n \in 1 .. Len(blocks) : blocks'[n] = blocks[n]
      /\ blocks'[Len(blocks) + 1] = top
  BY <1>5, <1>6 DEF Shape
<1>8. current' \in Entering
  BY <1>6, <1>7, SpawnTyped DEF Shape
<1>9. TowerStands'
  <2> SUFFICES ASSUME NEW n \in 2 .. Len(blocks')
               PROVE  /\ blocks'[n].w > 0
                      /\ blocks'[n - 1].x <= blocks'[n].x
                      /\ blocks'[n].x + blocks'[n].w <= blocks'[n - 1].x + blocks'[n - 1].w
    BY DEF TowerStands
  <2>1. CASE n \in 2 .. Len(blocks)
    BY <2>1, <1>1, <1>7 DEF TowerStands
  <2>2. CASE n = Len(blocks) + 1
    BY <2>2, <1>1, <1>5, <1>7
  <2> QED BY <2>1, <2>2, <1>1, <1>7
<1> QED BY <1>7, <1>8, <1>9

-----------------------------------------------------------------------------
(* The steps.                                                               *)

LEMMA ActStep == ASSUME IInv, Eps \in Nat, Act PROVE IInv'
<1>0. /\ ~ gone /\ looping' = TRUE /\ gone' = gone /\ width' = width
      /\ redraw' = redraw /\ painted' = painted
  BY DEF Act
<1>1. CASE Start
  BY <1>0, <1>1 DEF Start, IInv, Flags, Shape, Parked, Painted, TowerStands, DestroyedIsQuiet, Scene
<1>2. CASE Miss
  BY <1>0, <1>2 DEF Miss, IInv, Flags, Shape, Parked, Painted, TowerStands, DestroyedIsQuiet
<1>3. CASE Land
  <2>1. /\ blocks' \in Seq(Block) /\ blocks' # <<>> /\ current' \in Entering
        /\ TowerStands'
    BY <1>0, <1>3, LandStands DEF IInv
  <2>2. phase = "running" /\ phase' = phase /\ moving' = 2 /\ timer' = timer
    BY <1>3 DEF Land
  <2> QED BY <1>0, <2>1, <2>2 DEF IInv, Flags, Shape, Parked, Painted, DestroyedIsQuiet
<1> QED BY <1>1, <1>2, <1>3 DEF Act

LEMMA RestartStep == ASSUME IInv, Restart PROVE IInv'
<1>1. /\ timer /\ ~ timer' /\ Reset(width) /\ phase' = "running" /\ moving' = 0
      /\ redraw' = TRUE /\ looping' = TRUE /\ gone' = gone /\ width' = width
      /\ timer' \in BOOLEAN
  BY DEF Restart
<1>2. ~ gone
  BY <1>1 DEF IInv, DestroyedIsQuiet
<1>3. /\ blocks' \in Seq(Block) /\ blocks' # <<>> /\ current' \in Entering
      /\ TowerStands'
  BY <1>1, ResetStands DEF IInv, Shape
<1> QED BY <1>1, <1>2, <1>3 DEF IInv, Flags, Shape, Parked, Painted, DestroyedIsQuiet

LEMMA MeasureStep == ASSUME IInv, Widths \subseteq Nat, NEW w \in Widths, Measure(w) PROVE IInv'
<1>1. /\ ~ gone /\ width' = w /\ redraw' = TRUE /\ looping' = TRUE
      /\ gone' = gone /\ phase' = phase /\ timer' = timer /\ moving' \in 0 .. 2
      /\ w \in Nat
  BY DEF Measure
<1>2. /\ blocks' \in Seq(Block) /\ blocks' # <<>> /\ current' \in Entering
      /\ TowerStands'
  <2>1. CASE phase = "idle"
    BY <2>1, <1>1, ResetStands DEF Measure
  <2>2. CASE phase # "idle"
    BY <2>2, <1>1 DEF Measure, IInv, Shape, TowerStands
  <2> QED BY <2>1, <2>2
<1> QED BY <1>1, <1>2 DEF IInv, Flags, Shape, Parked, Painted, DestroyedIsQuiet

LEMMA DestroyStep == ASSUME IInv, Destroy PROVE IInv'
<1>1. /\ gone' = TRUE /\ looping' = FALSE /\ timer' = FALSE /\ redraw' = redraw
      /\ blocks' = <<>> /\ moving' = 0 /\ UNCHANGED <<width, phase, current>>
  BY DEF Destroy
<1>2. blocks' \in Seq(Block) /\ Len(blocks') = 0
  BY <1>1
<1>3. TowerStands'
  BY <1>2 DEF TowerStands
<1>4. Shape'
  BY <1>1, <1>2 DEF IInv, Shape
<1>5. Flags'
  BY <1>1 DEF IInv, Flags
<1> QED BY <1>1, <1>3, <1>4, <1>5 DEF IInv, Parked, Painted, DestroyedIsQuiet

LEMMA ConstructStep == ASSUME IInv, Construct PROVE IInv'
<1>1. /\ gone /\ ~ gone' /\ gone' \in BOOLEAN /\ phase' = "idle" /\ Reset(width)
      /\ moving' = 0 /\ looping' = TRUE /\ redraw' = TRUE /\ width' = width
      /\ timer' = timer
  BY DEF Construct
<1>2. /\ blocks' \in Seq(Block) /\ blocks' # <<>> /\ current' \in Entering
      /\ TowerStands'
  BY <1>1, ResetStands DEF IInv, Shape
<1> QED BY <1>1, <1>2 DEF IInv, Flags, Shape, Parked, Painted, DestroyedIsQuiet

LEMMA TickStep == ASSUME IInv, Tick PROVE IInv'
<1>1. /\ looping /\ moving' = (IF moving = 0 THEN 0 ELSE moving - 1)
      /\ redraw' = FALSE /\ gone' = gone /\ width' = width /\ phase' = phase
      /\ blocks' = blocks /\ score' = score /\ timer' = timer
  BY DEF Tick
<1>2. current' \in Entering
  <2>1. current.x \in Int /\ current.w \in Int /\ current.dir \in {-1, 1} /\ width \in Nat
    BY DEF IInv, Shape, Entering
  <2>2. Moved \in Entering
    BY <2>1 DEF Moved, IInv, Shape, Entering
  <2> QED BY <2>2 DEF Tick, IInv, Shape
<1>3. looping' \in BOOLEAN /\ (~ looping' => phase # "running" /\ ~ (moving' > 0))
  BY Zenon DEF Tick
<1>4. painted' = IF phase = "running" \/ moving' > 0 \/ redraw THEN Scene ELSE painted
  BY DEF Tick
<1>5. Shape'
  <2>1. moving' \in 0 .. 2
    BY <1>1 DEF IInv, Shape
  <2> QED BY <1>1, <1>2, <2>1 DEF IInv, Shape
<1>6. Parked'
  <2>1. moving' \in 0 .. 2
    BY <1>1 DEF IInv, Shape
  <2>2. ~ looping' => phase' # "running" /\ moving' = 0 /\ ~ redraw'
    BY <1>1, <1>3, <2>1
  <2> QED BY <2>2 DEF Parked
<1>7. Painted'
  <2>1. Scene' = Scene
    BY <1>1 DEF Scene
  <2>2. moving \in 0 .. 2 /\ (moving' = 0 => moving <= 1)
    BY <1>1 DEF IInv, Shape
  <2> QED BY <1>1, <1>4, <2>1, <2>2 DEF IInv, Shape, Painted
<1>8. Flags'
  BY <1>1, <1>3 DEF IInv, Flags
<1>9. TowerStands' /\ DestroyedIsQuiet'
  BY <1>1, <1>3 DEF IInv, TowerStands, DestroyedIsQuiet
<1> QED BY <1>5, <1>6, <1>7, <1>8, <1>9 DEF IInv

LEMMA Inductive ==
    ASSUME IInv, Widths \subseteq Nat, Eps \in Nat, [Next]_vars
    PROVE  IInv'
<1>1. CASE RefreshTheme
  BY <1>1 DEF RefreshTheme, tower, IInv, Flags, Shape, Parked, Painted, TowerStands,
              DestroyedIsQuiet, Scene
<1>2. CASE UNCHANGED vars
  BY <1>2 DEF vars, tower, IInv, Flags, Shape, Parked, Painted, TowerStands, DestroyedIsQuiet, Scene
<1> QED BY <1>1, <1>2, ActStep, RestartStep, MeasureStep, DestroyStep, ConstructStep,
           TickStep DEF Next

LEMMA Begins == ASSUME Canvases, Init PROVE IInv
<1>1. width \in Nat
  <2>1. width \in Widths
    BY DEF Init, Canvases
  <2> QED BY <2>1 DEF Canvases
<1>2. Base(width) \in Block
  BY <1>1 DEF Base, Block
<1>3. blocks \in Seq(Block) /\ blocks # <<>> /\ Len(blocks) = 1
  BY <1>2 DEF Init
<1>4. current \in Entering
  BY <1>1, <1>3, SpawnTyped DEF Init
<1>5. /\ gone = FALSE /\ looping = TRUE /\ redraw = TRUE /\ timer = FALSE
      /\ phase = "idle" /\ moving = 0
  BY DEF Init
<1>6. TowerStands
  BY <1>3 DEF TowerStands
<1>7. Shape
  BY <1>1, <1>3, <1>4, <1>5 DEF Shape
<1>8. Flags
  BY <1>5 DEF Flags
<1> QED BY <1>5, <1>6, <1>7, <1>8 DEF IInv, Parked, Painted, DestroyedIsQuiet

-----------------------------------------------------------------------------
(* The types, with the streak: it is shorter than the tower it is won on.   *)

Streak ==
    /\ combo \in 0 .. MaxRows /\ Len(blocks) <= MaxRows
    /\ ~ gone => combo < Len(blocks)

\* What the score, the history and the canvas are.
Tallies ==
    /\ score \in Nat /\ best \in Nat /\ changes \in 0 .. MaxChanges /\ width \in Widths
    /\ painted \in [phase : {"blank", "idle", "running", "over"}, rows : 0 .. MaxRows,
                    score : Nat]

LEMMA StreakStep ==
    ASSUME MaxRows \in Nat \ {0}, IInv, Streak, [Next]_vars
    PROVE  Streak'
<1>1. blocks \in Seq(Block) /\ Len(blocks) \in Nat /\ (~ gone => blocks # <<>>)
  BY DEF IInv, Shape
<1>2. ASSUME NEW w, Reset(w) PROVE Streak'
  <2>1. Len(blocks') = 1 /\ combo' = 0
    BY <1>2 DEF Reset
  <2> QED BY <2>1 DEF Streak
<1>3. CASE UNCHANGED <<blocks, combo, gone>>
  BY <1>3 DEF Streak
<1>4. CASE Act
  <2>1. CASE Land
    <3>1. PICK top : blocks' = Append(blocks, top)
      BY <2>1 DEF Land
    <3>2. Len(blocks') = Len(blocks) + 1
      BY <1>1, <3>1
    <3>3. combo' \in {combo + 1, 0} /\ Len(blocks) < MaxRows /\ ~ gone
      BY <1>4, <2>1 DEF Land, Act
    <3> QED BY <1>1, <3>2, <3>3 DEF Streak
  <2>2. CASE Start \/ Miss
    BY <1>3, <1>4, <2>2 DEF Act, Start, Miss
  <2> QED BY <1>4, <2>1, <2>2 DEF Act
<1>5. CASE Restart
  BY <1>2, <1>5 DEF Restart
<1>6. ASSUME NEW w \in Widths, Measure(w) PROVE Streak'
  BY <1>2, <1>3, <1>6 DEF Measure
<1>7. CASE Destroy
  <2>1. blocks' = <<>> /\ combo' = combo /\ gone' = TRUE
    BY <1>7 DEF Destroy
  <2>2. Len(blocks') = 0
    BY <2>1
  <2> QED BY <2>1, <2>2 DEF Streak
<1>8. CASE Construct
  BY <1>2, <1>8 DEF Construct
<1>9. CASE RefreshTheme \/ Tick \/ UNCHANGED vars
  BY <1>3, <1>9 DEF RefreshTheme, Tick, vars, tower
<1> QED BY <1>4, <1>5, <1>6, <1>7, <1>8, <1>9 DEF Next

LEMMA TalliesStep ==
    ASSUME MaxRows \in Nat \ {0}, MaxChanges \in Nat, IInv, Streak, Tallies, [Next]_vars
    PROVE  Tallies'
<1>1. Scene \in [phase : {"blank", "idle", "running", "over"}, rows : 0 .. MaxRows, score : Nat]
  <2>1. Len(blocks) \in 0 .. MaxRows /\ phase \in {"idle", "running", "over"}
    BY DEF IInv, Shape, Streak
  <2> QED BY <2>1 DEF Scene, Tallies
<1>2. Blank \in [phase : {"blank", "idle", "running", "over"}, rows : 0 .. MaxRows, score : Nat]
  BY DEF Blank, Streak
<1>3. combo \in Nat
  BY DEF Streak
<1>4. CASE Act
  <2>1. UNCHANGED <<width, painted, changes>>
    BY <1>4 DEF Act
  <2>2. score' \in Nat /\ best' \in Nat
    <3>1. CASE Start
      BY <3>1 DEF Start, Tallies
    <3>2. CASE Miss
      BY <3>2 DEF Miss, Tallies
    <3>3. CASE Land
      <4>1. PICK d \in {0, combo + 1, 5} : score' = score + 1 + d
        BY <3>3 DEF Land
      <4> QED BY <1>3, <3>3, <4>1 DEF Land, Tallies
    <3> QED BY <1>4, <3>1, <3>2, <3>3 DEF Act
  <2> QED BY <2>1, <2>2 DEF Tallies
<1>5. CASE Restart
  BY <1>5 DEF Restart, Reset, Tallies
<1>6. ASSUME NEW w \in Widths, Measure(w) PROVE Tallies'
  <2>1. /\ width' = w /\ painted' = Blank /\ best' = best /\ score' \in {score, 0}
        /\ changes < MaxChanges /\ changes' = changes + 1
    BY <1>6 DEF Measure, Reset
  <2>2. changes' \in 0 .. MaxChanges
    BY <2>1 DEF Tallies
  <2> QED BY <1>2, <2>1, <2>2 DEF Tallies
<1>7. CASE RefreshTheme
  <2>1. changes' \in 0 .. MaxChanges
    BY <1>7 DEF RefreshTheme, Tallies
  <2> QED BY <1>7, <2>1 DEF RefreshTheme, Tallies, tower
<1>8. CASE Destroy
  BY <1>8 DEF Destroy, Tallies
<1>9. CASE Construct
  <2>1. /\ painted' = Blank /\ score' = 0 /\ UNCHANGED <<width, best>>
        /\ changes' \in 0 .. MaxChanges
    BY <1>9 DEF Construct, Reset, Tallies
  <2> QED BY <1>2, <2>1 DEF Tallies
<1>10. CASE Tick
  <2>1. painted' \in {painted, Scene} /\ UNCHANGED <<width, score, best, changes>>
    BY <1>10 DEF Tick
  <2> QED BY <1>1, <2>1 DEF Tallies
<1>11. CASE UNCHANGED vars
  BY <1>11 DEF vars, tower, Tallies
<1> QED BY <1>4, <1>5, <1>6, <1>7, <1>8, <1>9, <1>10, <1>11 DEF Next

-----------------------------------------------------------------------------
\* The engine keeps its invariant, whatever is tapped, resized or destroyed and when.
THEOREM GameInductive ==
    ASSUME Canvases, Eps \in Nat
    PROVE  Spec => []IInv
<1>1. Init => IInv
  BY Begins
<1>2. IInv /\ [Next]_vars => IInv'
  BY Inductive DEF Canvases
<1> QED BY <1>1, <1>2, PTL DEF Spec

\* The search screen's game never freezes and its tower never floats: the loop parks only
\* on a scene that is still and painted (stackEngine.ts, tick and wake), each block lies on
\* the one beneath it, and a destroyed engine has neither a frame nor a timer left.
THEOREM GameIsSafe ==
    ASSUME Canvases, Eps \in Nat
    PROVE  Spec => []GameSafe
<1>1. IInv => GameSafe
  BY DEF IInv, GameSafe, LoopCovers, Parked, Painted
<1> QED BY <1>1, GameInductive, PTL

\* The engine's variables keep their types, and a streak is shorter than its tower.
THEOREM GameTypeCorrect ==
    ASSUME Canvases, Eps \in Nat, MaxRows \in Nat \ {0}, MaxChanges \in Nat
    PROVE  Spec => []TypeOK
<1>1. Init => IInv /\ Streak /\ Tallies
  <2> SUFFICES ASSUME Init PROVE IInv /\ Streak /\ Tallies
    OBVIOUS
  <2>1. Streak
    <3>1. blocks = <<Base(width)>> /\ combo = 0
      BY DEF Init
    <3>2. Len(blocks) = 1
      BY <3>1
    <3> QED BY <3>1, <3>2 DEF Streak
  <2>2. Tallies
    <3>1. width \in Widths
      BY DEF Init, Canvases
    <3>2. /\ score = 0 /\ best = 0 /\ changes = 0
          /\ painted = [phase |-> "blank", rows |-> 0, score |-> 0]
      BY DEF Init, Blank
    <3> QED BY <3>1, <3>2 DEF Tallies
  <2> QED BY <2>1, <2>2, Begins
<1>2. IInv /\ Streak /\ Tallies /\ [Next]_vars => (IInv /\ Streak /\ Tallies)'
  BY Inductive, StreakStep, TalliesStep DEF Canvases
<1>3. IInv /\ Streak /\ Tallies => TypeOK
  BY DEF IInv, Flags, Shape, Streak, Tallies, TypeOK, Block, Entering
<1> QED BY <1>1, <1>2, <1>3, PTL DEF Spec
=============================================================================

------------------------------ MODULE MCUpkeep ------------------------------
(***************************************************************************)
(* Instances of Session, Survival, Governor and Locomotion for TLC.  The   *)
(* four share no state in the engine, so a behaviour is about one of them. *)
(***************************************************************************)
EXTENDS Session, Survival, Governor, Locomotion

LOCAL INSTANCE TLC

VARIABLE part   \* the one this behaviour is about

\* A key that strafes or turns with the mapping and one that acts, two
\* fingers, one touch button for the same act, and a joystick that rests or
\* is pushed to the left.
JoystickPositions == {{}, {"left"}}

\* Three bottles, one of them in the halo of a second chunk, and a ration.
Bottles == {1, 2, 3}
AllSupplies == {1, 2, 3, 4}
SupplyKinds == [id \in AllSupplies |-> IF id \in Bottles THEN "water" ELSE "ration"]
TwoChunks == {"home", "next"}
SupplyLists == [c \in TwoChunks |-> IF c = "home" THEN {1, 2, 3} ELSE {3, 4}]
NoTime == [water |-> 0, ration |-> 0, wound |-> 0, heal |-> 0, calm |-> 0]
LongTime == [water |-> 11, ration |-> 10, wound |-> 10, heal |-> 20, calm |-> 100]

TimeSpans == {NoTime, LongTime}

\* A corner of two thin walls on the borders of cells, one of them longer than
\* a cell, above a floor; and a hall whose ceiling is too large for the index,
\* with a long wall, an inverted box and pillars beside the radius of warmth.
Upright(x0, z0, x1, z1) ==
  [minX |-> x0, minY |-> 0, minZ |-> z0, maxX |-> x1, maxY |-> 600, maxZ |-> z1]
Slab(y0, y1, reach) ==
  [minX |-> -reach, minY |-> y0, minZ |-> -reach, maxX |-> reach, maxY |-> y1, maxZ |-> reach]
Corner == (1 :> Slab(0, 10, 1600)) @@ (2 :> Upright(-900, -120, 1700, -80))
          @@ (3 :> Upright(-120, -880, -80, 40))
Hall == (1 :> Upright(90, -13600, 13600, 200)) @@ (2 :> Upright(10, 90, -10, 130))
        @@ (3 :> Upright(-110, -20, -70, 20)) @@ (4 :> Upright(1190, 40, 1230, 80))
        @@ (5 :> Upright(-1240, 0, -1200, 0)) @@ (6 :> Slab(600, 640, 6900))
CornerAndHall == {Corner, Hall}
Origin == [x |-> 0, y |-> 340, z |-> 0]
TwoArrivals == {Origin, [x |-> 30, y |-> 340, z |-> -200]}
ThreeHeadings == {[sin |-> 0, cos |-> 5], [sin |-> 3, cos |-> 4], [sin |-> -4, cos |-> -3]}
AheadOrAslant == {[forward |-> 1, strafe |-> 0], [forward |-> 1, strafe |-> -1]}

PartInit ==
  /\ Init /\ SurvivalInit /\ GovernorInit /\ LocomotionInit
  /\ part \in {"session", "survival", "governor", "walk"}
  /\ part # "walk" => player.at = Origin

\* The engine goes on when the bound on what is walked is reached.
WalkIsOver == steps = MaxSteps /\ UNCHANGED locomotionVars

PartNext ==
  /\ UNCHANGED part
  /\ \/ part = "session" /\ Next /\ UNCHANGED <<survivalVars, governorVars, locomotionVars>>
     \/ part = "survival" /\ SurvivalNext /\ UNCHANGED <<vars, governorVars, locomotionVars>>
     \/ part = "governor" /\ GovernorFrame /\ UNCHANGED <<vars, survivalVars, locomotionVars>>
     \/ /\ part = "walk" /\ (LocomotionNext \/ WalkIsOver)
        /\ UNCHANGED <<vars, survivalVars, governorVars>>

\* What later steps depend on: all but the last frame, which no action reads.
Remembered ==
  <<down, finger, page, doom, input, touch, history, survivalVars, governorVars,
    locomotionVars, part>>

PartSpec ==
  PartInit /\ [][PartNext]_<<vars, survivalVars, governorVars, locomotionVars, part>>
=============================================================================

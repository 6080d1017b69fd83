---------------------------- MODULE UpkeepProofs ----------------------------
(***************************************************************************)
(* Proofs about Governor, for any number of scales and any times of        *)
(* cooldown, probe and lockout for which a failed raise is locked out for  *)
(* at least as long as it is on probation; and about Locomotion, for any   *)
(* boxes with whole coordinates, any headings, frame times and efforts;    *)
(* and about Session, for any keys, fingers, buttons and joystick places.  *)
(***************************************************************************)
EXTENDS Session, Governor, Locomotion, TLAPS

GovernorSpec == GovernorInit /\ [][GovernorFrame]_governorVars

Governors == [scale : 0..(Scales - 1), cooldown : Nat,
              sinceRaise : 0..RaiseProbe, lockout : Nat]

\* The newest raise is no older than any other, and a step that has been taken
\* back is either past its probe or locked out for the rest of it.
GovernorInv ==
    /\ governor \in Governors
    /\ raisedAgo \in [Steps -> 0..RaiseProbe]
    /\ \A s \in Steps : governor.sinceRaise <= raisedAgo[s]
    /\ \A s \in Steps : s >= governor.scale =>
           raisedAgo[s] + governor.lockout >= RaiseProbe

\* The counters are saturated at the probe time and at zero.
LEMMA Counters ==
    /\ \A n \in 0..RaiseProbe :
          /\ Up(n) \in 0..RaiseProbe
          /\ Up(n) = RaiseProbe \/ Up(n) = n + 1
          /\ \A m \in 0..RaiseProbe : m <= n => Up(m) <= Up(n)
    /\ \A n \in Nat : Down(n) \in Nat /\ (Down(n) > 0 \/ n > 1 => Down(n) = n - 1)
<1> QED BY GovernorAssumption DEF GovernorAssumption, Up, Down

\* What a frame makes of a governor: the scale stays, or it drops and blames a
\* raise still on probation, or it is raised when nothing locks raises out.
LEMMA FrameCases ==
    ASSUME NEW g \in Governors, NEW load
    PROVE  LET h == Update(Advanced(g), load)
               up == Up(g.sinceRaise)
               cooled == Down(g.lockout)
           IN  /\ h \in Governors
               /\ \/ h.scale = g.scale /\ h.sinceRaise = up /\ h.lockout = cooled
                  \/ /\ h.scale = g.scale - 1 /\ g.scale > 0
                     /\ h.sinceRaise = up
                     /\ h.lockout = IF up < RaiseProbe THEN RaiseLockout ELSE cooled
                  \/ /\ h.scale = g.scale + 1 /\ h.sinceRaise = 0
                     /\ h.lockout = 0 /\ cooled = 0
<1> DEFINE up == Up(g.sinceRaise)
           cooled == Down(g.lockout)
           a == Advanced(g)
           h == Update(a, load)
<1>0. /\ RaiseProbe \in Nat \ {0} /\ RaiseLockout \in Nat /\ Scales \in Nat
      /\ DropCooldown \in Nat /\ RaiseCooldown \in Nat
  BY GovernorAssumption DEF GovernorAssumption
<1>1. up \in 0..RaiseProbe /\ cooled \in Nat
  BY Counters DEF Governors
<1>2. /\ a \in Governors /\ a.sinceRaise = up /\ a.lockout = cooled
      /\ a.scale = g.scale /\ a.cooldown = g.cooldown
  BY <1>1 DEF Advanced, Governors
<1>3. CASE a.cooldown > 0
  <2>1. h = [a EXCEPT !.cooldown = @ - 1]
    BY <1>3 DEF Update
  <2> QED BY <1>0, <1>2, <1>3, <2>1 DEF Governors
<1>4. CASE a.cooldown = 0 /\ load = "over" /\ a.scale > 0
  <2>1. h = Dropped(a)
    BY <1>4 DEF Update
  <2> HIDE DEF h, a, up, cooled
  <2>2. /\ h.scale = g.scale - 1 /\ g.scale > 0 /\ h.sinceRaise = up
        /\ h.lockout = IF up < RaiseProbe THEN RaiseLockout ELSE cooled
    BY <1>2, <1>4, <2>1 DEF Dropped, Governors
  <2>3. a.scale - 1 \in 0..(Scales - 1)
    BY <1>0, <1>2, <1>4 DEF Governors
  <2>4. h \in Governors
    BY <1>0, <1>2, <2>1, <2>3 DEF Dropped, Governors
  <2> QED BY <2>2, <2>4 DEF h, a, up, cooled
<1>5. CASE a.cooldown = 0 /\ load = "under" /\ a.scale < Scales - 1 /\ a.lockout = 0
  <2>1. h = Raised(a)
    BY <1>5, "over" # "under" DEF Update
  <2> HIDE DEF h, a, up, cooled
  <2>2. /\ h.scale = g.scale + 1 /\ h.sinceRaise = 0
        /\ h.lockout = 0 /\ cooled = 0
    BY <1>2, <1>5, <2>1 DEF Raised, Governors
  <2>3. a.scale + 1 \in 0..(Scales - 1) /\ 0 \in 0..RaiseProbe
    BY <1>0, <1>2, <1>5 DEF Governors
  <2>4. \A up1 \in 0..(Scales - 1), none \in 0..RaiseProbe :
           [a EXCEPT !.scale = up1, !.cooldown = RaiseCooldown,
                     !.sinceRaise = none] \in Governors
    BY <1>0, <1>2 DEF Governors
  <2>5. h \in Governors
    BY <2>1, <2>3, <2>4 DEF Raised
  <2> QED BY <2>2, <2>5 DEF h, a, up, cooled
<1>6. CASE /\ ~(a.cooldown > 0)
           /\ ~(load = "over" /\ a.scale > 0)
           /\ ~(load = "under" /\ a.scale < Scales - 1 /\ a.lockout = 0)
  <2>1. h = a
    BY <1>6 DEF Update
  <2> QED BY <1>2, <2>1
<1>7. a.cooldown = 0 \/ a.cooldown > 0
  BY <1>2 DEF Governors
<1> QED BY <1>3, <1>4, <1>5, <1>6, <1>7

\* Every frame keeps raises apart, by the lockout or the probe.
LEMMA GovernorStep ==
    ASSUME GovernorInv, GovernorFrame
    PROVE  GovernorInv'
<1>0. /\ RaiseProbe \in Nat \ {0} /\ RaiseLockout \in Nat /\ Scales \in Nat
      /\ RaiseProbe <= RaiseLockout
  BY GovernorAssumption DEF GovernorAssumption
<1>1. PICK load : governor' = Update(Advanced(governor), load)
  BY DEF GovernorFrame
<1>2. raisedAgo' = [s \in Steps |->
          IF s = governor.scale /\ governor'.scale > s THEN 0 ELSE Up(raisedAgo[s])]
  BY DEF GovernorFrame
<1> DEFINE up == Up(governor.sinceRaise)
           cooled == Down(governor.lockout)
<1>3. /\ governor \in Governors /\ governor' \in Governors
      /\ \/ governor'.scale = governor.scale /\ governor'.sinceRaise = up
            /\ governor'.lockout = cooled
         \/ /\ governor'.scale = governor.scale - 1 /\ governor.scale > 0
            /\ governor'.sinceRaise = up
            /\ governor'.lockout = IF up < RaiseProbe THEN RaiseLockout ELSE cooled
         \/ /\ governor'.scale = governor.scale + 1 /\ governor'.sinceRaise = 0
            /\ governor'.lockout = 0 /\ cooled = 0
  BY <1>1, FrameCases DEF GovernorInv
<1>4. /\ governor.scale \in Nat /\ governor.lockout \in Nat
      /\ governor.sinceRaise \in 0..RaiseProbe
      /\ governor'.scale \in Nat /\ governor'.lockout \in Nat
  BY <1>0, <1>3 DEF Governors
<1>5. ASSUME NEW s \in Steps
      PROVE  /\ raisedAgo'[s] \in 0..RaiseProbe
             /\ governor'.sinceRaise <= raisedAgo'[s]
             /\ s >= governor'.scale =>
                    raisedAgo'[s] + governor'.lockout >= RaiseProbe
  <2>1. /\ raisedAgo[s] \in 0..RaiseProbe /\ s \in Nat
        /\ governor.sinceRaise <= raisedAgo[s]
        /\ s >= governor.scale => raisedAgo[s] + governor.lockout >= RaiseProbe
    BY <1>0 DEF GovernorInv, Steps
  <2> DEFINE ago == Up(raisedAgo[s])
  <2>2. /\ ago \in 0..RaiseProbe
        /\ ago = RaiseProbe \/ ago = raisedAgo[s] + 1
        /\ up \in 0..RaiseProbe /\ up <= ago
        /\ cooled \in Nat
        /\ cooled > 0 \/ governor.lockout > 1 => cooled = governor.lockout - 1
    BY <1>4, <2>1, Counters
  <2>3. raisedAgo'[s] = IF s = governor.scale /\ governor'.scale > s
                        THEN 0 ELSE ago
    BY <1>2
  <2>4. s >= governor.scale => ago + cooled >= RaiseProbe
    BY <1>0, <1>4, <2>1, <2>2
  <2> HIDE DEF up, cooled, ago
  <2>5. CASE governor'.scale = governor.scale /\ governor'.sinceRaise = up
             /\ governor'.lockout = cooled
    BY <1>0, <1>4, <2>1, <2>2, <2>3, <2>4, <2>5
  <2>6. CASE /\ governor'.scale = governor.scale - 1 /\ governor.scale > 0
             /\ governor'.sinceRaise = up
             /\ governor'.lockout = IF up < RaiseProbe THEN RaiseLockout ELSE cooled
    BY <1>0, <1>4, <2>1, <2>2, <2>3, <2>4, <2>6
  <2>7. CASE /\ governor'.scale = governor.scale + 1 /\ governor'.sinceRaise = 0
             /\ governor'.lockout = 0 /\ cooled = 0
    BY <1>0, <1>4, <2>1, <2>2, <2>3, <2>4, <2>7
  <2> QED BY <1>3, <2>5, <2>6, <2>7 DEF up, cooled
<1>6. raisedAgo' \in [Steps -> 0..RaiseProbe]
  BY <1>2, <1>5
<1> QED BY <1>3, <1>5, <1>6 DEF GovernorInv

\* The scale does not flap, whatever the frame times do.
THEOREM RaisesStayApart == GovernorSpec => RaisesAreApart
<1>0. /\ RaiseProbe \in Nat \ {0} /\ Scales \in Nat /\ Scales > 2
  BY GovernorAssumption DEF GovernorAssumption
<1>1. GovernorInit => GovernorInv
  BY <1>0 DEF GovernorInit, NewGovernor, GovernorInv, Governors, Steps
<1>2. GovernorInv /\ [GovernorFrame]_governorVars => GovernorInv'
  BY GovernorStep DEF governorVars, GovernorInv
<1>3. GovernorInv /\ [GovernorFrame]_governorVars =>
        [\A s \in Steps : governor.scale = s /\ governor'.scale = s + 1 =>
             raisedAgo[s] + 1 >= RaiseProbe]_governorVars
  <2> SUFFICES ASSUME GovernorInv, GovernorFrame, NEW s \in Steps,
                      governor.scale = s, governor'.scale = s + 1
               PROVE  raisedAgo[s] + 1 >= RaiseProbe
    OBVIOUS
  <2>1. PICK load : governor' = Update(Advanced(governor), load)
    BY DEF GovernorFrame
  <2>2. governor \in Governors /\ s \in Nat /\ raisedAgo[s] \in 0..RaiseProbe
    BY <1>0 DEF GovernorInv, Steps
  <2>3. Down(governor.lockout) = 0
    BY <2>1, <2>2, FrameCases
  <2>4. governor.lockout \in Nat /\ governor.lockout <= 1
    BY <2>2, <2>3 DEF Down, Governors
  <2>5. raisedAgo[s] + governor.lockout >= RaiseProbe
    BY <2>2 DEF GovernorInv
  <2> QED BY <1>0, <2>2, <2>4, <2>5
<1> QED BY <1>1, <1>2, <1>3, PTL DEF GovernorSpec, RaisesAreApart

-----------------------------------------------------------------------------
\* Where an eye may be.
Place == [x : Int, y : Int, z : Int]

\* Every box is where the index looks for it, or in the list of the others.
Indexed ==
  /\ \A i \in DOMAIN boxes : boxes[i] \in Boxes
  /\ fallback = {i \in DOMAIN boxes : ~IsIndexed(boxes[i])}
  /\ \A c \in DOMAIN occupiedCells : occupiedCells[c] \subseteq DOMAIN boxes
  /\ \A c \in DOMAIN centerCells : centerCells[c] \subseteq DOMAIN boxes
  /\ \A i \in DOMAIN boxes \ fallback :
       /\ \A c \in CellsOf(boxes[i]) : c \in DOMAIN occupiedCells /\ i \in occupiedCells[c]
       /\ CenterCell(boxes[i]) \in DOMAIN centerCells /\ i \in centerCells[CenterCell(boxes[i])]

LocomotionInv ==
  /\ Indexed
  /\ player \in [at : Place, forward : -25..25, strafe : -25..25]
  /\ way.from \in Place /\ way.corner \in Place /\ way.to \in Place
  /\ WayIsClear /\ StepsAreCounted

\* A place is in the cell its quotient names.
LEMMA Floor ==
  ASSUME NEW n \in Int
  PROVE  /\ n \div CellSize \in Int
         /\ CellSize * (n \div CellSize) <= n
         /\ n < CellSize * (n \div CellSize) + CellSize
BY DEF CellSize

(* Cells are in the order of coordinates.                                  *)
LEMMA CellsInOrder ==
  ASSUME NEW a \in Int, NEW b \in Int, a <= b
  PROVE  a \div CellSize <= b \div CellSize
<1> DEFINE m == a \div CellSize
           n == b \div CellSize
<1>1. /\ m \in Int /\ 800 * m <= a
      /\ n \in Int /\ b < 800 * n + 800
  BY Floor DEF CellSize
<1> HIDE DEF m, n
<1>2. m <= n
  BY <1>1
<1> QED BY <1>2 DEF m, n

(* Boxes that overlap have a cell in common.                               *)
LEMMA SharedCell ==
  ASSUME NEW a \in Boxes, NEW b \in Boxes, Overlap(a, b),
         a.minX <= a.maxX, a.minZ <= a.maxZ, b.minX <= b.maxX, b.minZ <= b.maxZ
  PROVE  \E c \in CellsOf(a) : c \in CellsOf(b)
<1> DEFINE x == Larger(a.minX, b.minX)
           z == Larger(a.minZ, b.minZ)
<1>1. /\ a.minX \in Int /\ a.maxX \in Int /\ a.minZ \in Int /\ a.maxZ \in Int
      /\ b.minX \in Int /\ b.maxX \in Int /\ b.minZ \in Int /\ b.maxZ \in Int
  BY DEF Boxes
<1>2. /\ x \in Int /\ a.minX <= x /\ x <= a.maxX /\ b.minX <= x /\ x <= b.maxX
      /\ z \in Int /\ a.minZ <= z /\ z <= a.maxZ /\ b.minZ <= z /\ z <= b.maxZ
  BY <1>1 DEF Overlap, Larger
<1> HIDE DEF x, z
<1>3. /\ a.minX \div CellSize \in Int /\ a.maxX \div CellSize \in Int
      /\ b.minX \div CellSize \in Int /\ b.maxX \div CellSize \in Int
      /\ a.minZ \div CellSize \in Int /\ a.maxZ \div CellSize \in Int
      /\ b.minZ \div CellSize \in Int /\ b.maxZ \div CellSize \in Int
      /\ x \div CellSize \in Int /\ z \div CellSize \in Int
  BY <1>1, <1>2, Floor
<1>4. /\ a.minX \div CellSize <= x \div CellSize /\ x \div CellSize <= a.maxX \div CellSize
      /\ b.minX \div CellSize <= x \div CellSize /\ x \div CellSize <= b.maxX \div CellSize
  BY <1>1, <1>2, CellsInOrder
<1>5. /\ a.minZ \div CellSize <= z \div CellSize /\ z \div CellSize <= a.maxZ \div CellSize
      /\ b.minZ \div CellSize <= z \div CellSize /\ z \div CellSize <= b.maxZ \div CellSize
  BY <1>1, <1>2, CellsInOrder
<1>6. /\ <<x \div CellSize, z \div CellSize>> \in CellsOf(a)
      /\ <<x \div CellSize, z \div CellSize>> \in CellsOf(b)
  BY <1>3, <1>4, <1>5 DEF CellsOf, CellsBetween
<1> QED BY <1>6

\* The player's box is a box.
LEMMA PlayerBoxes ==
  ASSUME NEW p \in Place
  PROVE  /\ PlayerBox(p) \in Boxes
         /\ PlayerBox(p).minX <= PlayerBox(p).maxX /\ PlayerBox(p).minZ <= PlayerBox(p).maxZ
BY DEF Place, PlayerBox, Boxes, Radius, EyeToFeet, EyeToHead

\* The index finds a collision just when some box overlaps the player.
LEMMA CollisionsAreFound ==
  ASSUME Indexed, NEW p \in Place
  PROVE  Collides(p) <=> Blocked(p)
<1>1. ASSUME Collides(p) PROVE Blocked(p)
  BY <1>1 DEF Indexed, Collides, Blocked
<1>2. ASSUME NEW i \in DOMAIN boxes, Overlap(PlayerBox(p), boxes[i]) PROVE Collides(p)
  <2>1. CASE i \in fallback
    BY <1>2, <2>1 DEF Collides
  <2>2. CASE i \notin fallback
    <3>1. boxes[i] \in Boxes /\ IsIndexed(boxes[i])
      BY <2>2 DEF Indexed
    <3>2. boxes[i].minX <= boxes[i].maxX /\ boxes[i].minZ <= boxes[i].maxZ
      BY <3>1 DEF IsIndexed
    <3>3. PICK c \in CellsOf(PlayerBox(p)) : c \in CellsOf(boxes[i])
      BY <1>2, <3>1, <3>2, PlayerBoxes, SharedCell
    <3>4. c \in DOMAIN occupiedCells /\ i \in occupiedCells[c]
      BY <2>2, <3>3 DEF Indexed
    <3> QED BY <1>2, <3>3, <3>4 DEF Collides
  <2> QED BY <2>1, <2>2
<1> QED BY <1>1, <1>2 DEF Blocked

(* What is within a radius is so on either axis.                           *)
LEMMA OnOneAxis ==
  ASSUME NEW d \in Int, NEW e \in Int, WithinRadius(d, e)
  PROVE  -2 * EnclosureRadius <= d /\ d <= 2 * EnclosureRadius
<1>1. 4 * EnclosureRadius * EnclosureRadius = 5760000
  BY DEF EnclosureRadius
<1>2. e * e >= 0
  OBVIOUS
<1>3. d * d <= 5760000
  <2> DEFINE dd == d * d
             ee == e * e
  <2>1. dd \in Int /\ ee \in Int /\ dd + ee <= 5760000 /\ ee >= 0
    BY <1>1, <1>2 DEF WithinRadius
  <2> HIDE DEF dd, ee
  <2>2. dd <= 5760000
    BY <2>1
  <2> QED BY <2>2 DEF dd
<1>4. d > 2400 => d * d > 5760000
  OBVIOUS
<1>5. d < -2400 => d * d > 5760000
  OBVIOUS
<1> QED BY <1>3, <1>4, <1>5 DEF EnclosureRadius

\* A centre within the radius is in a cell of the square that is looked at.
LEMMA DoubleCell ==
  ASSUME NEW n \in Int, NEW m \in Int,
         -2 * EnclosureRadius <= n - 2 * m, n - 2 * m <= 2 * EnclosureRadius
  PROVE  /\ n \div (2 * CellSize) \in Int
         /\ (m - EnclosureRadius) \div CellSize <= n \div (2 * CellSize)
         /\ n \div (2 * CellSize) <= (m + EnclosureRadius) \div CellSize
<1> DEFINE c == n \div (2 * CellSize)
           low == (m - EnclosureRadius) \div CellSize
           high == (m + EnclosureRadius) \div CellSize
<1>1. c \in Int /\ 1600 * c <= n /\ n < 1600 * c + 1600
  BY DEF CellSize
<1>2. /\ low \in Int /\ 800 * low <= m - 1200
      /\ high \in Int /\ m + 1200 < 800 * high + 800
  BY Floor DEF CellSize, EnclosureRadius
<1>3. 2 * m - 2400 <= n /\ n <= 2 * m + 2400
  BY DEF EnclosureRadius
<1> HIDE DEF c, low, high
<1>4. low <= c /\ c <= high
  BY <1>1, <1>2, <1>3
<1> QED BY <1>1, <1>4 DEF c, low, high

\* The index finds the centres within the radius, and no others.
LEMMA CentersAreCounted ==
  ASSUME Indexed, NEW p \in Place
  PROVE  CentersWithin(p) = {i \in DOMAIN boxes : CenterWithin(boxes[i], p)}
<1>1. ASSUME NEW i \in CentersWithin(p)
      PROVE  i \in DOMAIN boxes /\ CenterWithin(boxes[i], p)
  BY <1>1 DEF CentersWithin, Indexed
<1>2. ASSUME NEW i \in DOMAIN boxes, CenterWithin(boxes[i], p) PROVE i \in CentersWithin(p)
  <2>1. CASE i \in fallback
    BY <1>2, <2>1 DEF CentersWithin
  <2>2. CASE i \notin fallback
    <3> DEFINE b == boxes[i]
               cx == b.minX + b.maxX
               cz == b.minZ + b.maxZ
               dx == cx - 2 * p.x
               dz == cz - 2 * p.z
    <3>1. p.x \in Int /\ p.z \in Int /\ cx \in Int /\ cz \in Int
      BY DEF Indexed, Boxes, Place
    <3>2. WithinRadius(dx, dz)
      BY <1>2 DEF CenterWithin
    <3> HIDE DEF b, cx, cz
    <3>3. /\ dx \in Int /\ dz \in Int
          /\ WithinRadius(dz, dx)
      <4>1. dx \in Int /\ dz \in Int
        BY <3>1
      <4> DEFINE s == dx * dx
                 t == dz * dz
      <4>2. s \in Int /\ t \in Int
        BY <4>1
      <4> HIDE DEF s, t
      <4>3. s + t = t + s
        BY <4>2
      <4> QED BY <3>2, <4>1, <4>3 DEF s, t, WithinRadius
    <3> HIDE DEF dx, dz
    <3>4. /\ -2 * EnclosureRadius <= dx /\ dx <= 2 * EnclosureRadius
          /\ -2 * EnclosureRadius <= dz /\ dz <= 2 * EnclosureRadius
      BY <3>2, <3>3, OnOneAxis
    <3>6. /\ cx \div (2 * CellSize) \in Int
          /\ (p.x - EnclosureRadius) \div CellSize <= cx \div (2 * CellSize)
          /\ cx \div (2 * CellSize) <= (p.x + EnclosureRadius) \div CellSize
      BY <3>1, <3>4, DoubleCell DEF dx, dz
    <3>7. /\ cz \div (2 * CellSize) \in Int
          /\ (p.z - EnclosureRadius) \div CellSize <= cz \div (2 * CellSize)
          /\ cz \div (2 * CellSize) <= (p.z + EnclosureRadius) \div CellSize
      BY <3>1, <3>4, DoubleCell DEF dx, dz
    <3>8. /\ (p.x - EnclosureRadius) \div CellSize \in Int /\ (p.x + EnclosureRadius) \div CellSize \in Int
          /\ (p.z - EnclosureRadius) \div CellSize \in Int /\ (p.z + EnclosureRadius) \div CellSize \in Int
      BY <3>1, Floor DEF EnclosureRadius
    <3>9. CenterCell(b) \in CellsBetween(p.x - EnclosureRadius, p.z - EnclosureRadius,
                                         p.x + EnclosureRadius, p.z + EnclosureRadius)
      BY <3>6, <3>7, <3>8 DEF CenterCell, CellsBetween, cx, cz
    <3>10. CenterCell(b) \in DOMAIN centerCells /\ i \in centerCells[CenterCell(b)]
      BY <2>2 DEF Indexed, b
    <3> QED BY <1>2, <3>9, <3>10 DEF CentersWithin, b
  <2> QED BY <2>1, <2>2
<1> QED BY <1>1, <1>2 DEF CentersWithin

-----------------------------------------------------------------------------
\* A step on one axis is bounded by the clamp of the frame.
LEMMA ShiftBound ==
  ASSUME NEW v \in -25..25, NEW w \in -25..25, NEW h \in -5..5, NEW k \in -5..5, NEW dt \in 0..2
  PROVE  Cut((h * v - k * w) * dt, 5) \in -100..100
<1> DEFINE n == (h * v - k * w) * dt
<1>1. h * v \in -125..125 /\ k * w \in -125..125
  OBVIOUS
<1>2. n \in Int /\ -500 <= n /\ n <= 500
  <2> DEFINE hv == h * v
             kw == k * w
  <2>1. hv \in -125..125 /\ kw \in -125..125
    BY <1>1
  <2> HIDE DEF hv, kw
  <2>2. (hv - kw) * dt \in Int /\ -500 <= (hv - kw) * dt /\ (hv - kw) * dt <= 500
    <3>1. CASE dt = 0
      BY <2>1, <3>1
    <3>2. CASE dt = 1
      BY <2>1, <3>2
    <3>3. CASE dt = 2
      BY <2>1, <3>3
    <3> QED BY <3>1, <3>2, <3>3
  <2> QED BY <2>2 DEF hv, kw
<1> HIDE DEF n
<1>3. Cut(n, 5) \in -100..100
  BY <1>2 DEF Cut
<1> QED BY <1>3 DEF n

\* Friction takes from the speed what a wish can add.
LEMMA SpeedBound ==
  ASSUME NEW v \in -25..25, NEW w \in -10..10, NEW dt \in 0..2, NEW e \in 5..100
  PROVE  Speed(v, w, dt, e) \in -25..25
<1> DEFINE we == w * e
           damped == Cut(v * (5 - 2 * dt), 5)
           pushed == Cut(w * e * dt, 100)
<1>1. we \in -1000..1000 /\ w * e * dt = we * dt
  OBVIOUS
<1> HIDE DEF we
<1>2. CASE dt = 0
  <2>1. damped \in -25..25 /\ pushed = 0
    BY <1>1, <1>2 DEF Cut
  <2> QED BY <2>1 DEF Speed
<1>3. CASE dt = 1
  <2>1. damped \in -15..15 /\ pushed \in -10..10
    BY <1>1, <1>3 DEF Cut
  <2> QED BY <2>1 DEF Speed
<1>4. CASE dt = 2
  <2>1. damped \in -5..5 /\ pushed \in -20..20
    BY <1>1, <1>4 DEF Cut
  <2> QED BY <2>1 DEF Speed
<1> QED BY <1>2, <1>3, <1>4

\* A step along x between two clear ends is clear, since no box fits between them.
LEMMA ClearAlongX ==
  ASSUME NEW p \in Place, NEW d \in -139..139, NEW b \in Boxes, b.minX <= b.maxX, b.minZ <= b.maxZ,
         NEW q, q = [p EXCEPT !.x = @ + d],
         ~Overlap(PlayerBox(p), b), ~Overlap(PlayerBox(q), b)
  PROVE  ~Overlap(Sweep(p, q), b)
<1>1. /\ p.x \in Int /\ p.y \in Int /\ p.z \in Int
      /\ q.x = p.x + d /\ q.y = p.y /\ q.z = p.z
  BY DEF Place
<1>2. /\ b.minX \in Int /\ b.minY \in Int /\ b.minZ \in Int
      /\ b.maxX \in Int /\ b.maxY \in Int /\ b.maxZ \in Int
  BY DEF Boxes
<1> QED BY <1>1, <1>2 DEF Overlap, PlayerBox, Sweep, Lesser, Larger, Radius

\* And so is one along z.
LEMMA ClearAlongZ ==
  ASSUME NEW p \in Place, NEW d \in -139..139, NEW b \in Boxes, b.minX <= b.maxX, b.minZ <= b.maxZ,
         NEW q, q = [p EXCEPT !.z = @ + d],
         ~Overlap(PlayerBox(p), b), ~Overlap(PlayerBox(q), b)
  PROVE  ~Overlap(Sweep(p, q), b)
<1>1. /\ p.x \in Int /\ p.y \in Int /\ p.z \in Int
      /\ q.x = p.x /\ q.y = p.y /\ q.z = p.z + d
  BY DEF Place
<1>2. /\ b.minX \in Int /\ b.minY \in Int /\ b.minZ \in Int
      /\ b.maxX \in Int /\ b.maxY \in Int /\ b.maxZ \in Int
  BY DEF Boxes
<1> QED BY <1>1, <1>2 DEF Overlap, PlayerBox, Sweep, Lesser, Larger, Radius

\* Who stands still sweeps what they stand in.
LEMMA StandingIsClear ==
  ASSUME NEW p \in Place, NEW b \in Boxes, ~Overlap(PlayerBox(p), b)
  PROVE  ~Overlap(Sweep(p, p), b)
BY DEF Place, Boxes, Overlap, PlayerBox, Sweep, Lesser, Larger

Proper == {j \in DOMAIN boxes : boxes[j].minX <= boxes[j].maxX /\ boxes[j].minZ <= boxes[j].maxZ}
IsClear(w) ==
  /\ w.from \in Place /\ w.corner \in Place /\ w.to \in Place
  /\ Blocked(w.from) \/ \A i \in Proper : /\ ~Overlap(Sweep(w.from, w.corner), boxes[i])
                                          /\ ~Overlap(Sweep(w.corner, w.to), boxes[i])
  /\ w.to.x - w.from.x \in -100..100 /\ w.to.z - w.from.z \in -100..100

(* A slide that starts in the clear stays there: on each axis the player   *)
(* stands still, or both ends are clear and nothing fits between them,     *)
(* since a step is shorter than the player is wide.                        *)
LEMMA SlidesAreClear ==
  ASSUME Indexed, NEW p \in Place, NEW dx \in -100..100, NEW dz \in -100..100
  PROVE  IsClear(Slid(p, dx, dz))
<1> DEFINE beside == [p EXCEPT !.x = @ + dx]
           corner == IF Collides(beside) THEN p ELSE beside
           ahead == [corner EXCEPT !.z = @ + dz]
           to == IF Collides(ahead) THEN corner ELSE ahead
<1>1. Slid(p, dx, dz) = [from |-> p, corner |-> corner, to |-> to]
  BY DEF Slid
<1>2. beside \in Place /\ corner \in Place
  BY DEF Place
<1>3. ahead \in Place /\ to \in Place
  BY <1>2 DEF Place
<1>4. /\ corner.x - p.x \in -100..100 /\ corner.z = p.z
      /\ to.x = corner.x /\ to.z - corner.z \in -100..100
  BY <1>2, <1>3 DEF Place
<1>5. to.x - p.x \in -100..100 /\ to.z - p.z \in -100..100
  BY <1>4
<1> HIDE DEF to
<1>6. ASSUME ~Blocked(p), NEW i \in Proper
      PROVE  /\ ~Overlap(Sweep(p, corner), boxes[i])
             /\ ~Overlap(Sweep(corner, to), boxes[i])
  <2>1. /\ boxes[i] \in Boxes /\ boxes[i].minX <= boxes[i].maxX /\ boxes[i].minZ <= boxes[i].maxZ
        /\ i \in DOMAIN boxes
    BY DEF Proper, Indexed
  <2>2. ~Overlap(PlayerBox(p), boxes[i])
    BY <1>6, <2>1 DEF Blocked
  <2>3. /\ ~Overlap(Sweep(p, corner), boxes[i])
        /\ ~Overlap(PlayerBox(corner), boxes[i])
    <3>1. CASE Collides(beside)
      BY <2>1, <2>2, <3>1, StandingIsClear
    <3>2. CASE ~Collides(beside)
      <4>1. ~Overlap(PlayerBox(beside), boxes[i])
        BY <1>2, <2>1, <3>2, CollisionsAreFound DEF Blocked
      <4>2. ~Overlap(Sweep(p, beside), boxes[i])
        BY <2>1, <2>2, <4>1, ClearAlongX
      <4> QED BY <3>2, <4>1, <4>2
    <3> QED BY <3>1, <3>2
  <2> HIDE DEF corner
  <2>4. ~Overlap(Sweep(corner, to), boxes[i])
    <3>1. CASE Collides(ahead)
      BY <1>2, <2>1, <2>3, <3>1, StandingIsClear DEF to
    <3>2. CASE ~Collides(ahead)
      <4>1. ~Overlap(PlayerBox(ahead), boxes[i])
        BY <1>3, <2>1, <3>2, CollisionsAreFound DEF Blocked
      <4>2. ~Overlap(Sweep(corner, ahead), boxes[i])
        BY <1>2, <2>1, <2>3, <4>1, ClearAlongZ
      <4> QED BY <3>2, <4>2 DEF to
    <3> QED BY <3>1, <3>2
  <2> QED BY <2>3, <2>4
<1> HIDE DEF beside, corner, ahead
<1> QED BY <1>1, <1>2, <1>3, <1>5, <1>6 DEF IsClear

\* What a clear way is.
LEMMA ClearMeans ==
  ASSUME IsClear(way)
  PROVE  /\ way.from \in Place /\ way.corner \in Place /\ way.to \in Place
         /\ WayIsClear /\ StepsAreCounted
<1>1. WayIsClear
  BY DEF IsClear, WayIsClear, Proper
<1>2. StepsAreCounted
  <2> DEFINE dx == way.to.x - way.from.x
             dz == way.to.z - way.from.z
  <2>1. dx \in -100..100 /\ dz \in -100..100
    BY DEF IsClear
  <2> HIDE DEF dx, dz
  <2>2. dx * dx <= 10000 /\ dz * dz <= 10000 /\ dx * dx \in Int /\ dz * dz \in Int
    BY <2>1
  <2>3. dx * dx + dz * dz < 200 * 200
    BY <2>2
  <2> QED BY <2>3 DEF StepsAreCounted, dx, dz
<1> QED BY <1>1, <1>2 DEF IsClear

\* A rebuilt index has every box where it is looked for.
LEMMA RebuildIsIndexed ==
  ASSUME NEW layout \in Layouts, RebuildFrom(layout)
  PROVE  Indexed'
<1> DEFINE indexed == {i \in DOMAIN layout : IsIndexed(layout[i])}
<1>1. /\ boxes' = layout
      /\ occupiedCells' = [c \in UNION {CellsOf(layout[i]) : i \in indexed} |->
                             {i \in indexed : c \in CellsOf(layout[i])}]
      /\ centerCells' = [c \in {CenterCell(layout[i]) : i \in indexed} |->
                             {i \in indexed : c = CenterCell(layout[i])}]
      /\ fallback' = DOMAIN layout \ indexed
  BY DEF RebuildFrom
<1>2. \A i \in DOMAIN layout : layout[i] \in Boxes
  BY LocomotionAssumption
<1>3. ASSUME NEW i \in DOMAIN layout \ fallback'
      PROVE  /\ \A c \in CellsOf(layout[i]) : c \in DOMAIN occupiedCells' /\ i \in occupiedCells'[c]
             /\ CenterCell(layout[i]) \in DOMAIN centerCells' /\ i \in centerCells'[CenterCell(layout[i])]
  <2>1. i \in indexed
    BY <1>1
  <2> QED BY <1>1, <2>1
<1>4. /\ \A c \in DOMAIN occupiedCells' : occupiedCells'[c] \subseteq DOMAIN layout
      /\ \A c \in DOMAIN centerCells' : centerCells'[c] \subseteq DOMAIN layout
  BY <1>1
<1>5. fallback' = {i \in DOMAIN layout : ~IsIndexed(layout[i])}
  BY <1>1
<1> HIDE DEF indexed
<1> QED BY <1>1, <1>2, <1>3, <1>4, <1>5 DEF Indexed

(* Whatever the display, the body and the keys say.                        *)
LEMMA WalksAreClear ==
  ASSUME LocomotionInv,
         NEW time \in FrameTimes, NEW heading \in Headings, NEW intent \in Intents,
         NEW effort \in Efforts, Walk(time, heading, intent, effort)
  PROVE  LocomotionInv'
<1> DEFINE dt == FrameTime(time)
           e == Effort(effort)
           forward == Speed(player.forward, Wish(intent).forward, dt, e)
           strafe == Speed(player.strafe, Wish(intent).strafe, dt, e)
           dx == Cut((heading.cos * strafe - heading.sin * forward) * dt, 5)
           dz == Cut(((-heading.cos) * forward - heading.sin * strafe) * dt, 5)
<1>1. dt \in 0..2 /\ e \in 5..100
  BY LocomotionAssumption DEF FrameTime, Effort, Lesser, Larger, LongestFrame
<1>2. Wish(intent).forward \in -10..10 /\ Wish(intent).strafe \in -10..10
  <2>1. intent.forward \in -1..1 /\ intent.strafe \in -1..1
    BY LocomotionAssumption
  <2> QED BY <2>1 DEF Wish
<1>3. heading.cos \in -5..5 /\ heading.sin \in -5..5 /\ -heading.cos \in -5..5
  BY LocomotionAssumption
<1>4. forward \in -25..25 /\ strafe \in -25..25
  BY <1>1, <1>2, SpeedBound DEF LocomotionInv
<1>5. way' = Slid(player.at, dx, dz) /\ player' = [at |-> way'.to, forward |-> forward, strafe |-> strafe]
  BY DEF Walk
<1>6. boxes' = boxes /\ UNCHANGED <<occupiedCells, centerCells, fallback>>
  BY DEF Walk, collisionWorld
<1> HIDE DEF dt, e, forward, strafe
<1>7. dx \in -100..100 /\ dz \in -100..100
  BY <1>1, <1>3, <1>4, ShiftBound
<1> HIDE DEF dx, dz
<1>8. Indexed /\ player.at \in Place
  BY DEF LocomotionInv
<1>9. IsClear(Slid(player.at, dx, dz))
  BY <1>7, <1>8, SlidesAreClear
<1>10. Indexed'
  BY <1>6, <1>8 DEF Indexed
<1>11. IsClear(way)'
  BY <1>5, <1>6, <1>9 DEF IsClear, Blocked, Proper
<1>12. /\ (way.from \in Place)' /\ (way.corner \in Place)' /\ (way.to \in Place)'
       /\ WayIsClear' /\ StepsAreCounted'
  BY <1>11, ClearMeans, PTL
<1> QED BY <1>4, <1>5, <1>10, <1>12 DEF LocomotionInv

\* A step that moves nobody keeps the invariant.
LEMMA OthersAreClear ==
  ASSUME Indexed', player' \in [at : Place, forward : -25..25, strafe : -25..25],
         way' = Stay(player.at')
  PROVE  LocomotionInv'
<1>1. IsClear(way)'
  <2> DEFINE p == player.at'
  <2>1. p \in Place /\ way'.from = p /\ way'.corner = p /\ way'.to = p
    BY DEF Stay
  <2>2. ASSUME ~Blocked(way.from)', NEW i \in Proper'
        PROVE  ~Overlap(Sweep(p, p), boxes'[i])
    <3>1. boxes'[i] \in Boxes /\ i \in DOMAIN boxes'
      BY DEF Indexed, Proper
    <3>2. ~Overlap(PlayerBox(p), boxes'[i])
      BY <2>1, <2>2, <3>1 DEF Blocked
    <3> QED BY <2>1, <3>1, <3>2, StandingIsClear
  <2>3. p.x - p.x \in -100..100 /\ p.z - p.z \in -100..100
    BY <2>1 DEF Place
  <2> HIDE DEF p
  <2> QED BY <2>1, <2>2, <2>3 DEF IsClear
<1>2. /\ (way.from \in Place)' /\ (way.corner \in Place)' /\ (way.to \in Place)'
      /\ WayIsClear' /\ StepsAreCounted'
  BY <1>1, ClearMeans, PTL
<1> QED BY <1>2 DEF LocomotionInv

(* The index is exact, and no frame takes a player in the clear into a box *)
(* or through one, or further than the pedometer counts (player.rs:130-140,*)
(* collision.rs:82-184), whatever is streamed and wherever they are put.   *)
THEOREM WalksStayOut == LocomotionSpec => []WalksKeepOut
<1>1. LocomotionInit => LocomotionInv
  <2> SUFFICES ASSUME LocomotionInit PROVE LocomotionInv
    OBVIOUS
  <2>1. PICK p \in Arrivals : player = [at |-> p, forward |-> 0, strafe |-> 0] /\ way = Stay(p)
    BY DEF LocomotionInit
  <2>2. p \in Place
    BY LocomotionAssumption DEF Place
  <2>3. DOMAIN boxes = {} /\ DOMAIN occupiedCells = {} /\ DOMAIN centerCells = {} /\ fallback = {}
    BY DEF LocomotionInit, NoBoxes
  <2>4. Indexed
    BY <2>3 DEF Indexed
  <2>5. WayIsClear /\ StepsAreCounted
    BY <2>1, <2>2, <2>3 DEF WayIsClear, StepsAreCounted, Stay, Place
  <2> QED BY <2>1, <2>2, <2>4, <2>5 DEF LocomotionInv, Stay
<1>2. LocomotionInv /\ [LocomotionNext]_locomotionVars => LocomotionInv'
  <2> SUFFICES ASSUME LocomotionInv, [LocomotionNext]_locomotionVars PROVE LocomotionInv'
    OBVIOUS
  <2> USE DEF LocomotionInv
  <2>1. CASE UNCHANGED locomotionVars
    BY <2>1 DEF locomotionVars, collisionWorld, Indexed, WayIsClear, Blocked, StepsAreCounted
  <2>2. ASSUME NEW time \in FrameTimes, NEW heading \in Headings, NEW intent \in Intents,
               NEW effort \in Efforts, Walk(time, heading, intent, effort)
        PROVE  LocomotionInv'
    BY <2>2, WalksAreClear
  <2>3. CASE Rebuild
    <3>1. Indexed'
      BY <2>3, RebuildIsIndexed DEF Rebuild
    <3>2. player' = player /\ way' = Stay(player.at')
      BY <2>3 DEF Rebuild
    <3> QED BY <3>1, <3>2, OthersAreClear
  <2>4. ASSUME NEW p \in Arrivals, Relocate(p) \/ Teleport(p)
        PROVE  LocomotionInv'
    <3>1. p \in Place
      BY LocomotionAssumption DEF Place
    <3>2. UNCHANGED collisionWorld /\ way' = Stay(p)
      BY <2>4 DEF Relocate, Teleport
    <3>3. Indexed'
      BY <3>2 DEF collisionWorld, Indexed
    <3>4. player' \in [at : Place, forward : -25..25, strafe : -25..25] /\ player'.at = p
      <4>1. CASE Relocate(p)
        BY <3>1, <4>1 DEF Relocate
      <4>2. CASE Teleport(p)
        BY <3>1, <4>2 DEF Teleport
      <4> QED BY <2>4, <4>1, <4>2
    <3> QED BY <3>1, <3>2, <3>3, <3>4, OthersAreClear
  <2> QED BY <2>1, <2>2, <2>3, <2>4 DEF LocomotionNext
<1>3. LocomotionInv => WalksKeepOut
  BY CollisionsAreFound, CentersAreCounted DEF LocomotionInv, WalksKeepOut, IndexIsExact
<1> QED BY <1>1, <1>2, <1>3, PTL DEF LocomotionSpec

-----------------------------------------------------------------------------
(* Session: keys *)

\* The key tables name acts and directions that exist.
LEMMA KeyTables ==
    ASSUME NEW code, NEW d
    PROVE  /\ Triggers(code) \in SUBSET Acts
           /\ Steers(code, d) \in SUBSET Directions
<1>1. /\ DOMAIN ActOf = {"KeyG", "KeyR", "KeyT"}
      /\ \A c \in DOMAIN ActOf : ActOf[c] \in Acts
  BY DEF ActOf, Acts
<1>2. \A c \in DOMAIN Common : Common[c] \in Directions
  BY DEF Common, Directions, Walking
<1>3. \A c \in DOMAIN Modern : Modern[c] \in Directions
  BY DEF Modern, Directions, Walking, Turning
<1>4. \A c \in DOMAIN Doom : Doom[c] \in Directions
  BY DEF Doom, Directions, Walking, Turning
<1> QED BY <1>1, <1>2, <1>3, <1>4 DEF Triggers, Steers, Swapped

\* No two keys trigger the same act.
LEMMA OneKeyPerAct ==
    ASSUME NEW c1, NEW c2, c1 # c2
    PROVE  Triggers(c1) \cap Triggers(c2) = {}
<1>1. \A a, b \in DOMAIN ActOf : a # b => ActOf[a] # ActOf[b]
  BY DEF ActOf
<1> QED BY <1>1 DEF Triggers

-----------------------------------------------------------------------------
(* Session: types *)

Inputs == [intent : SUBSET Directions, locked : BOOLEAN,
           queued : SUBSET Acts, held : SUBSET Acts]
Touches == [active : BOOLEAN, move : Fingers \cup {None},
            look : Fingers \cup {None}]

\* Every operation on the collector keeps its type.
LEMMA CollectorTypes ==
    ASSUME NEW in \in Inputs
    PROVE  /\ \A code \in Keys, pressed \in BOOLEAN :
                  KeyEvent(in, code, pressed) \in Inputs
           /\ \A directions \in SUBSET Walking :
                  SetMoveAxes(in, directions) \in Inputs
           /\ \A act \in Acts : Queue(in, act) \in Inputs
           /\ \A locked \in BOOLEAN : SetLocked(in, locked) \in Inputs
           /\ TakeFrame(in) \in Inputs
           /\ FrameOf(in) \in SUBSET Acts
<1>1. \A code \in Keys, pressed \in BOOLEAN :
          KeyEvent(in, code, pressed) \in Inputs
  <2> SUFFICES ASSUME NEW code \in Keys, NEW pressed \in BOOLEAN
               PROVE  KeyEvent(in, code, pressed) \in Inputs
    OBVIOUS
  <2>1. Triggers(code) \in SUBSET Acts /\ Steers(code, doom) \in SUBSET Directions
    BY KeyTables
  <2> QED BY <2>1 DEF KeyEvent, Inputs
<1>2. \A directions \in SUBSET Walking : SetMoveAxes(in, directions) \in Inputs
  BY DEF SetMoveAxes, Inputs, Directions
<1>3. \A act \in Acts : Queue(in, act) \in Inputs
  BY DEF Queue, Inputs
<1>4. \A locked \in BOOLEAN : SetLocked(in, locked) \in Inputs
  BY DEF SetLocked, Inputs
<1>5. TakeFrame(in) \in Inputs /\ FrameOf(in) \in SUBSET Acts
  BY DEF TakeFrame, FrameOf, Inputs
<1> QED BY <1>1, <1>2, <1>3, <1>4, <1>5

\* Binding a finger and releasing one keep the touch state's type.
LEMMA TouchTypes ==
    ASSUME touch \in Touches, NEW f \in Fingers, NEW spot \in Spots
    PROVE  /\ Bound(f, spot) \in Touches
           /\ Released(f) \in Touches
<1> QED BY DEF Touches, Bound, Released

\* The directions the held keys steer in.
LEMMA SteeredTypes ==
    /\ SteeredBy(down) \in SUBSET Directions
    /\ UNION {Triggers(code) : code \in down} \in SUBSET Acts
<1> QED BY KeyTables DEF SteeredBy

\* Every variable keeps its type.
LEMMA TypeStep ==
    ASSUME TypeOK, [Next]_vars
    PROVE  TypeOK'
<1> USE SessionAssumption
<1>0. input \in Inputs /\ touch \in Touches
  BY DEF TypeOK, Inputs, Touches
<1>1. ASSUME NEW code \in Keys, KeyDown(code) PROVE TypeOK'
  <2>1. input' \in Inputs
    BY <1>0, <1>1, CollectorTypes DEF KeyDown
  <2>2. Triggers(code) \in SUBSET Acts
    BY KeyTables
  <2> QED BY <1>1, <2>1, <2>2 DEF TypeOK, KeyDown, Inputs, page
<1>2. ASSUME NEW code \in Keys, KeyUp(code) PROVE TypeOK'
  <2>1. input' \in Inputs
    BY <1>0, <1>2, CollectorTypes DEF KeyUp
  <2> QED BY <1>2, <2>1 DEF TypeOK, KeyUp, Inputs, page
<1>3. ASSUME LoseFocus PROVE TypeOK'
  BY <1>3, SteeredTypes DEF TypeOK, LoseFocus
<1>4. ASSUME SetDoomControls PROVE TypeOK'
  BY <1>4, SteeredTypes DEF TypeOK, SetDoomControls, page
<1>5. ASSUME MouseMove PROVE TypeOK'
  <2>1. input' \in Inputs
    BY <1>0, <1>5, CollectorTypes DEF MouseMove, Acts
  <2> QED BY <1>5, <2>1 DEF TypeOK, MouseMove, Inputs, Acts, page
<1>6. ASSUME ClickOverlay \/ GrantLock \/ PressEscape PROVE TypeOK'
  BY <1>6 DEF TypeOK, ClickOverlay, GrantLock, PressEscape, history
<1>7. ASSUME PointerLockChange PROVE TypeOK'
  <2>1. input' \in Inputs
    BY <1>0, <1>7, CollectorTypes DEF PointerLockChange, TypeOK
  <2>2. overlay' \in BOOLEAN /\ asked' \in SUBSET Acts
        /\ orphans' \in SUBSET Directions
    BY <1>7 DEF PointerLockChange, Leave, TypeOK
  <2> QED BY <1>7, <2>1, <2>2 DEF TypeOK, PointerLockChange, Inputs
<1>8. ASSUME TapOverlay PROVE TypeOK'
  <2>1. input' \in Inputs
    BY <1>0, <1>8, CollectorTypes DEF TapOverlay
  <2> QED BY <1>8, <2>1 DEF TypeOK, TapOverlay, Inputs, history
<1>9. ASSUME TapMenu PROVE TypeOK'
  <2>1. input' \in Inputs
    <3>1. SetLocked(input, FALSE) \in Inputs
      BY <1>0, CollectorTypes
    <3> QED BY <1>9, <3>1, CollectorTypes DEF TapMenu
  <2> QED BY <1>9, <2>1 DEF TypeOK, TapMenu, Leave, Inputs
<1>10. ASSUME NEW act \in Buttons, TapButton(act) PROVE TypeOK'
  <2>1. input' \in Inputs
    BY <1>0, <1>10, CollectorTypes DEF TapButton, SessionAssumption
  <2> QED BY <1>10, <2>1 DEF TypeOK, TapButton, Inputs, SessionAssumption, page
<1>11. ASSUME NEW f \in Fingers, NEW spot \in Spots, TouchStart(f, spot)
       PROVE  TypeOK'
  <2>1. touch' \in Touches
    BY <1>0, <1>11, TouchTypes DEF TouchStart
  <2> QED BY <1>11, <2>1 DEF TypeOK, TouchStart, Touches, Spots, page, history
<1>12. ASSUME NEW f \in Fingers, TouchMove(f) PROVE TypeOK'
  <2>1. input' \in Inputs
    BY <1>0, <1>12, CollectorTypes DEF TouchMove, SessionAssumption, Acts
  <2>2. asked' \in SUBSET Acts
    BY <1>12 DEF TouchMove, TypeOK, Acts
  <2> QED BY <1>12, <2>1, <2>2 DEF TypeOK, TouchMove, Inputs, page
<1>13. ASSUME NEW f \in Fingers, TouchEnd(f) PROVE TypeOK'
  <2>1. touch' \in Touches
    BY <1>0, <1>13, TouchTypes DEF TouchEnd, Spots
  <2>2. input' \in Inputs
    BY <1>0, <1>13, CollectorTypes DEF TouchEnd
  <2>3. abandoned' \in SUBSET Fingers
    BY <1>13 DEF TouchEnd, TypeOK
  <2> QED BY <1>13, <2>1, <2>2, <2>3 DEF TypeOK, TouchEnd, Touches, Inputs, page
<1>14. ASSUME Frame PROVE TypeOK'
  <2>1. input' \in Inputs /\ frame' \in SUBSET Acts
    BY <1>0, <1>14, CollectorTypes DEF Frame
  <2> QED BY <1>14, <2>1 DEF TypeOK, Frame, Inputs, page
<1>15. ASSUME UNCHANGED vars PROVE TypeOK'
  BY <1>15 DEF TypeOK, vars, page, history
<1> QED BY <1>1, <1>2, <1>3, <1>4, <1>5, <1>6, <1>7, <1>8, <1>9, <1>10, <1>11,
           <1>12, <1>13, <1>14, <1>15 DEF Next

-----------------------------------------------------------------------------
(* Directions *)

\* A key that goes down or up, or the joystick, steers only for as long as it
\* is held; leaving play forgets every direction.
LEMMA WalkStep ==
    ASSUME TypeOK, NoGhostWalk, [Next]_vars
    PROVE  NoGhostWalk'
<1> DEFINE Joystick == IF touch.active /\ touch.move # None
                          /\ finger[touch.move] # "up" THEN Walking ELSE {}
<1> USE SessionAssumption DEF SessionAssumption
<1>0. /\ input \in Inputs /\ touch \in Touches
      /\ finger \in [Fingers -> {"up"} \cup Spots]
      /\ input.intent \subseteq SteeredBy(down) \cup orphans \cup Joystick
  BY DEF TypeOK, Inputs, Touches, NoGhostWalk
<1>a. Walking \cap Turning = {}
  BY DEF Walking, Turning
<1>1. ASSUME NEW code \in Keys, KeyDown(code) PROVE NoGhostWalk'
  <2>1. input'.intent = input.intent \cup Steers(code, doom)
    BY <1>0, <1>1 DEF KeyDown, KeyEvent, Inputs
  <2>2. SteeredBy(down)' = SteeredBy(down) \cup Steers(code, doom)
    BY <1>1 DEF KeyDown, SteeredBy
  <2>3. Joystick' = Joystick /\ orphans' = orphans
    BY <1>1 DEF KeyDown
  <2> QED BY <1>0, <2>1, <2>2, <2>3 DEF NoGhostWalk
<1>2. ASSUME NEW code \in Keys, KeyUp(code) PROVE NoGhostWalk'
  <2>1. input'.intent = input.intent \ Steers(code, doom)
    BY <1>0, <1>2 DEF KeyUp, KeyEvent, Inputs
  <2>2. SteeredBy(down) \subseteq SteeredBy(down)' \cup Steers(code, doom)
    BY <1>2 DEF KeyUp, SteeredBy
  <2>3. Joystick' = Joystick /\ orphans' = orphans
    BY <1>2 DEF KeyUp
  <2> QED BY <1>0, <2>1, <2>2, <2>3 DEF NoGhostWalk
<1>3. ASSUME LoseFocus \/ SetDoomControls PROVE NoGhostWalk'
  <2>1. /\ input' = input /\ touch' = touch /\ finger' = finger
        /\ orphans' = orphans \cup (input.intent \cap SteeredBy(down))
    BY <1>3 DEF LoseFocus, SetDoomControls
  <2> QED BY <1>0, <2>1 DEF NoGhostWalk
<1>4. ASSUME \/ MouseMove \/ ClickOverlay \/ GrantLock \/ PressEscape \/ Frame
             \/ \E act \in Buttons : TapButton(act)
             \/ UNCHANGED vars
      PROVE  NoGhostWalk'
  <2>1. /\ input'.intent = input.intent /\ touch' = touch /\ finger' = finger
        /\ down' = down /\ doom' = doom /\ orphans' = orphans
    BY <1>0, <1>4 DEF MouseMove, ClickOverlay, GrantLock, PressEscape, Frame,
                      TapButton, Queue, TakeFrame, Inputs, history, vars
  <2> QED BY <1>0, <2>1 DEF NoGhostWalk, SteeredBy
<1>5. ASSUME PointerLockChange PROVE NoGhostWalk'
  <2>1. /\ touch' = touch /\ finger' = finger /\ down' = down /\ doom' = doom
        /\ \/ input'.intent = input.intent /\ orphans' = orphans
           \/ input'.intent = {}
    BY <1>0, <1>5 DEF PointerLockChange, SetLocked, Leave, Inputs
  <2> QED BY <1>0, <2>1 DEF NoGhostWalk, SteeredBy
<1>6. ASSUME TapOverlay PROVE NoGhostWalk'
  <2>1. /\ input'.intent = input.intent /\ finger' = finger /\ down' = down
        /\ doom' = doom /\ orphans' = orphans
        /\ touch'.active /\ touch'.move = touch.move
    BY <1>0, <1>6 DEF TapOverlay, SetLocked, Inputs, Touches, history
  <2> QED BY <1>0, <2>1 DEF NoGhostWalk, SteeredBy
<1>7. ASSUME TapMenu PROVE NoGhostWalk'
  <2>1. input'.intent = {}
    BY <1>0, <1>7 DEF TapMenu, SetLocked, SetMoveAxes, Inputs
  <2> QED BY <2>1 DEF NoGhostWalk
<1>8. ASSUME NEW f \in Fingers, NEW spot \in Spots, TouchStart(f, spot)
      PROVE  NoGhostWalk'
  <2>1. /\ input' = input /\ down' = down /\ doom' = doom /\ orphans' = orphans
    BY <1>8 DEF TouchStart, history
  <2>2. Joystick \subseteq Joystick'
    <3>1. touch'.active = touch.active
          /\ (touch.move # None => touch'.move = touch.move)
      BY <1>0, <1>8 DEF TouchStart, Bound, Touches
    <3>2. \A g \in Fingers : finger[g] # "up" => finger'[g] = finger[g]
      BY <1>0, <1>8 DEF TouchStart
    <3> QED BY <1>0, <3>1, <3>2 DEF Touches
  <2> QED BY <1>0, <2>1, <2>2 DEF NoGhostWalk, SteeredBy
<1>9. ASSUME NEW f \in Fingers, TouchMove(f) PROVE NoGhostWalk'
  <2>1. /\ down' = down /\ doom' = doom /\ orphans' = orphans
        /\ touch' = touch /\ finger' = finger
    BY <1>9 DEF TouchMove
  <2>2. CASE touch.move = f
    <3>1. PICK directions \in Deflections : input' = SetMoveAxes(input, directions)
      BY <1>9, <2>2 DEF TouchMove
    <3>2. input'.intent \subseteq (input.intent \cap Turning) \cup Walking
      BY <1>0, <3>1 DEF SetMoveAxes, Inputs
    <3>3. Joystick = Walking
      BY <1>9, <2>2 DEF TouchMove
    <3> QED BY <1>0, <2>1, <3>2, <3>3 DEF NoGhostWalk, SteeredBy
  <2>3. CASE touch.move # f
    <3>1. input'.intent = input.intent
      BY <1>0, <1>9, <2>3 DEF TouchMove, Queue, Inputs
    <3> QED BY <1>0, <2>1, <3>1 DEF NoGhostWalk, SteeredBy
  <2> QED BY <2>2, <2>3
<1>10. ASSUME NEW f \in Fingers, TouchEnd(f) PROVE NoGhostWalk'
  <2>1. /\ down' = down /\ doom' = doom /\ orphans' = orphans
        /\ finger' = [finger EXCEPT ![f] = "up"]
    BY <1>10 DEF TouchEnd
  <2>2. CASE touch.active /\ touch.move = f
    <3>1. input'.intent = input.intent \cap Turning
      BY <1>0, <1>10, <2>2 DEF TouchEnd, SetMoveAxes, Inputs
    <3> QED BY <1>0, <1>a, <2>1, <3>1 DEF NoGhostWalk, SteeredBy
  <2>3. CASE touch.active /\ touch.move # f
    <3>1. input' = input /\ touch'.active = touch.active /\ touch'.move = touch.move
      BY <1>0, <1>10, <2>3 DEF TouchEnd, Released, Touches
    <3>2. touch.move # None => finger'[touch.move] = finger[touch.move]
      BY <1>0, <2>1, <2>3 DEF Touches
    <3> QED BY <1>0, <2>1, <3>1, <3>2 DEF NoGhostWalk, SteeredBy
  <2>4. CASE ~touch.active
    <3>1. input' = input /\ touch' = touch
      BY <1>10, <2>4 DEF TouchEnd
    <3> QED BY <1>0, <2>1, <2>4, <3>1 DEF NoGhostWalk, SteeredBy
  <2> QED BY <2>2, <2>3, <2>4
<1> QED BY <1>1, <1>2, <1>3, <1>4, <1>5, <1>6, <1>7, <1>8, <1>9, <1>10 DEF Next

-----------------------------------------------------------------------------
(* Play *)

\* Touch play keeps the collector in play: why the overlay of touch play may
\* ignore what the pointer does.
PlayInv == PlayNeedsCapture /\ (touch.active => input.locked)

\* Every event keeps touch play captured.
LEMMA PlayStep ==
    ASSUME TypeOK, PlayInv, [Next]_vars
    PROVE  PlayInv'
<1> USE SessionAssumption
<1>0. /\ input \in Inputs /\ touch \in Touches
      /\ pointer \in BOOLEAN /\ notice \in BOOLEAN /\ overlay \in BOOLEAN
      /\ overlay = ~input.locked
      /\ touch.active => input.locked
      /\ input.locked /\ ~touch.active /\ ~notice => pointer
  BY DEF TypeOK, Inputs, Touches, PlayInv, PlayNeedsCapture
<1> DEFINE Same == /\ input'.locked = input.locked
                   /\ touch'.active = touch.active
                   /\ pointer' = pointer /\ notice' = notice
                   /\ overlay' = overlay
<1>1. ASSUME NEW code \in Keys, KeyDown(code) \/ KeyUp(code) PROVE PlayInv'
  <2>1. Same
    BY <1>0, <1>1 DEF KeyDown, KeyUp, KeyEvent, Inputs, page
  <2> QED BY <1>0, <2>1 DEF PlayInv, PlayNeedsCapture
<1>2. ASSUME \/ SetDoomControls \/ MouseMove \/ ClickOverlay \/ Frame
             \/ \E act \in Buttons : TapButton(act)
             \/ UNCHANGED vars
      PROVE  PlayInv'
  <2>1. Same
    BY <1>0, <1>2 DEF SetDoomControls, MouseMove, ClickOverlay, TapButton, Frame,
                      Queue, TakeFrame, Inputs, page, history, vars
  <2> QED BY <1>0, <2>1 DEF PlayInv, PlayNeedsCapture
<1>3. ASSUME LoseFocus \/ GrantLock \/ PressEscape PROVE PlayInv'
  <2>1. /\ input' = input /\ touch' = touch /\ overlay' = overlay
        /\ notice' \/ (pointer' = pointer /\ notice' = notice)
    BY <1>0, <1>3 DEF LoseFocus, GrantLock, PressEscape
  <2> QED BY <1>0, <2>1 DEF PlayInv, PlayNeedsCapture
<1>4. ASSUME PointerLockChange PROVE PlayInv'
  <2>1. touch' = touch /\ pointer' = pointer
    BY <1>4 DEF PointerLockChange
  <2>2. CASE touch.active
    BY <1>0, <1>4, <2>1, <2>2 DEF PointerLockChange, PlayInv, PlayNeedsCapture
  <2>3. CASE ~touch.active
    <3>1. input'.locked = pointer /\ overlay' = ~pointer
      BY <1>0, <1>4, <2>3 DEF PointerLockChange, SetLocked, Inputs
    <3> QED BY <1>0, <2>1, <2>3, <3>1 DEF PlayInv, PlayNeedsCapture
  <2> QED BY <2>2, <2>3
<1>5. ASSUME TapOverlay PROVE PlayInv'
  <2>1. input'.locked = TRUE /\ touch'.active = TRUE /\ overlay' = FALSE
    BY <1>0, <1>5 DEF TapOverlay, SetLocked, Inputs, Touches
  <2> QED BY <2>1 DEF PlayInv, PlayNeedsCapture
<1>6. ASSUME TapMenu PROVE PlayInv'
  <2>1. input'.locked = FALSE /\ touch'.active = FALSE /\ overlay' = TRUE
    BY <1>0, <1>6 DEF TapMenu, SetLocked, SetMoveAxes, Inputs, Touches
  <2> QED BY <2>1 DEF PlayInv, PlayNeedsCapture
<1>7. ASSUME NEW f \in Fingers,
             \/ \E spot \in Spots : TouchStart(f, spot)
             \/ TouchMove(f) \/ TouchEnd(f)
      PROVE  PlayInv'
  <2>1. Same
    BY <1>0, <1>7 DEF TouchStart, TouchMove, TouchEnd, Bound, Released,
                      SetMoveAxes, Queue, Inputs, Touches, page, history
  <2> QED BY <1>0, <2>1 DEF PlayInv, PlayNeedsCapture
<1> QED BY <1>1, <1>2, <1>3, <1>4, <1>5, <1>6, <1>7 DEF Next

-----------------------------------------------------------------------------
(* Fingers *)

\* A finger that touch play was left with stays bound across the menu; only
\* such a finger can hold both jobs at once.
FingersInv ==
    /\ FingersHaveOneJob
    /\ ~touch.active => {touch.move, touch.look} \subseteq abandoned \cup {None}
    /\ touch.move = touch.look => touch.move \in abandoned \cup {None}

\* Every event leaves each finger one job, but for those that were abandoned.
LEMMA FingersStep ==
    ASSUME TypeOK, FingersInv, [Next]_vars
    PROVE  FingersInv'
<1> USE SessionAssumption DEF SessionAssumption
<1>0. /\ touch \in Touches
      /\ finger \in [Fingers -> {"up"} \cup Spots]
      /\ abandoned \in SUBSET Fingers
      /\ touch.active =>
            /\ touch.move \notin abandoned \cup {None} => finger[touch.move] = "left"
            /\ touch.look \notin abandoned \cup {None} => finger[touch.look] # "up"
      /\ ~touch.active => {touch.move, touch.look} \subseteq abandoned \cup {None}
      /\ touch.move = touch.look => touch.move \in abandoned \cup {None}
  BY DEF TypeOK, Touches, FingersInv, FingersHaveOneJob
<1>1. ASSUME \/ \E code \in Keys : KeyDown(code) \/ KeyUp(code)
             \/ LoseFocus \/ SetDoomControls \/ MouseMove
             \/ ClickOverlay \/ GrantLock \/ PressEscape \/ PointerLockChange
             \/ \E act \in Buttons : TapButton(act)
             \/ \E f \in Fingers : TouchMove(f)
             \/ Frame \/ UNCHANGED vars
      PROVE  FingersInv'
  <2>1. touch' = touch /\ finger' = finger /\ abandoned' = abandoned
    BY <1>1 DEF KeyDown, KeyUp, LoseFocus, SetDoomControls, MouseMove,
                ClickOverlay, GrantLock, PressEscape, PointerLockChange,
                TapButton, TouchMove, Frame, history, vars
  <2> QED BY <1>0, <2>1 DEF FingersInv, FingersHaveOneJob
<1>2. ASSUME TapOverlay PROVE FingersInv'
  <2>1. /\ touch'.move = touch.move /\ touch'.look = touch.look
        /\ finger' = finger /\ abandoned' = abandoned
        /\ touch'.active = TRUE
    BY <1>0, <1>2 DEF TapOverlay, Touches, history
  <2>2. ~touch.active \/ touch.active
    OBVIOUS
  <2> QED BY <1>0, <2>1, <2>2 DEF FingersInv, FingersHaveOneJob
<1>3. ASSUME TapMenu PROVE FingersInv'
  <2>1. /\ touch'.active = FALSE
        /\ touch'.move = touch.move /\ touch'.look = touch.look
        /\ abandoned' = {touch.move, touch.look} \ {None}
    BY <1>0, <1>3 DEF TapMenu, Touches
  <2> QED BY <2>1 DEF FingersInv, FingersHaveOneJob
<1>4. ASSUME NEW f \in Fingers, NEW spot \in Spots, TouchStart(f, spot)
      PROVE  FingersInv'
  <2>1. /\ finger[f] = "up" /\ finger' = [finger EXCEPT ![f] = spot]
        /\ abandoned' = abandoned
        /\ touch'.active = touch.active
    BY <1>0, <1>4 DEF TouchStart, Bound, Touches, history
  <2>2. CASE ~touch.active
    <3>1. touch' = touch
      BY <1>4, <2>2 DEF TouchStart
    <3> QED BY <1>0, <2>1, <2>2, <3>1 DEF FingersInv, FingersHaveOneJob
  <2>3. CASE touch.active
    \* A job with a finger that is up belongs to an abandoned one.
    <3>1. /\ touch.move = f => f \in abandoned
          /\ touch.look = f => f \in abandoned
      BY <1>0, <2>1, <2>3, "left" # "up"
    <3>2. \A g \in Fingers \ {f} : finger'[g] = finger[g]
      BY <1>0, <2>1
    <3>3. finger'[f] = spot /\ spot # "up"
      BY <1>0, <2>1 DEF Spots
    <3>4. CASE spot = "left" /\ touch.move = None
      <4>1. touch'.move = f /\ touch'.look = touch.look
        BY <1>0, <1>4, <2>3, <3>4 DEF TouchStart, Bound, Touches
      <4> QED BY <1>0, <2>1, <2>3, <3>1, <3>2, <3>3, <3>4, <4>1
              DEF FingersInv, FingersHaveOneJob, Touches
    <3>5. CASE ~(spot = "left" /\ touch.move = None) /\ touch.look = None
      <4>1. touch'.move = touch.move /\ touch'.look = f
        BY <1>0, <1>4, <2>3, <3>5 DEF TouchStart, Bound, Touches
      <4> QED BY <1>0, <2>1, <2>3, <3>1, <3>2, <3>3, <4>1
              DEF FingersInv, FingersHaveOneJob, Touches
    <3>6. CASE ~(spot = "left" /\ touch.move = None) /\ touch.look # None
      <4>1. touch' = touch
        BY <1>4, <2>3, <3>6 DEF TouchStart, Bound
      <4> QED BY <1>0, <2>1, <2>3, <3>1, <3>2, <3>3, <4>1
              DEF FingersInv, FingersHaveOneJob, Touches
    <3> QED BY <3>4, <3>5, <3>6
  <2> QED BY <2>2, <2>3
<1>5. ASSUME NEW f \in Fingers, TouchEnd(f) PROVE FingersInv'
  <2>1. finger' = [finger EXCEPT ![f] = "up"]
    BY <1>5 DEF TouchEnd
  <2>2. CASE ~touch.active
    <3>1. touch' = touch /\ abandoned' = abandoned
      BY <1>5, <2>2 DEF TouchEnd
    <3> QED BY <1>0, <2>2, <3>1 DEF FingersInv, FingersHaveOneJob
  <2>3. CASE touch.active
    <3>1. \A g \in Fingers \ {f} : finger'[g] = finger[g]
      BY <1>0, <2>1
    <3>2. /\ touch'.active = TRUE
          /\ abandoned' = IF f \in {touch'.move, touch'.look}
                          THEN abandoned ELSE abandoned \ {f}
      BY <1>0, <1>5, <2>3 DEF TouchEnd, Released, Touches
    <3>3. CASE touch.move = f
      <4>1. touch'.move = None /\ touch'.look = touch.look
        BY <1>0, <1>5, <2>3, <3>3 DEF TouchEnd, Released, Touches
      <4> QED BY <1>0, <2>3, <3>1, <3>2, <3>3, <4>1
              DEF FingersInv, FingersHaveOneJob, Touches
    <3>4. CASE touch.move # f /\ touch.look = f
      <4>1. touch'.move = touch.move /\ touch'.look = None
        BY <1>0, <1>5, <2>3, <3>4 DEF TouchEnd, Released, Touches
      <4> QED BY <1>0, <2>3, <3>1, <3>2, <3>4, <4>1
              DEF FingersInv, FingersHaveOneJob, Touches
    <3>5. CASE touch.move # f /\ touch.look # f
      <4>1. touch'.move = touch.move /\ touch'.look = touch.look
        BY <1>5, <2>3, <3>5 DEF TouchEnd, Released
      <4> QED BY <1>0, <2>3, <3>1, <3>2, <3>5, <4>1
              DEF FingersInv, FingersHaveOneJob, Touches
    <3> QED BY <3>3, <3>4, <3>5
  <2> QED BY <2>2, <2>3
<1> QED BY <1>1, <1>2, <1>3, <1>4, <1>5 DEF Next

-----------------------------------------------------------------------------
(* Presses *)

\* What the queue holds is what was asked for, and the collector believes a
\* key to be held that is down or went up unseen.
HeldActs == UNION {Triggers(code) : code \in down}
PressInv ==
    /\ input.queued = asked
    /\ ~input.locked => asked = {}
    /\ input.held = HeldActs \cup unseen

\* Every event keeps what is held to the acts of keys that are down or went up unseen.
LEMMA PressStep ==
    ASSUME TypeOK, PressInv, touch.active => input.locked, [Next]_vars
    PROVE  PressInv'
<1> USE SessionAssumption
<1>0. /\ input \in Inputs
      /\ input.queued = asked
      /\ ~input.locked => asked = {}
      /\ input.held = HeldActs \cup unseen
  BY DEF TypeOK, Inputs, PressInv
<1>1. ASSUME NEW code \in Keys, KeyDown(code) PROVE PressInv'
  <2>1. /\ input'.queued = input.queued \cup
              (IF input.locked THEN Triggers(code) \ input.held ELSE {})
        /\ input'.held = input.held \cup Triggers(code)
        /\ input'.locked = input.locked
    BY <1>0, <1>1 DEF KeyDown, KeyEvent, Inputs
  <2>2. HeldActs' = HeldActs \cup Triggers(code) /\ unseen' = unseen
    BY <1>1 DEF KeyDown, HeldActs
  <2>3. Triggers(code) \cap HeldActs = {}
    <3>1. code \notin down
      BY <1>1 DEF KeyDown
    <3> QED BY <3>1, OneKeyPerAct DEF HeldActs
  <2>4. Triggers(code) \ input.held = Triggers(code) \ unseen
    BY <1>0, <2>3
  <2>5. asked' = IF input.locked THEN asked \cup (Triggers(code) \ unseen)
                 ELSE asked
    BY <1>1 DEF KeyDown
  <2> QED BY <1>0, <2>1, <2>2, <2>4, <2>5 DEF PressInv
<1>2. ASSUME NEW code \in Keys, KeyUp(code) PROVE PressInv'
  <2>1. /\ input'.queued = input.queued /\ input'.locked = input.locked
        /\ input'.held = input.held \ Triggers(code)
        /\ asked' = asked /\ unseen' = unseen \ Triggers(code)
    BY <1>0, <1>2 DEF KeyUp, KeyEvent, Inputs
  <2>2. HeldActs' = HeldActs \ Triggers(code)
    <3>1. down' = down \ {code} /\ code \in down
      BY <1>2 DEF KeyUp
    <3>2. \A other \in down' : Triggers(other) \cap Triggers(code) = {}
      BY <3>1, OneKeyPerAct
    <3> QED BY <3>1, <3>2 DEF HeldActs
  <2> QED BY <1>0, <2>1, <2>2 DEF PressInv
<1>3. ASSUME LoseFocus PROVE PressInv'
  <2>1. /\ input' = input /\ asked' = asked /\ unseen' = unseen \cup HeldActs
        /\ down' = {}
    BY <1>3 DEF LoseFocus, HeldActs
  <2>2. HeldActs' = {}
    BY <2>1 DEF HeldActs
  <2> QED BY <1>0, <2>1, <2>2 DEF PressInv
<1>4. ASSUME \/ SetDoomControls \/ ClickOverlay \/ GrantLock \/ PressEscape
             \/ \E f \in Fingers : \/ \E spot \in Spots : TouchStart(f, spot)
                                   \/ TouchEnd(f)
             \/ UNCHANGED vars
      PROVE  PressInv'
  <2>1. /\ input'.queued = input.queued /\ input'.locked = input.locked
        /\ input'.held = input.held
        /\ asked' = asked /\ unseen' = unseen /\ down' = down
    BY <1>0, <1>4 DEF SetDoomControls, ClickOverlay, GrantLock, PressEscape,
                      TouchStart, TouchEnd, SetMoveAxes, Inputs, history, vars
  <2> QED BY <1>0, <2>1 DEF PressInv, HeldActs
<1>5. ASSUME \/ MouseMove
             \/ \E act \in Buttons : TapButton(act)
             \/ \E f \in Fingers : TouchMove(f)
      PROVE  PressInv'
  <2>1. /\ input'.locked = input.locked /\ input'.held = input.held
        /\ unseen' = unseen /\ down' = down
        /\ input'.queued = asked'
        /\ ~input.locked => asked' = asked
    BY <1>0, <1>5 DEF MouseMove, TapButton, TouchMove, SetMoveAxes, Queue, Inputs
  <2> QED BY <1>0, <2>1 DEF PressInv, HeldActs
<1>6. ASSUME PointerLockChange \/ TapOverlay \/ TapMenu PROVE PressInv'
  <2>1. /\ input'.held = input.held /\ unseen' = unseen /\ down' = down
        /\ input'.queued = asked' /\ (~input'.locked => asked' = {})
    <3>1. CASE PointerLockChange
      BY <1>0, <3>1 DEF PointerLockChange, SetLocked, Leave, Inputs
    <3>2. CASE TapOverlay
      BY <1>0, <3>2 DEF TapOverlay, SetLocked, Inputs, history
    <3>3. CASE TapMenu
      BY <1>0, <3>3 DEF TapMenu, SetLocked, SetMoveAxes, Leave, Inputs
    <3> QED BY <1>6, <3>1, <3>2, <3>3
  <2> QED BY <1>0, <2>1 DEF PressInv, HeldActs
<1>7. ASSUME Frame PROVE PressInv'
  <2>1. /\ input'.locked = input.locked /\ input'.held = input.held
        /\ input'.queued = {} /\ asked' = {}
        /\ unseen' = unseen /\ down' = down
    BY <1>0, <1>7 DEF Frame, TakeFrame, Inputs
  <2> QED BY <1>0, <2>1 DEF PressInv, HeldActs
<1> QED BY <1>1, <1>2, <1>3, <1>4, <1>5, <1>6, <1>7 DEF Next

-----------------------------------------------------------------------------
Inductive ==
    /\ TypeOK /\ NoGhostWalk
    /\ PlayInv /\ FingersInv /\ PressInv

\* At first nothing is held.
LEMMA InductiveInit ==
    Init => Inductive
<1> SUFFICES ASSUME Init PROVE Inductive
  OBVIOUS
<1> USE SessionAssumption DEF Init, NewCollector
<1>1. TypeOK
  BY DEF TypeOK
<1>2. NoGhostWalk /\ PlayInv /\ FingersInv
  BY DEF NoGhostWalk, PlayInv, PlayNeedsCapture, FingersInv, FingersHaveOneJob
<1>3. PressInv
  BY DEF PressInv, HeldActs
<1> QED BY <1>1, <1>2, <1>3 DEF Inductive

\* Every event keeps the four parts together.
LEMMA InductiveStep ==
    Inductive /\ [Next]_vars => Inductive'
<1> SUFFICES ASSUME Inductive, [Next]_vars PROVE Inductive'
  OBVIOUS
<1>1. TypeOK' /\ NoGhostWalk'
  BY TypeStep, WalkStep DEF Inductive
<1>2. PlayInv' /\ FingersInv'
  BY PlayStep, FingersStep DEF Inductive
<1>3. PressInv'
  BY PressStep DEF Inductive, PlayInv
<1> QED BY <1>1, <1>2, <1>3 DEF Inductive

\* Types, steering, play, fingers and presses together are inductive.
THEOREM SessionInductive == Spec => []Inductive
<1> QED BY InductiveInit, InductiveStep, PTL DEF Spec

\* The queue and the frame hold acts, and every binding names a finger.
THEOREM SessionTyping == Spec => []TypeOK
<1>1. Inductive => TypeOK
  BY DEF Inductive
<1> QED BY <1>1, SessionInductive, PTL

\* Nothing walks by itself, whatever keys, fingers and focus changes arrive
\* in whatever order.
THEOREM NothingWalksByItself == Spec => []NoGhostWalk
<1>1. Inductive => NoGhostWalk
  BY DEF Inductive
<1> QED BY <1>1, SessionInductive, PTL

\* The overlay shows whether the collector is in play, and play outside touch
\* has the pointer.
THEOREM PlayIsCaptured == Spec => []PlayNeedsCapture
<1>1. Inductive => PlayNeedsCapture
  BY DEF Inductive, PlayInv
<1> QED BY <1>1, SessionInductive, PTL

\* Joystick and look surface are fingers that are there, for any number of
\* fingers and any reuse of their identifiers.
THEOREM FingersKeepTheirJob == Spec => []FingersHaveOneJob
<1>1. Inductive => FingersHaveOneJob
  BY DEF Inductive, FingersInv
<1> QED BY <1>1, SessionInductive, PTL

\* Each press in play is performed exactly once, in the next frame.
THEOREM EveryPressIsPerformedOnce == Spec => PressesAreActs
<1>1. Inductive /\ [Next]_vars => [Frame => frame' = asked]_vars
  <2> SUFFICES ASSUME PressInv, Frame PROVE frame' = asked
    BY DEF Inductive
  <2> QED BY DEF Frame, FrameOf, PressInv
<1> QED BY <1>1, SessionInductive, PTL DEF Spec, PressesAreActs
=============================================================================

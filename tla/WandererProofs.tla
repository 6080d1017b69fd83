--------------------------- MODULE WandererProofs ---------------------------
(***************************************************************************)
(* Proofs about Wanderer, for any places, walks, walls, pits, doors and    *)
(* versions that satisfy WandererAssumption and any times of cooldown; and *)
(* about Survival, for any finite set of supplies, any lists of them by    *)
(* chunk, any wear and any size of the pockets.                            *)
(***************************************************************************)
EXTENDS Wanderer, Survival, FiniteSetTheorems, TLAPS

-----------------------------------------------------------------------------
(* Wanderer: one lemma per stage of a tick *)

FlareRecords == [at : Places, level : Levels, left : Nat, walled : BOOLEAN]
Engines == [level : Levels, version : Versions, place : Places, safe : Places,
            store : [Places -> Versions \cup {None}], fine : SUBSET Places, moved : BOOLEAN,
            flares : SUBSET FlareRecords, doorCooldown : Nat, push : Nat,
            noclipCooldown : Nat, route : LevelExits \cup {None}, routeCooldown : Nat]

\* The two halves of WhatIsKeptFits, at every stage of a tick.
RouteFits(e) == e.route # None => \E v \in Versions : e.route \in Doors[e.level][v]
FlaresFit(e) ==
    \A flare \in e.flares : flare.level = e.level /\ (Collides(e, flare.at) => flare.walled)

Timers(e) == <<e.doorCooldown, e.push, e.noclipCooldown>>

\* step_with_effort goes to the place or a place near it, never into a wall.
LEMMA StepsWalk ==
  ASSUME NEW e \in Engines, NEW s \in Steps(e)
  PROVE  /\ s \in Engines
         /\ s.level = e.level /\ s.store = e.store /\ s.fine = e.fine /\ s.version = e.version
         /\ s.safe = e.safe /\ s.flares = e.flares /\ s.route = e.route
         /\ Timers(s) = Timers(e)
         /\ s.place \in {e.place} \cup Near[e.place]
         /\ s.place = e.place \/ ~Collides(e, s.place)
<1>1. CASE s = e
  BY <1>1
<1>2. CASE s # e
  <2>1. PICK q \in {e.place} \cup {q \in Near[e.place] : ~Collides(e, q)} :
           s = [e EXCEPT !.place = q, !.moved = TRUE]
    BY <1>2 DEF Steps
  <2>2. q \in Places
    BY WandererAssumption DEF WandererAssumption, Engines
  <2> QED BY <2>1, <2>2 DEF Engines, Timers
<1> QED BY <1>1, <1>2

\* advance and drop_from move nobody, and a flare that is dropped fits its level.
LEMMA FlaresBurn ==
  ASSUME NEW e \in Engines, NEW drops \in BOOLEAN, NEW f \in UpdateFlares(e, drops)
  PROVE  /\ f \in Engines
         /\ f.level = e.level /\ f.store = e.store /\ f.fine = e.fine /\ f.version = e.version
         /\ f.place = e.place /\ f.safe = e.safe /\ f.route = e.route /\ f.moved = e.moved
         /\ Timers(f) = Timers(e)
         /\ FlaresFit(e) => FlaresFit(f)
<1> DEFINE lit == Burning(e.flares)
<1>1. /\ lit \in SUBSET FlareRecords
      /\ \A g \in lit : \E h \in e.flares : g.at = h.at /\ g.level = h.level /\ g.walled = h.walled
  BY DEF Burning, Engines, FlareRecords
<1>2. PICK new \in SUBSET FlareRecords :
        /\ f = [e EXCEPT !.flares = new]
        /\ \A g \in new : g \in lit \/ (g.level = e.level /\ (Collides(e, g.at) => g.walled))
  <2>1. CASE ~drops
    BY <1>1, <2>1 DEF UpdateFlares
  <2>2. CASE drops
    <3> DEFINE kept == IF Cardinality(lit) < FlareCap THEN lit
                       ELSE {x \in lit : \E g \in lit : g.left < x.left}
    <3>1. PICK q \in {e.place} \cup {p \in Near[e.place] : ~Collides(e, p)} :
             f = [e EXCEPT !.flares = kept \cup {Flare(e, q)}]
      BY <2>2 DEF UpdateFlares
    <3>2. Flare(e, q) \in FlareRecords
      BY WandererAssumption DEF WandererAssumption, Engines, FlareRecords, Flare, Collides
    <3>3. kept \in SUBSET lit
      OBVIOUS
    <3> HIDE DEF kept, lit
    <3>4. Flare(e, q).level = e.level /\ (Collides(e, Flare(e, q).at) => Flare(e, q).walled)
      BY DEF Flare
    <3>5. kept \cup {Flare(e, q)} \in SUBSET FlareRecords
      BY <1>1, <3>2, <3>3
    <3> QED BY <1>1, <3>1, <3>3, <3>4, <3>5
  <2> QED BY <2>1, <2>2
<1> HIDE DEF lit
<1>3. f \in Engines /\ f.flares = new
  BY <1>2 DEF Engines
<1>4. /\ f.level = e.level /\ f.store = e.store /\ f.fine = e.fine /\ f.version = e.version
      /\ f.place = e.place /\ f.safe = e.safe /\ f.route = e.route /\ f.moved = e.moved
      /\ Timers(f) = Timers(e)
  BY <1>2 DEF Engines, Timers
<1>5. \A p : Collides(f, p) <=> Collides(e, p)
  BY <1>4 DEF Collides, Resident, Solid, Detail
<1> QED BY <1>1, <1>2, <1>3, <1>4, <1>5 DEF FlaresFit

\* update_anomalies: in a pit to its recovery, unless that is walled up; else nowhere.
LEMMA AnomaliesMove ==
  ASSUME NEW e \in Engines, NEW old \in Places, NEW m \in Anomalies(e, old)
  PROVE  /\ m \in Engines
         /\ m.level = e.level /\ m.store = e.store /\ m.fine = e.fine /\ m.flares = e.flares
         /\ m.route \in {e.route, None}
         /\ Timers(m) = Timers(e)
         /\ m.safe = m.place
         /\ IF e.level = Backrooms /\ Recovery(e, e.place) # None
            THEN \/ m.place = e.safe /\ Collides(e, Recovery(e, e.place))
                 \/ /\ m.place = Recovery(e, e.place) /\ ~Collides(e, m.place)
                    /\ m.moved
            ELSE m.place = e.place
<1>1. CASE e.level = Backrooms /\ Recovery(e, e.place) # None
  <2> DEFINE r == Recovery(e, e.place)
  <2>1. m = Recover(e, r)
    BY <1>1 DEF Anomalies
  <2>2. r \in Places
    BY <1>1, WandererAssumption DEF WandererAssumption, Recovery, Resident, Engines
  <2> HIDE DEF r
  <2>3. CASE Collides(e, r)
    BY <2>1, <2>2, <2>3, <1>1 DEF Recover, Engines, Timers, r
  <2>4. CASE ~Collides(e, r)
    <3>1. m = [e EXCEPT !.place = r, !.safe = r, !.moved = TRUE]
      BY <2>1, <2>4 DEF Recover
    <3>2. /\ m \in Engines
          /\ m.level = e.level /\ m.store = e.store /\ m.fine = e.fine /\ m.flares = e.flares
          /\ m.route = e.route
          /\ Timers(m) = Timers(e)
          /\ m.safe = m.place /\ m.place = r /\ m.moved
      BY <2>2, <3>1 DEF Engines, Timers
    <3> QED BY <1>1, <2>4, <3>2 DEF r
  <2> QED BY <2>3, <2>4
<1>2. CASE ~(e.level = Backrooms /\ Recovery(e, e.place) # None)
  <2>1. \/ m = [e EXCEPT !.safe = e.place]
        \/ \E v \in Versions : m = InvalidateRoute([e EXCEPT !.safe = e.place, !.version = v])
    BY <1>2 DEF Anomalies
  <2>2. CASE m = [e EXCEPT !.safe = e.place]
    BY <1>2, <2>2 DEF Engines, Timers
  <2>3. ASSUME NEW v \in Versions,
               m = InvalidateRoute([e EXCEPT !.safe = e.place, !.version = v])
        PROVE  m = [e EXCEPT !.safe = e.place, !.version = v, !.route = None, !.routeCooldown = 0]
    BY <2>3 DEF InvalidateRoute
  <2>4. ASSUME NEW v \in Versions,
               m = [e EXCEPT !.safe = e.place, !.version = v, !.route = None, !.routeCooldown = 0]
        PROVE  /\ m \in Engines
               /\ m.level = e.level /\ m.store = e.store /\ m.fine = e.fine /\ m.flares = e.flares
               /\ m.route \in {e.route, None}
               /\ Timers(m) = Timers(e)
               /\ m.safe = m.place /\ m.place = e.place
    BY <2>4 DEF Engines, Timers
  <2> QED BY <1>2, <2>1, <2>2, <2>3, <2>4
<1> QED BY <1>1, <1>2

\* What a switch of the level leaves of an engine, through a door or a wall.
Arrived(e, target, arrival) ==
    /\ e \in Engines
    /\ e.level = target /\ e.place = arrival /\ e.safe = arrival /\ e.moved
    /\ e.store = [p \in Places |-> None] /\ e.fine = {} /\ e.flares = {} /\ e.route = None
    /\ e.doorCooldown = DoorCooldown /\ e.push = 0

\* switch_level takes nothing along, neither flares nor the needle nor the push.
LEMMA SwitchesArrive ==
  ASSUME NEW e \in Engines, NEW target \in Levels, NEW arrival \in Places,
         NEW s \in SwitchLevel(e, target, arrival)
  PROVE  Arrived(s, target, arrival)
<1>1. PICK v \in Versions :
         s = InvalidateRoute(
               [e EXCEPT !.level = target, !.store = [p \in Places |-> None], !.fine = {},
                 !.version = v, !.place = arrival, !.safe = arrival, !.push = 0,
                 !.doorCooldown = DoorCooldown, !.flares = {}, !.moved = TRUE])
  BY DEF SwitchLevel, Engines
<1>2. s = [e EXCEPT !.level = target, !.store = [p \in Places |-> None], !.fine = {},
                 !.version = v, !.place = arrival, !.safe = arrival, !.push = 0,
                 !.doorCooldown = DoorCooldown, !.flares = {}, !.moved = TRUE,
                 !.route = None, !.routeCooldown = 0]
  BY <1>1 DEF InvalidateRoute
<1>3. DoorCooldown \in Nat
  BY WandererAssumption DEF WandererAssumption
<1> QED BY <1>2, <1>3 DEF Arrived, Engines

\* update_provisions leads to another level, and only when the cooldown has run out.
LEMMA DoorsLead ==
  ASSUME NEW e \in Engines, NEW p \in Provisions(e)
  PROVE  \/ p = [e EXCEPT !.doorCooldown = Less(@)]
         \/ /\ e.doorCooldown <= 1
            /\ \E target \in Levels \ {e.level}, arrival \in Places : Arrived(p, target, arrival)
<1> DEFINE cooled == [e EXCEPT !.doorCooldown = Less(@)]
<1>1. CASE p = cooled
  BY <1>1
<1>2. CASE p # cooled
  <2>1. cooled \in Engines /\ cooled.doorCooldown = Less(e.doorCooldown)
    BY DEF Engines, Less
  <2>2. PICK d \in Exits(e) :
          p \in SwitchLevel(cooled, d.to, d.arrival) /\ ~(cooled.doorCooldown > 0)
    BY <1>2 DEF Provisions
  <2> HIDE DEF cooled
  <2>3. d \in Doors[e.level][e.store[d.at]] /\ e.store[d.at] \in Versions
    BY <2>2 DEF Exits, Resident, Engines
  <2>4. d.to \in Levels \ {e.level} /\ d.arrival \in Places
    BY <2>3, WandererAssumption DEF WandererAssumption, Engines
  <2>5. Arrived(p, d.to, d.arrival)
    BY <2>1, <2>2, <2>4, SwitchesArrive
  <2>6. e.doorCooldown <= 1
    BY <2>1, <2>2 DEF Less, Engines
  <2> QED BY <2>4, <2>5, <2>6
<1> QED BY <1>1, <1>2

\* update_peripheral_shift changes the version and nothing else.
LEMMA FabricShifts ==
  ASSUME NEW e \in Engines, NEW s \in Shift(e)
  PROVE  \E v \in Versions : s = [e EXCEPT !.version = v]
<1>1. CASE e.level = Backrooms
  BY <1>1 DEF Shift
<1>2. CASE e.level # Backrooms
  <2>1. e.version \in Versions /\ s = [e EXCEPT !.version = e.version]
    BY <1>2 DEF Shift, Engines
  <2> QED BY <2>1
<1> QED BY <1>1, <1>2

\* The time spent pushing after one more tick.
Pushed(e, held) ==
    IF ~Pinned(e, held) THEN 0 ELSE IF e.push < NoclipPush THEN e.push + 1 ELSE e.push

\* update_noclip counts the push, and gives way only to who is pinned for long enough.
LEMMA WallsGive ==
  ASSUME NEW e \in Engines, NEW held \in BOOLEAN, NEW f \in UpdateNoclip(e, held)
  PROVE  \/ \E n \in Nat : f = [e EXCEPT !.push = Pushed(e, held), !.noclipCooldown = n]
         \/ /\ Pinned(e, held) /\ Pushed(e, held) >= NoclipPush
            /\ \E target \in Levels \ {e.level}, arrival \in Places : Arrived(f, target, arrival)
<1> DEFINE cooled == [e EXCEPT !.noclipCooldown = Less(@), !.push = Pushed(e, held)]
           rolled == [cooled EXCEPT !.noclipCooldown = NoclipCooldown]
<1>1. Pushed(e, held) \in Nat /\ Less(e.noclipCooldown) \in Nat /\ NoclipCooldown \in Nat
      /\ NoclipPush \in Nat \ {0}
  BY WandererAssumption DEF WandererAssumption, Engines, Pushed, Less
<1>2. /\ f = cooled \/ f = rolled \/ f \in Noclip(rolled)
      /\ f \in Noclip(rolled) => f = cooled \/ ~(cooled.push < NoclipPush)
  BY DEF UpdateNoclip, Pushed
<1>3. rolled = [e EXCEPT !.push = Pushed(e, held), !.noclipCooldown = NoclipCooldown]
  BY DEF Engines
<1>4. rolled \in Engines /\ rolled.level = e.level /\ rolled.place = e.place
  BY <1>1, <1>3 DEF Engines
<1>5. ASSUME f \in Noclip(rolled), f # cooled
      PROVE  /\ Pinned(e, held) /\ Pushed(e, held) >= NoclipPush
             /\ \E target \in Levels \ {e.level}, arrival \in Places : Arrived(f, target, arrival)
  <2>1. cooled.push = Pushed(e, held)
    BY DEF Engines
  <2>2. Pushed(e, held) >= NoclipPush
    BY <1>1, <1>2, <1>5, <2>1
  <2>3. Pinned(e, held)
    BY <1>1, <2>2 DEF Pushed
  <2> HIDE DEF rolled
  <2>4. CASE e.level = Backrooms
    <3>1. f \in SwitchLevel(rolled, Grassland, e.place)
      BY <1>4, <1>5, <2>4 DEF Noclip
    <3>2. Grassland \in Levels \ {e.level} /\ e.place \in Places
      BY <2>4 DEF Levels, Grassland, Backrooms, Habitable, Engines
    <3> QED BY <1>4, <2>2, <2>3, <3>1, <3>2, SwitchesArrive
  <2>5. CASE e.level # Backrooms
    <3>1. f \in SwitchLevel(rolled, Backrooms, Spawn[Backrooms])
      BY <1>4, <1>5, <2>5 DEF Noclip
    <3>2. Backrooms \in Levels \ {e.level} /\ Spawn[Backrooms] \in Places
      BY <2>5, WandererAssumption DEF WandererAssumption, Levels
    <3> QED BY <1>4, <2>2, <2>3, <3>1, <3>2, SwitchesArrive
  <2> QED BY <2>4, <2>5
<1>6. CASE f = cooled
  BY <1>1, <1>6
<1>7. CASE f = rolled
  BY <1>1, <1>3, <1>7
<1> QED BY <1>2, <1>5, <1>6, <1>7

\* What new geometry may do to the place where the wanderer stands: a wall comes
\* only where there was one, where nothing was, or with the refinement.
KeepsOff(e, i) ==
    Collides(i, e.place) =>
        \/ Collides(e, e.place) \/ e.store[e.place] = None
        \/ /\ e.place \in i.fine \ e.fine
           /\ e.place \notin Walls[Coarse][i.level][i.store[e.place]]

\* New geometry keeps off the wanderer and takes the flares it buries.
LEMMA InstallsKeepOff ==
  ASSUME NEW e \in Engines, NEW arrivals \in SUBSET Places, NEW refined \in SUBSET Places
  PROVE  LET i == Install(e, arrivals, refined) IN
         /\ i \in Engines
         /\ i.level = e.level /\ i.place = e.place /\ i.safe = e.safe /\ i.route = e.route
         /\ Timers(i) = Timers(e)
         /\ KeepsOff(e, i)
         /\ FlaresFit(e) => FlaresFit(i)
<1> DEFINE i == Install(e, arrivals, refined)
           waits == {p \in Resident(e) \cap {e.place} : Solid(e, p, e.version)}
           built == arrivals \ waits
           laid == Laid(e, built, refined)
<1>1. CASE arrivals \subseteq waits /\ refined = {}
  BY <1>1 DEF Install, KeepsOff
<1>2. CASE ~(arrivals \subseteq waits /\ refined = {})
  <2>1. i = [laid EXCEPT !.flares = {f \in @ : ~Collides(laid, f.at)}]
    BY <1>2 DEF Install, Extinguished
  <2>2. e.place \in Places /\ e.version \in Versions
    BY DEF Engines
  <2>3. e.place \in built => e.store[e.place] = None \/ ~Solid(e, e.place, e.version)
    BY <2>2 DEF Resident
  <2> HIDE DEF built
  <2>4. /\ laid \in Engines
        /\ laid.level = e.level /\ laid.place = e.place /\ laid.safe = e.safe
        /\ laid.route = e.route /\ laid.flares = e.flares /\ Timers(laid) = Timers(e)
        /\ laid.store = [p \in Places |-> IF p \in built THEN e.version ELSE e.store[p]]
        /\ laid.fine = e.fine \cup refined
    BY <2>2 DEF Laid, Engines, Timers
  <2> HIDE DEF laid
  <2>5. KeepsOff(e, laid)
    <3> SUFFICES ASSUME Collides(laid, e.place), ~Collides(e, e.place),
                        e.store[e.place] # None
                 PROVE  /\ e.place \in laid.fine \ e.fine
                        /\ e.place \notin Walls[Coarse][laid.level][laid.store[e.place]]
      BY DEF KeepsOff
    <3>1. laid.store[e.place] = IF e.place \in built THEN e.version ELSE e.store[e.place]
      BY <2>2, <2>4
    <3>2. ~Solid(e, e.place, laid.store[e.place])
      <4>1. ~Solid(e, e.place, e.store[e.place])
        BY <2>2 DEF Collides, Resident
      <4> QED BY <2>3, <3>1, <4>1
    <3>3. Solid(laid, e.place, laid.store[e.place])
      BY DEF Collides
    <3>4. Detail(laid, e.place) # Detail(e, e.place)
      BY <2>4, <3>2, <3>3 DEF Solid
    <3>5. e.place \in laid.fine \ e.fine
      BY <2>4, <3>4 DEF Detail
    <3> QED BY <2>4, <3>2, <3>5 DEF Solid, Detail
  <2>6. /\ i \in Engines
        /\ i.level = laid.level /\ i.place = laid.place /\ i.safe = laid.safe
        /\ i.route = laid.route /\ i.store = laid.store /\ i.fine = laid.fine
        /\ i.flares = {f \in laid.flares : ~Collides(laid, f.at)}
        /\ Timers(i) = Timers(laid)
    BY <2>1, <2>4 DEF Engines, Timers
  <2> HIDE DEF i
  <2>7. \A p : Collides(i, p) <=> Collides(laid, p)
    BY <2>6 DEF Collides, Resident, Solid, Detail
  <2>8. KeepsOff(e, i)
    BY <2>5, <2>6, <2>7 DEF KeepsOff
  <2>9. FlaresFit(e) => FlaresFit(i)
    BY <2>4, <2>6, <2>7 DEF FlaresFit
  <2> QED BY <2>4, <2>6, <2>8, <2>9 DEF i
<1> QED BY <1>1, <1>2

\* update_route points the needle at an exit that a resident chunk exports.
LEMMA RoutesAreSelected ==
  ASSUME NEW e \in Engines, NEW u \in UpdateRoute(e)
  PROVE  /\ u \in Engines
         /\ u.level = e.level /\ u.place = e.place /\ u.safe = e.safe
         /\ u.store = e.store /\ u.fine = e.fine /\ u.flares = e.flares /\ Timers(u) = Timers(e)
         /\ RouteFits(e) => RouteFits(u)
<1>1. CASE e.routeCooldown > 1
  BY <1>1 DEF UpdateRoute, Engines, Timers, RouteFits
<1>2. CASE ~(e.routeCooldown > 1)
  <2>1. PICK d \in Exits(e) \cup {None} : u = [e EXCEPT !.routeCooldown = RoutePeriod, !.route = d]
    BY <1>2 DEF UpdateRoute, Select
  <2>2. d # None => d \in LevelExits /\ \E v \in Versions : d \in Doors[e.level][v]
    BY DEF Exits, Resident, Engines
  <2>3. RoutePeriod \in Nat
    BY WandererAssumption DEF WandererAssumption
  <2> QED BY <2>1, <2>2, <2>3 DEF Engines, Timers, RouteFits
<1> QED BY <1>1, <1>2

\* respawn_after_attrition wakes the wanderer where they spawn.
LEMMA TheDeadWake ==
  ASSUME NEW e \in Engines, NEW dies \in BOOLEAN
  PROVE  LET w == [IF dies THEN Respawned(e) ELSE e EXCEPT !.moved = FALSE] IN
         /\ w \in Engines /\ ~w.moved
         /\ w.level = e.level /\ w.store = e.store /\ w.fine = e.fine /\ w.flares = e.flares
         /\ w.route \in {e.route, None}
         /\ Timers(w) = Timers(e)
         /\ IF dies THEN w.place = Spawn[e.level] /\ w.safe = w.place
            ELSE w.place = e.place /\ w.safe = e.safe
<1>1. Spawn[e.level] \in Places
  BY WandererAssumption DEF WandererAssumption, Engines
<1>2. CASE dies
  <2> DEFINE w == [Respawned(e) EXCEPT !.moved = FALSE]
  <2>1. w = [e EXCEPT !.place = Spawn[e.level], !.safe = Spawn[e.level],
                      !.route = None, !.routeCooldown = 0, !.moved = FALSE]
    BY DEF Respawned, InvalidateRoute
  <2> HIDE DEF w
  <2>2. /\ w \in Engines /\ ~w.moved
        /\ w.level = e.level /\ w.store = e.store /\ w.fine = e.fine /\ w.flares = e.flares
        /\ w.route = None
        /\ Timers(w) = Timers(e)
        /\ w.place = Spawn[e.level] /\ w.safe = w.place
    BY <1>1, <2>1 DEF Engines, Timers
  <2> QED BY <1>2, <2>2 DEF w
<1>3. CASE ~dies
  BY <1>3 DEF Engines, Timers
<1> QED BY <1>2, <1>3

-----------------------------------------------------------------------------
\* The tick in three parts.  First on foot: the step and what a pit makes of it.
OnFoot(m) ==
    \E p \in {engine.place} \cup Near[engine.place] :
        /\ p = engine.place \/ ~Collides(engine, p)
        /\ IF engine.level = Backrooms /\ Recovery(engine, p) # None
           THEN \/ m.place = engine.place /\ Collides(engine, Recovery(engine, p))
                \/ m.place = Recovery(engine, p) /\ ~Collides(engine, m.place)
           ELSE m.place = p

\* Then through a door, through a wall, or neither.
Stays(m, fell, held) ==
    /\ fell.level = m.level /\ fell.store = m.store /\ fell.fine = m.fine /\ fell.place = m.place
    /\ fell.safe = m.safe /\ fell.route = m.route /\ fell.flares = m.flares
    /\ fell.doorCooldown = Less(m.doorCooldown)
    /\ fell.push = Pushed(m, held)
ThroughDoor(m, fell) ==
    /\ m.doorCooldown <= 1
    /\ \E target \in Levels \ {m.level}, arrival \in Places : Arrived(fell, target, arrival)
ThroughWall(m, fell, held) ==
    /\ Pinned(m, held) /\ Pushed(m, held) >= NoclipPush
    /\ \E target \in Levels \ {m.level}, arrival \in Places : Arrived(fell, target, arrival)

\* What holds between two ticks.
WandererInv ==
    /\ engine \in Engines /\ engine.safe = engine.place /\ ~engine.moved
    /\ RouteFits(engine) /\ FlaresFit(engine)
    /\ transit \in {"none", "door", "noclip", "death"}
    /\ settled \in 0..DoorCooldown /\ leaning \in 0..NoclipPush
    /\ settled + engine.doorCooldown >= DoorCooldown
    /\ IF transit = "noclip" THEN engine.push = 0 ELSE engine.push <= leaning

\* From the step to the anomalies nothing changes but where the wanderer is.
LEMMA TicksBeginOnFoot ==
  ASSUME WandererInv, NEW stepped \in Steps(engine), NEW drops \in BOOLEAN,
         NEW lit \in UpdateFlares(stepped, drops), NEW met \in Anomalies(lit, engine.place)
  PROVE  /\ met \in Engines
         /\ met.level = engine.level /\ met.store = engine.store /\ met.fine = engine.fine
         /\ met.safe = met.place /\ Timers(met) = Timers(engine)
         /\ RouteFits(met) /\ FlaresFit(met)
         /\ OnFoot(met)
<1>1. /\ stepped \in Engines
      /\ stepped.level = engine.level /\ stepped.store = engine.store /\ stepped.fine = engine.fine
      /\ stepped.safe = engine.place /\ stepped.flares = engine.flares
      /\ stepped.route = engine.route
      /\ Timers(stepped) = Timers(engine)
      /\ stepped.place \in {engine.place} \cup Near[engine.place]
      /\ stepped.place = engine.place \/ ~Collides(engine, stepped.place)
  BY StepsWalk DEF WandererInv
<1>2. FlaresFit(stepped)
  BY <1>1 DEF WandererInv, FlaresFit, Collides, Resident, Solid, Detail
<1>3. /\ lit \in Engines
      /\ lit.level = engine.level /\ lit.store = engine.store /\ lit.fine = engine.fine
      /\ lit.safe = engine.place /\ lit.place = stepped.place
      /\ lit.route = engine.route
      /\ Timers(lit) = Timers(engine)
      /\ FlaresFit(lit)
  BY <1>1, <1>2, FlaresBurn
<1>4. /\ met \in Engines
      /\ met.level = engine.level /\ met.store = engine.store /\ met.fine = engine.fine
      /\ met.flares = lit.flares
      /\ met.route \in {engine.route, None}
      /\ Timers(met) = Timers(engine)
      /\ met.safe = met.place
      /\ IF lit.level = Backrooms /\ Recovery(lit, lit.place) # None
         THEN \/ met.place = lit.safe /\ Collides(lit, Recovery(lit, lit.place))
              \/ met.place = Recovery(lit, lit.place) /\ ~Collides(lit, met.place)
         ELSE met.place = lit.place
  <2>1. engine.place \in Places
    BY DEF WandererInv, Engines
  <2> QED BY <1>3, <2>1, AnomaliesMove
<1>5. /\ \A q : Collides(lit, q) <=> Collides(engine, q)
      /\ \A q : Recovery(lit, q) = Recovery(engine, q)
  BY <1>3 DEF Collides, Recovery, Resident, Solid, Detail
<1>6. OnFoot(met)
  BY <1>1, <1>3, <1>4, <1>5 DEF OnFoot
<1>7. FlaresFit(met)
  BY <1>3, <1>4 DEF FlaresFit, Collides, Resident, Solid, Detail
<1>8. RouteFits(met)
  BY <1>4 DEF RouteFits, WandererInv
<1> QED BY <1>4, <1>6, <1>7, <1>8

\* One switch of the level at most: who came through a door has moved.
LEMMA TicksSwitchOnce ==
  ASSUME NEW met \in Engines, NEW p \in Provisions(met), NEW passed \in Shift(p),
         NEW held \in IF passed.moved THEN {FALSE} ELSE BOOLEAN,
         NEW fell \in UpdateNoclip(passed, held)
  PROVE  /\ fell \in Engines
         /\ \/ Stays(met, fell, held) /\ passed.level = met.level
            \/ ThroughDoor(met, fell) /\ passed.level # met.level /\ ~Pinned(passed, held)
            \/ /\ ThroughWall(met, fell, held)
               /\ passed.level = met.level /\ fell.level # passed.level
         /\ passed.level = met.level => Pinned(passed, held) = Pinned(met, held)
<1>1. held \in BOOLEAN /\ (passed.moved => ~held)
  OBVIOUS
<1>2. CASE p = [met EXCEPT !.doorCooldown = Less(@)]
  <2>1. p \in Engines
    BY <1>2 DEF Engines, Less
  <2>2. PICK v \in Versions : passed = [p EXCEPT !.version = v]
    BY <2>1, FabricShifts
  <2>3. /\ passed \in Engines /\ passed.level = met.level
        /\ passed.store = met.store /\ passed.fine = met.fine
        /\ passed.place = met.place /\ passed.safe = met.safe /\ passed.moved = met.moved
        /\ passed.flares = met.flares /\ passed.route = met.route
        /\ passed.doorCooldown = Less(met.doorCooldown) /\ passed.push = met.push
    BY <1>2, <2>1, <2>2 DEF Engines
  <2>4. Pinned(passed, held) = Pinned(met, held) /\ Pushed(passed, held) = Pushed(met, held)
    BY <2>3 DEF Pinned, Pushed
  <2>5. ASSUME NEW n \in Nat,
               fell = [passed EXCEPT !.push = Pushed(passed, held), !.noclipCooldown = n]
        PROVE  fell \in Engines /\ Stays(met, fell, held)
    <3>1. Pushed(passed, held) \in Nat
      BY <2>3 DEF Pushed, Engines
    <3> QED BY <2>3, <2>4, <2>5, <3>1 DEF Engines, Stays
  <2>6. ASSUME Pinned(passed, held), Pushed(passed, held) >= NoclipPush,
               NEW target \in Levels \ {passed.level}, NEW arrival \in Places,
               Arrived(fell, target, arrival)
        PROVE  /\ fell \in Engines /\ ThroughWall(met, fell, held)
               /\ fell.level # passed.level
    BY <2>3, <2>4, <2>6 DEF Arrived, ThroughWall
  <2> QED BY <1>1, <2>3, <2>4, <2>5, <2>6, WallsGive
<1>3. ASSUME met.doorCooldown <= 1,
             NEW target \in Levels \ {met.level}, NEW arrival \in Places,
             Arrived(p, target, arrival)
      PROVE  /\ fell \in Engines /\ ThroughDoor(met, fell)
             /\ passed.level # met.level /\ ~Pinned(passed, held)
  <2>1. PICK v \in Versions : passed = [p EXCEPT !.version = v]
    BY <1>3, FabricShifts DEF Arrived
  <2>2. Arrived(passed, target, arrival)
    BY <1>3, <2>1 DEF Arrived, Engines
  <2>3. ~Pinned(passed, held)
    BY <1>1, <2>2 DEF Arrived, Pinned
  <2>4. PICK n \in Nat : fell = [passed EXCEPT !.push = 0, !.noclipCooldown = n]
    <3>1. Pushed(passed, held) = 0
      BY <2>3 DEF Pushed
    <3>2. passed \in Engines
      BY <2>2 DEF Arrived
    <3>3. \E n \in Nat : fell = [passed EXCEPT !.push = Pushed(passed, held), !.noclipCooldown = n]
      BY <1>1, <2>3, <3>2, WallsGive
    <3> QED BY <3>1, <3>3
  <2>5. Arrived(fell, target, arrival)
    BY <2>2, <2>4 DEF Arrived, Engines
  <2> QED BY <1>3, <2>2, <2>3, <2>5 DEF ThroughDoor, Arrived
<1> QED BY <1>2, <1>3, DoorsLead

\* Then the world arrives around the wanderer, and the needle turns.
LEMMA TicksEndSettled ==
  ASSUME NEW fell \in Engines, fell.safe = fell.place, RouteFits(fell), FlaresFit(fell),
         NEW arrivals \in SUBSET Places, NEW refined \in SUBSET Places,
         NEW routed \in UpdateRoute(Install(fell, arrivals, refined)), NEW dies \in BOOLEAN
  PROVE  LET w == [IF dies THEN Respawned(routed) ELSE routed EXCEPT !.moved = FALSE] IN
         /\ w \in Engines /\ w.safe = w.place /\ ~w.moved
         /\ w.level = fell.level /\ Timers(w) = Timers(fell)
         /\ RouteFits(w) /\ FlaresFit(w)
         /\ ~dies => w.place = fell.place /\ KeepsOff(fell, w)
<1> DEFINE i == Install(fell, arrivals, refined)
           w == [IF dies THEN Respawned(routed) ELSE routed EXCEPT !.moved = FALSE]
<1>1. /\ i \in Engines
      /\ i.level = fell.level /\ i.place = fell.place /\ i.safe = fell.safe
      /\ i.route = fell.route /\ Timers(i) = Timers(fell)
      /\ KeepsOff(fell, i) /\ FlaresFit(i)
  BY InstallsKeepOff
<1>2. RouteFits(i)
  BY <1>1 DEF RouteFits
<1> HIDE DEF i
<1>3. routed \in UpdateRoute(i)
  BY DEF i
<1>4. /\ routed \in Engines
      /\ routed.level = i.level /\ routed.place = i.place /\ routed.safe = i.safe
      /\ routed.store = i.store /\ routed.fine = i.fine /\ routed.flares = i.flares
      /\ Timers(routed) = Timers(i)
      /\ RouteFits(routed)
  BY <1>1, <1>2, <1>3, RoutesAreSelected
<1>5. /\ w \in Engines /\ ~w.moved
      /\ w.level = routed.level /\ w.store = routed.store /\ w.fine = routed.fine
      /\ w.flares = routed.flares
      /\ w.route \in {routed.route, None}
      /\ Timers(w) = Timers(routed)
      /\ IF dies THEN w.place = Spawn[routed.level] /\ w.safe = w.place
         ELSE w.place = routed.place /\ w.safe = routed.safe
  BY <1>4, TheDeadWake
<1> HIDE DEF w
<1>6. \A q : Collides(w, q) <=> Collides(i, q)
  BY <1>4, <1>5 DEF Collides, Resident, Solid, Detail
<1>7. RouteFits(w)
  BY <1>4, <1>5 DEF RouteFits
<1>8. FlaresFit(w)
  BY <1>1, <1>4, <1>5, <1>6 DEF FlaresFit
<1>9. KeepsOff(fell, w)
  BY <1>1, <1>4, <1>5, <1>6 DEF KeepsOff
<1> QED BY <1>1, <1>4, <1>5, <1>6, <1>7, <1>8, <1>9 DEF w

\* How a tick took the wanderer elsewhere, and what its end is from the fall on.
How(met, passed, fell, dies) ==
    IF passed.level # met.level THEN "door"
    ELSE IF fell.level # passed.level THEN "noclip"
    ELSE IF dies THEN "death" ELSE "none"
Ends(met, passed, held, fell, dies) ==
    \E arrivals \in {a \in SUBSET Awaited(fell) : Cardinality(a) <= LoadsPerTick} :
    \E refined \in {r \in SUBSET ((Resident(fell) \cup arrivals) \ fell.fine) :
                        Cardinality(arrivals) + Cardinality(r) <= LoadsPerTick} :
    \E routed \in UpdateRoute(Install(fell, arrivals, refined)) :
        /\ engine' = [IF dies THEN Respawned(routed) ELSE routed
                        EXCEPT !.moved = FALSE]
        /\ Tally(How(met, passed, fell, dies), Pinned(passed, held))

\* A whole tick, as the properties see it.
LEMMA ATick ==
  ASSUME WandererInv, Next
  PROVE  \E met, fell \in Engines, held, dies \in BOOLEAN :
         /\ met.level = engine.level /\ met.store = engine.store /\ met.fine = engine.fine
         /\ Timers(met) = Timers(engine) /\ OnFoot(met)
         /\ engine' \in Engines /\ engine'.safe = engine'.place /\ ~engine'.moved
         /\ engine'.level = fell.level /\ Timers(engine') = Timers(fell)
         /\ RouteFits(engine') /\ FlaresFit(engine')
         /\ ~dies => engine'.place = fell.place /\ KeepsOff(fell, engine')
         /\ \/ Stays(met, fell, held)
               /\ Tally(IF dies THEN "death" ELSE "none", Pinned(met, held))
            \/ ThroughDoor(met, fell) /\ Tally("door", FALSE)
            \/ ThroughWall(met, fell, held) /\ Tally("noclip", Pinned(met, held))
<1>1. PICK stepped \in Steps(engine), drops \in BOOLEAN, dies \in BOOLEAN :
        \E lit \in UpdateFlares(stepped, drops) : \E met \in Anomalies(lit, engine.place) :
        \E passed \in UNION {Shift(p) : p \in Provisions(met)} :
        \E held \in IF passed.moved THEN {FALSE} ELSE BOOLEAN :
        \E fell \in UpdateNoclip(passed, held) : Ends(met, passed, held, fell, dies)
  BY DEF Next, Ends, How
<1>2. PICK lit \in UpdateFlares(stepped, drops) : \E met \in Anomalies(lit, engine.place) :
        \E passed \in UNION {Shift(p) : p \in Provisions(met)} :
        \E held \in IF passed.moved THEN {FALSE} ELSE BOOLEAN :
        \E fell \in UpdateNoclip(passed, held) : Ends(met, passed, held, fell, dies)
  BY <1>1
<1>3. PICK met \in Anomalies(lit, engine.place) :
        \E passed \in UNION {Shift(p) : p \in Provisions(met)} :
        \E held \in IF passed.moved THEN {FALSE} ELSE BOOLEAN :
        \E fell \in UpdateNoclip(passed, held) : Ends(met, passed, held, fell, dies)
  BY <1>2
<1>4. PICK p \in Provisions(met) : \E passed \in Shift(p) :
        \E held \in IF passed.moved THEN {FALSE} ELSE BOOLEAN :
        \E fell \in UpdateNoclip(passed, held) : Ends(met, passed, held, fell, dies)
  BY <1>3
<1>5. PICK passed \in Shift(p) :
        \E held \in IF passed.moved THEN {FALSE} ELSE BOOLEAN :
        \E fell \in UpdateNoclip(passed, held) : Ends(met, passed, held, fell, dies)
  BY <1>4
<1>6. PICK held \in IF passed.moved THEN {FALSE} ELSE BOOLEAN :
        \E fell \in UpdateNoclip(passed, held) : Ends(met, passed, held, fell, dies)
  BY <1>5
<1>7. PICK fell \in UpdateNoclip(passed, held) : Ends(met, passed, held, fell, dies)
  BY <1>6
<1>8. PICK arrivals \in SUBSET Places, refined \in SUBSET Places :
        \E routed \in UpdateRoute(Install(fell, arrivals, refined)) :
        /\ engine' = [IF dies THEN Respawned(routed) ELSE routed
                        EXCEPT !.moved = FALSE]
        /\ Tally(How(met, passed, fell, dies), Pinned(passed, held))
  BY <1>7 DEF Ends, Awaited, Resident
<1>9. PICK routed \in UpdateRoute(Install(fell, arrivals, refined)) :
        /\ engine' = [IF dies THEN Respawned(routed) ELSE routed
                        EXCEPT !.moved = FALSE]
        /\ Tally(How(met, passed, fell, dies), Pinned(passed, held))
  BY <1>8
<1>10. /\ met \in Engines
       /\ met.level = engine.level /\ met.store = engine.store /\ met.fine = engine.fine
       /\ met.safe = met.place /\ Timers(met) = Timers(engine)
       /\ RouteFits(met) /\ FlaresFit(met)
       /\ OnFoot(met)
  BY TicksBeginOnFoot
<1>11. held \in BOOLEAN
  OBVIOUS
<1>12. /\ fell \in Engines
       /\ \/ Stays(met, fell, held) /\ passed.level = met.level
          \/ ThroughDoor(met, fell) /\ passed.level # met.level /\ ~Pinned(passed, held)
          \/ /\ ThroughWall(met, fell, held)
             /\ passed.level = met.level /\ fell.level # passed.level
       /\ passed.level = met.level => Pinned(passed, held) = Pinned(met, held)
  BY <1>10, TicksSwitchOnce, ZenonT(60)
<1>13. fell.safe = fell.place /\ RouteFits(fell) /\ FlaresFit(fell)
  <2>1. CASE Stays(met, fell, held)
    BY <1>10, <2>1 DEF Stays, RouteFits, FlaresFit, Collides, Resident, Solid, Detail
  <2>2. ASSUME NEW target, NEW arrival, Arrived(fell, target, arrival)
        PROVE  fell.safe = fell.place /\ RouteFits(fell) /\ FlaresFit(fell)
    BY <2>2 DEF Arrived, RouteFits, FlaresFit
  <2>3. ~Stays(met, fell, held) => \E target, arrival : Arrived(fell, target, arrival)
    BY <1>12 DEF ThroughDoor, ThroughWall
  <2> QED BY <2>1, <2>2, <2>3
<1>14. /\ engine' \in Engines /\ engine'.safe = engine'.place /\ ~engine'.moved
       /\ engine'.level = fell.level /\ Timers(engine') = Timers(fell)
       /\ RouteFits(engine') /\ FlaresFit(engine')
       /\ ~dies => engine'.place = fell.place /\ KeepsOff(fell, engine')
  BY <1>9, <1>12, <1>13, TicksEndSettled
<1>15. \/ Stays(met, fell, held)
          /\ Tally(IF dies THEN "death" ELSE "none", Pinned(met, held))
       \/ ThroughDoor(met, fell) /\ Tally("door", FALSE)
       \/ ThroughWall(met, fell, held) /\ Tally("noclip", Pinned(met, held))
  <2>1. CASE Stays(met, fell, held) /\ passed.level = met.level
    <3>1. fell.level = passed.level
      BY <2>1 DEF Stays
    <3> QED BY <1>9, <1>12, <2>1, <3>1 DEF How
  <2>2. CASE ThroughDoor(met, fell) /\ passed.level # met.level /\ ~Pinned(passed, held)
    <3>1. Pinned(passed, held) = FALSE
      BY <2>2 DEF Pinned
    <3> QED BY <1>9, <2>2, <3>1 DEF How
  <2>3. CASE ThroughWall(met, fell, held) /\ passed.level = met.level /\ fell.level # passed.level
    BY <1>9, <1>12, <2>3 DEF How
  <2> QED BY <1>12, <2>1, <2>2, <2>3
<1> QED BY <1>10, <1>11, <1>12, <1>14, <1>15

-----------------------------------------------------------------------------
\* The initial engine satisfies the invariant.
LEMMA InitWanders == Init => WandererInv
<1> SUFFICES ASSUME Init PROVE WandererInv
  OBVIOUS
<1>1. (CHOOSE v \in Versions : TRUE) \in Versions
  BY WandererAssumption DEF WandererAssumption
<1>2. engine \in Engines
  BY <1>1, WandererAssumption DEF WandererAssumption, Init, Engines, Levels
<1>3. RouteFits(engine) /\ FlaresFit(engine)
  BY DEF Init, RouteFits, FlaresFit
<1> QED BY <1>2, <1>3, WandererAssumption DEF WandererAssumption, WandererInv, Init

\* A tick keeps the invariant: what is kept fits, and the counters of the engine
\* are bounded by those of the history.
LEMMA NextWanders == WandererInv /\ [Next]_vars => WandererInv'
<1> SUFFICES ASSUME WandererInv, [Next]_vars PROVE WandererInv'
  OBVIOUS
<1>1. CASE Next
  <2>1. PICK met \in Engines, fell \in Engines, held \in BOOLEAN, dies \in BOOLEAN :
         /\ Timers(met) = Timers(engine)
         /\ engine' \in Engines /\ engine'.safe = engine'.place /\ ~engine'.moved
         /\ Timers(engine') = Timers(fell)
         /\ RouteFits(engine') /\ FlaresFit(engine')
         /\ \/ Stays(met, fell, held)
               /\ Tally(IF dies THEN "death" ELSE "none", Pinned(met, held))
            \/ ThroughDoor(met, fell) /\ Tally("door", FALSE)
            \/ ThroughWall(met, fell, held) /\ Tally("noclip", Pinned(met, held))
    BY <1>1, ATick, ZenonT(60)
  <2>2. RouteFits(engine)' /\ FlaresFit(engine)'
    BY <2>1 DEF RouteFits, FlaresFit, Collides, Resident, Solid, Detail
  <2>3. /\ met.doorCooldown = engine.doorCooldown /\ met.push = engine.push
        /\ engine'.doorCooldown = fell.doorCooldown /\ engine'.push = fell.push
    BY <2>1 DEF Timers
  <2>4. /\ DoorCooldown \in Nat \ {0} /\ NoclipPush \in Nat \ {0}
        /\ engine.doorCooldown \in Nat /\ engine.push \in Nat
        /\ settled \in 0..DoorCooldown /\ leaning \in 0..NoclipPush
        /\ settled + engine.doorCooldown >= DoorCooldown
        /\ IF transit = "noclip" THEN engine.push = 0 ELSE engine.push <= leaning
    BY WandererAssumption DEF WandererAssumption, WandererInv, Engines
  <2> DEFINE counted == /\ transit' \in {"none", "door", "noclip", "death"}
                        /\ settled' \in 0..DoorCooldown /\ leaning' \in 0..NoclipPush
                        /\ settled' + engine'.doorCooldown >= DoorCooldown
                        /\ IF transit' = "noclip" THEN engine'.push = 0
                           ELSE engine'.push <= leaning'
  <2>5. ASSUME Stays(met, fell, held),
               Tally(IF dies THEN "death" ELSE "none", Pinned(met, held))
        PROVE  counted
    <3>1. /\ transit' \in {"none", "death"}
          /\ settled' = IF settled < DoorCooldown THEN settled + 1 ELSE settled
      BY <2>5 DEF Tally
    <3>2. engine'.doorCooldown = Less(engine.doorCooldown) /\ engine'.push = Pushed(met, held)
      BY <2>3, <2>5 DEF Stays
    <3>3. settled' \in 0..DoorCooldown /\ settled' + engine'.doorCooldown >= DoorCooldown
      BY <2>4, <3>1, <3>2 DEF Less
    <3>4. leaning' \in 0..NoclipPush /\ engine'.push <= leaning'
      <4>1. leaning' = IF ~Pinned(met, held) THEN 0 ELSE IF transit = "noclip" THEN 1
                       ELSE IF leaning < NoclipPush THEN leaning + 1 ELSE leaning
        BY <2>5 DEF Tally
      <4>2. CASE ~Pinned(met, held)
        <5>1. leaning' = 0 /\ engine'.push = 0
          BY <3>2, <4>1, <4>2 DEF Pushed
        <5> QED BY <2>4, <5>1
      <4>3. CASE Pinned(met, held)
        <5>1. engine'.push = IF engine.push < NoclipPush THEN engine.push + 1 ELSE engine.push
          BY <2>3, <3>2, <4>3 DEF Pushed
        <5> QED BY <2>4, <4>1, <4>3, <5>1
      <4> QED BY <4>2, <4>3
    <3> QED BY <3>1, <3>3, <3>4
  <2>6. ASSUME ThroughDoor(met, fell), Tally("door", FALSE)
        PROVE  counted
    <3>1. engine'.doorCooldown = DoorCooldown /\ engine'.push = 0
      BY <2>3, <2>6 DEF ThroughDoor, Arrived
    <3>2. transit' = "door" /\ settled' = 0 /\ leaning' = 0
      BY <2>6 DEF Tally
    <3> QED BY <2>4, <3>1, <3>2
  <2>7. ASSUME ThroughWall(met, fell, held), Tally("noclip", Pinned(met, held))
        PROVE  counted
    <3>1. engine'.doorCooldown = DoorCooldown /\ engine'.push = 0 /\ Pinned(met, held)
      BY <2>3, <2>7 DEF ThroughWall, Arrived
    <3>2. /\ transit' = "noclip" /\ settled' = 0
          /\ leaning' = IF transit = "noclip" THEN 1
                        ELSE IF leaning < NoclipPush THEN leaning + 1 ELSE leaning
      BY <2>7, <3>1 DEF Tally
    <3>3. leaning' \in 0..NoclipPush
      BY <2>4, <3>2
    <3>4. settled' \in 0..DoorCooldown /\ settled' + engine'.doorCooldown >= DoorCooldown
      BY <2>4, <3>1, <3>2
    <3> QED BY <3>1, <3>2, <3>3, <3>4
  <2>8. counted
    BY <2>1, <2>5, <2>6, <2>7
  <2> QED BY <2>1, <2>2, <2>8 DEF WandererInv
<1>2. CASE UNCHANGED vars
  BY <1>2 DEF vars, WandererInv, RouteFits, FlaresFit, Collides, Resident, Solid, Detail
<1> QED BY <1>1, <1>2

\* The engine is typed, keeps only what fits its level, and has waited as long as
\* the history says.
THEOREM WandererInvariant == Spec => []WandererInv
BY InitWanders, NextWanders, PTL DEF Spec

\* Needle and flares fit the level, whatever switches, rebuilds and drifts
\* (engine.rs switch_level and stream_chunks, flares.rs extinguish_buried, route.rs).
THEOREM WhatIsKeptFitsAlways == Spec => []WhatIsKeptFits
<1>1. WandererInv => WhatIsKeptFits
  BY DEF WandererInv, RouteFits, FlaresFit, WhatIsKeptFits
<1> QED BY <1>1, WandererInvariant, PTL

\* What the walls of a tick can do to a wanderer who was free.
LEMMA StepsKeepWallsOpen ==
  ASSUME WandererInv, [Next]_vars, InWall', ~InWall
  PROVE  \/ engine'.level # engine.level \/ transit' = "death"
         \/ engine.store[engine'.place] = None
         \/ /\ engine'.place \in engine'.fine \ engine.fine
            /\ engine'.place \notin
                  Walls[Coarse][engine'.level][engine'.store[engine'.place]]
<1>1. Next
  BY DEF vars, InWall, Collides, Resident, Solid, Detail
<1>2. PICK met \in Engines, fell \in Engines, held \in BOOLEAN, dies \in BOOLEAN :
         /\ met.level = engine.level /\ met.store = engine.store /\ met.fine = engine.fine
         /\ OnFoot(met)
         /\ engine'.level = fell.level
         /\ ~dies => engine'.place = fell.place /\ KeepsOff(fell, engine')
         /\ \/ Stays(met, fell, held)
               /\ Tally(IF dies THEN "death" ELSE "none", Pinned(met, held))
            \/ ThroughDoor(met, fell)
            \/ ThroughWall(met, fell, held)
  BY <1>1, ATick, ZenonT(60)
<1>3. Collides(engine', engine'.place)
  BY DEF InWall, Collides, Resident, Solid, Detail
<1>4. CASE dies /\ Tally(IF dies THEN "death" ELSE "none", Pinned(met, held))
  BY <1>4 DEF Tally
<1>5. CASE Stays(met, fell, held) /\ ~dies
  <2>1. fell.level = engine.level /\ fell.store = engine.store /\ fell.fine = engine.fine
        /\ fell.place = met.place
    BY <1>2, <1>5 DEF Stays
  <2>2. ~Collides(engine, met.place)
    <3>1. ~Collides(engine, engine.place)
      BY DEF InWall
    <3> QED BY <1>2, <3>1 DEF OnFoot
  <2>3. ~Collides(fell, fell.place)
    BY <2>1, <2>2 DEF Collides, Resident, Solid, Detail
  <2>4. engine'.place = fell.place /\ KeepsOff(fell, engine')
    BY <1>2, <1>5
  <2> QED BY <1>3, <2>1, <2>3, <2>4 DEF KeepsOff
<1>6. ASSUME NEW target \in Levels \ {met.level}, NEW arrival, Arrived(fell, target, arrival)
      PROVE  engine'.level # engine.level
  BY <1>2, <1>6 DEF Arrived
<1> QED BY <1>2, <1>4, <1>5, <1>6 DEF ThroughDoor, ThroughWall

\* No step, recovery or rebuild puts who was free into a wall, and a refinement
\* only into one that the coarse chunk did not have (engine.rs stream_chunks and
\* update_anomalies).
THEOREM WallsNeverCloseInEver == Spec => WallsNeverCloseIn
<1>1. WandererInv /\ [Next]_vars =>
        [InWall' /\ ~InWall =>
          \/ engine'.level # engine.level \/ transit' = "death"
          \/ engine.store[engine'.place] = None
          \/ /\ engine'.place \in engine'.fine \ engine.fine
             /\ engine'.place \notin
                   Walls[Coarse][engine'.level][engine'.store[engine'.place]]]_vars
  BY StepsKeepWallsOpen
<1> QED BY <1>1, WandererInvariant, PTL DEF Spec, WallsNeverCloseIn

\* What a tick can do to a wanderer in a pit.
LEMMA StepsLetGo ==
  ASSUME WandererInv, Next, InPit, InPit', engine'.place = engine.place, transit' # "death"
  PROVE  \E p \in {engine.place} \cup Near[engine.place] :
              LET recovery == Recovery(engine, p) IN
              /\ recovery # None
              /\ \/ Collides(engine, recovery)
                 \/ recovery = engine.place /\ engine.store[recovery] # engine.store[p]
<1>1. PICK met \in Engines, fell \in Engines, held \in BOOLEAN, dies \in BOOLEAN :
         /\ met.level = engine.level /\ met.store = engine.store /\ met.fine = engine.fine
         /\ OnFoot(met)
         /\ engine'.level = fell.level
         /\ ~dies => engine'.place = fell.place
         /\ \/ Stays(met, fell, held)
               /\ Tally(IF dies THEN "death" ELSE "none", Pinned(met, held))
            \/ ThroughDoor(met, fell)
            \/ ThroughWall(met, fell, held)
  BY ATick, ZenonT(60)
<1>2. engine.level = Backrooms /\ engine'.level = Backrooms /\ Recovery(engine, engine.place) # None
  BY DEF InPit
<1>3. Stays(met, fell, held) /\ ~dies
  <2>1. ASSUME NEW target \in Levels \ {met.level}, NEW arrival, Arrived(fell, target, arrival)
        PROVE  FALSE
    BY <1>1, <1>2, <2>1 DEF Arrived
  <2>2. Stays(met, fell, held) /\ Tally(IF dies THEN "death" ELSE "none", Pinned(met, held))
    BY <1>1, <2>1 DEF ThroughDoor, ThroughWall
  <2> QED BY <2>2 DEF Tally
<1>4. met.place = engine.place
  BY <1>1, <1>3 DEF Stays
<1>5. PICK p \in {engine.place} \cup Near[engine.place] :
        /\ Recovery(engine, p) # None
        /\ Collides(engine, Recovery(engine, p)) \/ Recovery(engine, p) = engine.place
  BY <1>1, <1>2, <1>4 DEF OnFoot
<1>6. p \in Places /\ engine.store[p] \in Versions
      /\ Recovery(engine, p) = Pits[engine.store[p]][p]
  BY <1>5, WandererAssumption DEF WandererAssumption, Recovery, Resident, WandererInv, Engines
<1>7. /\ Recovery(engine, p) \in Places
      /\ Pits[engine.store[p]][Recovery(engine, p)] = None
  BY <1>5, <1>6, WandererAssumption DEF WandererAssumption
<1>8. CASE Collides(engine, Recovery(engine, p))
  BY <1>5, <1>8
<1>9. CASE Recovery(engine, p) = engine.place
  BY <1>2, <1>5, <1>7, <1>9 DEF Recovery
<1> QED BY <1>5, <1>8, <1>9

\* A pit lets go in one tick unless its recovery is walled up, or a pit of another
\* version (engine.rs update_anomalies).
THEOREM PitsLetGoAlways == Spec => PitsLetGo
<1>1. WandererInv /\ [Next]_vars =>
        [InPit /\ InPit' /\ engine'.place = engine.place /\ transit' # "death" =>
          \E p \in {engine.place} \cup Near[engine.place] :
              LET recovery == Recovery(engine, p) IN
              /\ recovery # None
              /\ \/ Collides(engine, recovery)
                 \/ recovery = engine.place /\ engine.store[recovery] # engine.store[p]]_vars
  BY StepsLetGo
<1> QED BY <1>1, WandererInvariant, PTL DEF Spec, PitsLetGo

\* What a tick that leaves a level has waited for.
LEMMA StepsEarnTransits ==
  ASSUME WandererInv, Next
  PROVE  /\ transit' = "door" => settled + 1 >= DoorCooldown
         /\ transit' = "noclip" => leaning' = NoclipPush
<1>1. PICK met \in Engines, fell \in Engines, held \in BOOLEAN, dies \in BOOLEAN :
         /\ Timers(met) = Timers(engine)
         /\ \/ Stays(met, fell, held)
               /\ Tally(IF dies THEN "death" ELSE "none", Pinned(met, held))
            \/ ThroughDoor(met, fell) /\ Tally("door", FALSE)
            \/ ThroughWall(met, fell, held) /\ Tally("noclip", Pinned(met, held))
  BY ATick, ZenonT(60)
<1>2. met.doorCooldown = engine.doorCooldown /\ met.push = engine.push
  BY <1>1 DEF Timers
<1>3. /\ DoorCooldown \in Nat \ {0} /\ NoclipPush \in Nat \ {0}
      /\ engine.doorCooldown \in Nat /\ engine.push \in Nat
      /\ settled \in 0..DoorCooldown /\ leaning \in 0..NoclipPush
      /\ settled + engine.doorCooldown >= DoorCooldown
      /\ IF transit = "noclip" THEN engine.push = 0 ELSE engine.push <= leaning
  BY WandererAssumption DEF WandererAssumption, WandererInv, Engines
<1>4. CASE /\ Stays(met, fell, held)
           /\ Tally(IF dies THEN "death" ELSE "none", Pinned(met, held))
  BY <1>4 DEF Tally
<1>5. CASE ThroughDoor(met, fell) /\ Tally("door", FALSE)
  BY <1>2, <1>3, <1>5 DEF ThroughDoor, Tally
<1>6. CASE ThroughWall(met, fell, held) /\ Tally("noclip", Pinned(met, held))
  <2>1. Pinned(met, held) /\ Pushed(met, held) >= NoclipPush
    BY <1>6 DEF ThroughWall
  <2>2. engine.push < NoclipPush => engine.push + 1 >= NoclipPush
    BY <1>2, <2>1 DEF Pushed
  <2>3. leaning' = IF transit = "noclip" THEN 1
                   ELSE IF leaning < NoclipPush THEN leaning + 1 ELSE leaning
    BY <1>6, <2>1 DEF Tally
  <2>4. transit' = "noclip"
    BY <1>6 DEF Tally
  <2> QED BY <1>3, <2>2, <2>3, <2>4
<1> QED BY <1>1, <1>4, <1>5, <1>6

\* No door before its cooldown, no wall before the push (engine.rs
\* update_provisions and noclip.rs update_noclip).
THEOREM TransitsAreAlwaysEarned == Spec => TransitsAreEarned
<1>1. WandererInv /\ [Next]_vars =>
        [/\ transit' = "door" => settled + 1 >= DoorCooldown
         /\ transit' = "noclip" => leaning' = NoclipPush]_vars
  BY StepsEarnTransits
<1> QED BY <1>1, WandererInvariant, PTL DEF Spec, TransitsAreEarned

-----------------------------------------------------------------------------
(* Survival *)

Bodies == [reserve : [Kinds -> 0..Full], condition : 0..Full, excess : 0..100,
           pocket : [Kinds -> Nat], assisted : BOOLEAN, deaths : Nat]

\* What holds between two steps.
SurvivalInv ==
    /\ body \in Bodies /\ spent \in [Kinds -> Nat]
    /\ consumed \in SUBSET Supplies /\ store \in [Chunks -> SUBSET Supplies]
    /\ SuppliesConserved

\* advance_vitals wears the reserves and touches no pocket.
LEMMA Wearing ==
  ASSUME NEW b \in Bodies, NEW wear \in Wears
  PROVE  LET w == AdvanceVitals(b, wear) IN
         w \in Bodies /\ w.pocket = b.pocket /\ w.assisted = b.assisted /\ w.deaths = b.deaths
<1> DEFINE reserve == [k \in Kinds |-> Minus(b.reserve[k], wear[k])]
           hurt == Starved(reserve) * wear.wound
<1>1. wear \in [water : Nat, ration : Nat, wound : Nat, heal : Nat, calm : Nat]
  BY SurvivalAssumption DEF SurvivalAssumption
<1>2. reserve \in [Kinds -> 0..Full]
  <2>1. \A k \in Kinds : wear[k] \in Nat
    BY <1>1 DEF Kinds
  <2> QED BY <2>1 DEF Bodies, Minus, Full
<1>3. hurt \in Nat
  <2>1. IsFiniteSet(Kinds)
    <3>1. Kinds = ({} \cup {"water"}) \cup {"ration"}
      BY DEF Kinds
    <3>2. IsFiniteSet({} \cup {"water"})
      BY FS_EmptySet, FS_AddElement
    <3> QED BY <3>1, <3>2, FS_AddElement
  <2>2. Starved(reserve) \in Nat
    BY <2>1, FS_Subset, FS_CardinalityType DEF Starved
  <2>3. wear.wound \in Nat
    BY <1>1
  <2>4. \A m, n \in Nat : m * n \in Nat
    OBVIOUS
  <2> HIDE DEF reserve
  <2> QED BY <2>2, <2>3, <2>4
<1>4. AdvanceVitals(b, wear) =
        [b EXCEPT !.reserve = reserve,
                  !.condition = IF Starved(reserve) > 0 THEN Minus(@, hurt)
                                ELSE IF \A k \in Kinds : reserve[k] > 6
                                THEN Least(@ + wear.heal, Full) ELSE @]
  BY DEF AdvanceVitals
<1> HIDE DEF reserve, hurt
<1>5. /\ Minus(b.condition, hurt) \in 0..Full
      /\ Least(b.condition + wear.heal, Full) \in 0..Full
  BY <1>1, <1>3 DEF Minus, Least, Bodies, Full
<1> QED BY <1>2, <1>4, <1>5 DEF Bodies

\* What is taken of one kind leaves the other alone, and quenches the want.
LEMMA Consuming ==
  ASSUME NEW b \in Bodies, NEW kind \in Kinds
  PROVE  LET c == ConsumeOne(b, kind) IN
         /\ c \in Bodies /\ c.assisted = b.assisted /\ c.deaths = b.deaths
         /\ \A k \in Kinds \ {kind} : c.pocket[k] = b.pocket[k] /\ c.reserve[k] = b.reserve[k]
         /\ IF b.pocket[kind] = 0 THEN c = b
            ELSE c.pocket[kind] = b.pocket[kind] - 1 /\ c.reserve[kind] >= AutoConsumeAt
<1> DEFINE c == ConsumeOne(b, kind)
<1>1. CASE b.pocket[kind] = 0
  BY <1>1 DEF ConsumeOne
<1>2. CASE b.pocket[kind] # 0
  <2> DEFINE more == Least(b.reserve[kind] + Restores[kind], Full)
             waste == Least(b.excess + 4 * Waste(b, kind), 100)
             mended == IF kind = "water" THEN Least(b.condition + WaterMends, Full) ELSE b.condition
  <2>1. b.reserve[kind] \in 0..Full /\ b.excess \in 0..100 /\ b.condition \in 0..Full
        /\ b.pocket[kind] \in Nat
    BY DEF Bodies
  <2>2. Restores[kind] \in {11, 13}
    BY DEF Restores, Kinds
  <2>3. more \in 0..Full /\ more >= AutoConsumeAt
    BY <2>1, <2>2 DEF Least, Full, AutoConsumeAt
  <2>4. waste \in 0..100 /\ mended \in 0..Full
    BY <2>1, <2>2 DEF Least, Waste, Minus, Full, WaterMends
  <2>5. c = [b EXCEPT !.pocket[kind] = @ - 1, !.excess = waste,
                      !.reserve[kind] = more, !.condition = mended]
    <3>1. b.pocket = [b.pocket EXCEPT ![kind] = @] /\ kind \in DOMAIN b.reserve
      BY DEF Bodies
    <3>2. b = [b EXCEPT !.condition = @]
      BY DEF Bodies
    <3> QED BY <1>2, <3>2 DEF ConsumeOne, Bodies
  <2> HIDE DEF more, waste, mended, c
  <2>6. /\ [b.pocket EXCEPT ![kind] = @ - 1] \in [Kinds -> Nat]
        /\ [b.reserve EXCEPT ![kind] = more] \in [Kinds -> 0..Full]
    BY <1>2, <2>1, <2>3 DEF Bodies
  <2>7. /\ c \in Bodies /\ c.assisted = b.assisted /\ c.deaths = b.deaths
        /\ c.pocket = [b.pocket EXCEPT ![kind] = @ - 1]
        /\ c.reserve = [b.reserve EXCEPT ![kind] = more]
    BY <2>4, <2>5, <2>6 DEF Bodies
  <2> QED BY <1>2, <2>1, <2>3, <2>7 DEF c, Bodies
<1> QED BY <1>1, <1>2

\* Of each kind one at most, deliberately or by the assist, and the assist
\* leaves no want that the pocket could end.
LEMMA Measured ==
  ASSUME NEW b \in Bodies, NEW intent \in SUBSET Kinds
  PROVE  LET f == Consume(b, intent) IN
         /\ f \in Bodies /\ f.assisted = b.assisted /\ f.deaths = b.deaths
         /\ \A k \in Kinds :
              /\ f.pocket[k] \in {b.pocket[k], b.pocket[k] - 1}
              /\ b.assisted /\ f.pocket[k] > 0 => f.reserve[k] >= AutoConsumeAt
<1> DEFINE d1 == IF "water" \in intent THEN ConsumeOne(b, "water") ELSE b
           d2 == IF "ration" \in intent THEN ConsumeOne(d1, "ration") ELSE d1
           a1 == IF d2.assisted THEN AutoOne(d2, "water") ELSE d2
           a2 == IF d2.assisted THEN AutoOne(a1, "ration") ELSE d2
<1>1. Consume(b, intent) = a2
  BY DEF Consume, Deliberate, AutoConsume
<1>2. "water" \in Kinds /\ "ration" \in Kinds /\ "water" # "ration" /\ Kinds = {"water", "ration"}
  BY DEF Kinds
<1>3. /\ d1 \in Bodies /\ d1.assisted = b.assisted /\ d1.deaths = b.deaths
      /\ d1.pocket["ration"] = b.pocket["ration"] /\ d1.reserve["ration"] = b.reserve["ration"]
      /\ \/ d1.pocket["water"] = b.pocket["water"] /\ d1.reserve["water"] = b.reserve["water"]
         \/ d1.pocket["water"] = b.pocket["water"] - 1 /\ d1.reserve["water"] >= AutoConsumeAt
  BY <1>2, Consuming
<1> HIDE DEF d1
<1>4. /\ d2 \in Bodies /\ d2.assisted = d1.assisted /\ d2.deaths = d1.deaths
      /\ d2.pocket["water"] = d1.pocket["water"] /\ d2.reserve["water"] = d1.reserve["water"]
      /\ \/ d2.pocket["ration"] = d1.pocket["ration"] /\ d2.reserve["ration"] = d1.reserve["ration"]
         \/ d2.pocket["ration"] = d1.pocket["ration"] - 1 /\ d2.reserve["ration"] >= AutoConsumeAt
  BY <1>2, <1>3, Consuming
<1> HIDE DEF d2
<1>5. AutoConsumeAt = 10 /\ \A k \in Kinds : b.pocket[k] \in Nat /\ d1.pocket[k] \in Nat
        /\ d2.pocket[k] \in Nat /\ d2.reserve[k] \in Nat
  BY <1>3, <1>4 DEF Bodies, AutoConsumeAt, Full
<1>6. CASE ~d2.assisted
  <2>1. a2 = d2
    BY <1>6
  <2> QED BY <1>1, <1>2, <1>3, <1>4, <1>5, <1>6, <2>1
<1>7. CASE d2.assisted
  <2> DEFINE wants(e, k) == e.reserve[k] < AutoConsumeAt
  <2>1. /\ a1 \in Bodies /\ a1.assisted = d2.assisted /\ a1.deaths = d2.deaths
        /\ a1.pocket["ration"] = d2.pocket["ration"] /\ a1.reserve["ration"] = d2.reserve["ration"]
        /\ IF wants(d2, "water") /\ d2.pocket["water"] # 0
           THEN a1.pocket["water"] = d2.pocket["water"] - 1 /\ a1.reserve["water"] >= AutoConsumeAt
           ELSE a1.pocket["water"] = d2.pocket["water"] /\ a1.reserve["water"] = d2.reserve["water"]
    <3>1. a1 = IF wants(d2, "water") THEN ConsumeOne(d2, "water") ELSE d2
      BY <1>7 DEF AutoOne
    <3> HIDE DEF wants, a1
    <3>2. CASE wants(d2, "water")
      <4>1. a1 = ConsumeOne(d2, "water")
        BY <3>1, <3>2
      <4> QED BY <1>2, <1>4, <3>2, <4>1, Consuming
    <3> QED BY <1>4, <3>1, <3>2
  <2> HIDE DEF a1
  <2>2. /\ a2 \in Bodies /\ a2.assisted = a1.assisted /\ a2.deaths = a1.deaths
        /\ a2.pocket["water"] = a1.pocket["water"] /\ a2.reserve["water"] = a1.reserve["water"]
        /\ IF wants(a1, "ration") /\ a1.pocket["ration"] # 0
           THEN a2.pocket["ration"] = a1.pocket["ration"] - 1 /\ a2.reserve["ration"] >= AutoConsumeAt
           ELSE a2.pocket["ration"] = a1.pocket["ration"] /\ a2.reserve["ration"] = a1.reserve["ration"]
    <3>1. a2 = IF wants(a1, "ration") THEN ConsumeOne(a1, "ration") ELSE a1
      BY <1>7 DEF AutoOne
    <3> HIDE DEF wants, a2
    <3>2. CASE wants(a1, "ration")
      <4>1. a2 = ConsumeOne(a1, "ration")
        BY <3>1, <3>2
      <4> QED BY <1>2, <2>1, <3>2, <4>1, Consuming
    <3> QED BY <2>1, <3>1, <3>2
  <2> HIDE DEF a2
  <2>3. /\ a2.pocket["water"] \in {b.pocket["water"], b.pocket["water"] - 1}
        /\ a2.pocket["water"] > 0 => a2.reserve["water"] >= AutoConsumeAt
    BY <1>2, <1>3, <1>4, <1>5, <2>1, <2>2
  <2>4. /\ a2.pocket["ration"] \in {b.pocket["ration"], b.pocket["ration"] - 1}
        /\ a2.pocket["ration"] > 0 => a2.reserve["ration"] >= AutoConsumeAt
    BY <1>2, <1>3, <1>4, <1>5, <2>1, <2>2
  <2> QED BY <1>1, <1>2, <1>3, <1>4, <2>1, <2>2, <2>3, <2>4
<1> QED BY <1>6, <1>7

\* succumb_if_dead empties the pockets or does nothing.
LEMMA Succumbing ==
  ASSUME NEW b \in Bodies
  PROVE  LET s == Succumb(b) IN
         /\ s \in Bodies
         /\ \A k \in Kinds : s.pocket[k] <= b.pocket[k]
         /\ s.deaths = b.deaths => s = b
<1>1. CASE b.condition > 0
  BY <1>1 DEF Succumb, Bodies
<1>2. CASE ~(b.condition > 0)
  <2> DEFINE s == [b EXCEPT !.deaths = @ + 1, !.reserve = [k \in Kinds |-> Full],
                   !.condition = Full, !.pocket = [k \in Kinds |-> 0]]
  <2>1. Succumb(b) = s
    BY <1>2 DEF Succumb, NewVitals
  <2>2. /\ [k \in Kinds |-> Full] \in [Kinds -> 0..Full] /\ [k \in Kinds |-> 0] \in [Kinds -> Nat]
        /\ Full \in 0..Full /\ b.deaths + 1 \in Nat
    BY DEF Bodies, Full
  <2>3. s \in Bodies /\ s.deaths = b.deaths + 1 /\ s.pocket = [k \in Kinds |-> 0]
    BY <2>2 DEF Bodies
  <2> HIDE DEF s
  <2> QED BY <2>1, <2>3 DEF Bodies
<1> QED BY <1>1, <1>2

\* What is taken anew adds to what the reality has lost.
LEMMA CountsAdd ==
  ASSUME NEW had, NEW new, IsFiniteSet(had), IsFiniteSet(new), had \cap new = {}, NEW k
  PROVE  /\ Cardinality(OfKind(new, k)) \in Nat
         /\ Cardinality(OfKind(had \cup new, k)) =
              Cardinality(OfKind(had, k)) + Cardinality(OfKind(new, k))
<1> DEFINE old == OfKind(had, k)
           more == OfKind(new, k)
<1>1. IsFiniteSet(old) /\ IsFiniteSet(more)
  BY FS_Subset DEF OfKind
<1>2. OfKind(had \cup new, k) = old \cup more /\ old \cap more = {}
  BY DEF OfKind
<1> HIDE DEF old, more
<1>3. Cardinality(old) \in Nat /\ Cardinality(more) \in Nat
  BY <1>1, FS_CardinalityType
<1>4. Cardinality(old \cup more) = Cardinality(old) + Cardinality(more) - Cardinality(old \cap more)
  BY <1>1, FS_Union
<1>5. Cardinality(old \cap more) = 0
  BY <1>2, FS_EmptySet
<1>6. Cardinality(old \cup more) = Cardinality(old) + Cardinality(more)
  BY <1>3, <1>4, <1>5
<1> QED BY <1>2, <1>3, <1>6 DEF old, more

\* What a tick makes of the body, of what is taken and of what is spent.
LEMMA SurvivalTicks ==
  ASSUME SurvivalInv, NEW reached \in SUBSET Standing,
         NEW wear \in Wears, NEW intent \in SUBSET Kinds, SurvivalTick(reached, wear, intent)
  PROVE  SurvivalInv' /\
         \A k \in Kinds :
            body'.deaths = body.deaths =>
            /\ spent'[k] <= spent[k] + 1
            /\ body.assisted /\ body'.pocket[k] > 0 => body'.reserve[k] >= AutoConsumeAt
<1> DEFINE taken == Stocked(reached)
           got == [body EXCEPT !.pocket = Pocket(taken)]
           worn == AdvanceVitals(got, wear)
           fed == Consume(worn, intent)
           left == Succumb(fed)
<1>1. /\ consumed' = consumed \cup taken
      /\ store' \in {store} \cup {Arrives(c, known) : c \in Chunks, known \in {{}, consumed}}
      /\ body' = [left EXCEPT !.excess = Minus(@, wear.calm)]
      /\ spent' = [k \in Kinds |-> spent[k] + (got.pocket[k] - left.pocket[k])]
  BY DEF SurvivalTick
<1>2. taken \in SUBSET (Supplies \ consumed)
  <2>1. \A c \in Chunks : store[c] \in SUBSET Supplies
    BY DEF SurvivalInv
  <2>2. reached \in SUBSET (Supplies \ consumed)
    BY <2>1 DEF Standing
  <2> QED BY <2>2 DEF Stocked
<1> HIDE DEF taken
<1>3. IsFiniteSet(Supplies)
  BY SurvivalAssumption DEF SurvivalAssumption
<1>4. \A k \in Kinds : /\ Cardinality(OfKind(taken, k)) \in Nat
                       /\ Cardinality(OfKind(consumed \cup taken, k)) =
                            Cardinality(OfKind(consumed, k)) + Cardinality(OfKind(taken, k))
  <2>1. IsFiniteSet(consumed) /\ IsFiniteSet(taken) /\ consumed \cap taken = {}
    BY <1>2, <1>3, FS_Subset DEF SurvivalInv
  <2> QED BY <2>1, CountsAdd
<1>5. Pocket(taken) \in [Kinds -> Nat]
  BY <1>4 DEF Pocket, SurvivalInv, Bodies
<1>6. /\ got \in Bodies /\ got.assisted = body.assisted /\ got.deaths = body.deaths
      /\ \A k \in Kinds : got.pocket[k] = body.pocket[k] + Cardinality(OfKind(taken, k))
  BY <1>5 DEF Pocket, SurvivalInv, Bodies
<1> HIDE DEF got
<1>7. worn \in Bodies /\ worn.pocket = got.pocket /\ worn.assisted = got.assisted
      /\ worn.deaths = got.deaths
  BY <1>6, Wearing
<1> HIDE DEF worn
<1>8. /\ fed \in Bodies /\ fed.assisted = worn.assisted /\ fed.deaths = worn.deaths
      /\ \A k \in Kinds :
           /\ fed.pocket[k] \in {worn.pocket[k], worn.pocket[k] - 1}
           /\ worn.assisted /\ fed.pocket[k] > 0 => fed.reserve[k] >= AutoConsumeAt
  BY <1>7, Measured
<1> HIDE DEF fed
<1>9. /\ left \in Bodies
      /\ \A k \in Kinds : left.pocket[k] <= fed.pocket[k]
      /\ left.deaths = fed.deaths => left = fed
  BY <1>8, Succumbing
<1> HIDE DEF left
<1>10. wear.calm \in Nat
  BY SurvivalAssumption DEF SurvivalAssumption
<1>11. /\ body' \in Bodies /\ body'.pocket = left.pocket /\ body'.reserve = left.reserve
       /\ body'.deaths = left.deaths
  <2>1. Minus(left.excess, wear.calm) \in 0..100
    BY <1>9, <1>10 DEF Minus, Bodies
  <2> QED BY <1>1, <1>9, <2>1 DEF Bodies
<1>12. store' \in [Chunks -> SUBSET Supplies]
  <2>1. CASE store' = store
    BY <2>1 DEF SurvivalInv
  <2>2. ASSUME NEW c \in Chunks, NEW known \in {{}, consumed}, store' = Arrives(c, known)
        PROVE  store' \in [Chunks -> SUBSET Supplies]
    BY <2>2, SurvivalAssumption DEF SurvivalAssumption, Arrives, SurvivalInv
  <2> QED BY <1>1, <2>1, <2>2
<1>13. ASSUME NEW k \in Kinds
       PROVE  /\ spent'[k] \in Nat
              /\ Cardinality(OfKind(consumed', k)) = body'.pocket[k] + spent'[k]
              /\ body'.deaths = body.deaths =>
                   /\ spent'[k] <= spent[k] + 1
                   /\ body.assisted /\ body'.pocket[k] > 0 => body'.reserve[k] >= AutoConsumeAt
  <2>1. /\ got.pocket[k] \in Nat /\ left.pocket[k] \in Nat /\ fed.pocket[k] \in Nat
        /\ spent[k] \in Nat /\ body.pocket[k] \in Nat
    BY <1>6, <1>8, <1>9 DEF Bodies, SurvivalInv
  <2>2. spent'[k] = spent[k] + (got.pocket[k] - left.pocket[k])
    BY <1>1
  <2>3. fed.pocket[k] \in {got.pocket[k], got.pocket[k] - 1} /\ left.pocket[k] <= fed.pocket[k]
    BY <1>7, <1>8, <1>9
  <2>4. Cardinality(OfKind(consumed, k)) = body.pocket[k] + spent[k]
    BY DEF SurvivalInv, SuppliesConserved
  <2>5. Cardinality(OfKind(consumed', k)) = got.pocket[k] + spent[k]
    <3>1. Cardinality(OfKind(consumed \cup taken, k)) = got.pocket[k] + spent[k]
      <4>1. /\ Cardinality(OfKind(taken, k)) \in Nat
            /\ Cardinality(OfKind(consumed \cup taken, k)) =
                 Cardinality(OfKind(consumed, k)) + Cardinality(OfKind(taken, k))
            /\ got.pocket[k] = body.pocket[k] + Cardinality(OfKind(taken, k))
        BY <1>4, <1>6
      <4> QED BY <2>1, <2>4, <4>1
    <3> QED BY <1>1, <3>1 DEF OfKind
  <2>6. body'.deaths = body.deaths => left = fed
    BY <1>6, <1>7, <1>8, <1>9, <1>11
  <2>7. body'.pocket[k] = left.pocket[k] /\ body'.reserve[k] = left.reserve[k]
    BY <1>11
  <2>8. spent'[k] \in Nat /\ Cardinality(OfKind(consumed', k)) = body'.pocket[k] + spent'[k]
    BY <2>1, <2>2, <2>3, <2>5, <2>7
  <2>9. left = fed => spent'[k] <= spent[k] + 1
    BY <2>1, <2>2, <2>3
  <2>10. left = fed /\ body.assisted /\ body'.pocket[k] > 0 => body'.reserve[k] >= AutoConsumeAt
    BY <1>6, <1>7, <1>8, <2>7
  <2> QED BY <2>6, <2>8, <2>9, <2>10
<1>14. spent' \in [Kinds -> Nat]
  BY <1>1, <1>13
<1>15. SuppliesConserved'
  BY <1>13 DEF SuppliesConserved, OfKind
<1>16. consumed' \in SUBSET Supplies
  BY <1>1, <1>2 DEF SurvivalInv
<1> QED BY <1>11, <1>12, <1>13, <1>14, <1>15, <1>16 DEF SurvivalInv

\* The initial body satisfies the invariant.
LEMMA SurvivalInvInit == SurvivalInit => SurvivalInv
<1> SUFFICES ASSUME SurvivalInit PROVE SurvivalInv
  OBVIOUS
<1>1. body \in Bodies
  BY DEF SurvivalInit, NewBody, NewVitals, Bodies, Full
<1>2. SuppliesConserved
  <2>1. \A k \in Kinds : OfKind(consumed, k) = {} /\ body.pocket[k] = 0 /\ spent[k] = 0
    BY DEF OfKind, SurvivalInit, NewBody
  <2> QED BY <2>1, FS_EmptySet DEF SuppliesConserved
<1> QED BY <1>1, <1>2 DEF SurvivalInv, SurvivalInit

\* Every step keeps the invariant.
LEMMA SurvivalInvNext == SurvivalInv /\ [SurvivalNext]_survivalVars => SurvivalInv'
<1> SUFFICES ASSUME SurvivalInv, [SurvivalNext]_survivalVars PROVE SurvivalInv'
  OBVIOUS
<1>1. CASE SetAssisted
  <2>1. body' = [body EXCEPT !.assisted = ~@] /\ UNCHANGED <<consumed, store, spent>>
    BY <1>1 DEF SetAssisted
  <2>2. body' \in Bodies /\ body'.pocket = body.pocket
    BY <2>1 DEF SurvivalInv, Bodies
  <2> QED BY <2>1, <2>2 DEF SurvivalInv, SuppliesConserved, OfKind
<1>2. ASSUME NEW reached \in SUBSET Standing,
             NEW wear \in Wears, NEW intent \in SUBSET Kinds, SurvivalTick(reached, wear, intent)
      PROVE  SurvivalInv'
  BY <1>2, SurvivalTicks
<1>3. CASE UNCHANGED survivalVars
  BY <1>3 DEF survivalVars, SurvivalInv, SuppliesConserved, OfKind
<1> QED BY <1>1, <1>2, <1>3 DEF SurvivalNext

\* Bodies are typed and supplies conserved.
THEOREM SurvivalInvariant == SurvivalSpec => []SurvivalInv
BY SurvivalInvInit, SurvivalInvNext, PTL DEF SurvivalSpec

\* Every supply the reality has lost is in a pocket, was used or went with a death,
\* however many chunks list it (engine.rs update_provisions).
THEOREM SuppliesAreConserved == SurvivalSpec => []SuppliesConserved
<1>1. SurvivalInv => SuppliesConserved
  BY DEF SurvivalInv
<1> QED BY <1>1, SurvivalInvariant, PTL

\* What one step takes from the pockets.
LEMMA StepsMeasure ==
  ASSUME SurvivalInv, SurvivalNext
  PROVE  \A k \in Kinds :
          body'.deaths = body.deaths =>
          /\ spent'[k] <= spent[k] + 1
          /\ body.assisted /\ body'.assisted /\ body'.pocket[k] > 0 =>
                body'.reserve[k] >= AutoConsumeAt
<1>1. CASE SetAssisted
  <2>1. body'.assisted = ~body.assisted /\ spent' = spent
    BY <1>1 DEF SetAssisted, SurvivalInv, Bodies
  <2>2. \A k \in Kinds : spent[k] \in Nat
    BY DEF SurvivalInv
  <2>3. ~(body.assisted /\ body'.assisted)
    BY Zenon, <2>1
  <2> QED BY <2>1, <2>2, <2>3
<1>2. ASSUME NEW reached \in SUBSET Standing,
             NEW wear \in Wears, NEW intent \in SUBSET Kinds, SurvivalTick(reached, wear, intent)
      PROVE  \A k \in Kinds :
               body'.deaths = body.deaths =>
               /\ spent'[k] <= spent[k] + 1
               /\ body.assisted /\ body'.pocket[k] > 0 => body'.reserve[k] >= AutoConsumeAt
  BY <1>2, SurvivalTicks
<1> QED BY <1>1, <1>2 DEF SurvivalNext

\* One of a kind per tick at most, and no want beside a full pocket
\* (survival_inventory.rs consume).
THEOREM AssistIsAlwaysMeasured == SurvivalSpec => AssistIsMeasured
<1>1. SurvivalInv /\ [SurvivalNext]_survivalVars =>
        [\A k \in Kinds :
          body'.deaths = body.deaths =>
          /\ spent'[k] <= spent[k] + 1
          /\ body.assisted /\ body'.assisted /\ body'.pocket[k] > 0 =>
                body'.reserve[k] >= AutoConsumeAt]_survivalVars
  BY StepsMeasure
<1> QED BY <1>1, SurvivalInvariant, PTL DEF SurvivalSpec, AssistIsMeasured
=============================================================================

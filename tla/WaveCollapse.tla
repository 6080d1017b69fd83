---------------------------- MODULE WaveCollapse ----------------------------
(***************************************************************************)
(* solve_wfc() of wfc3d.rs: every cell of a lattice starts with all        *)
(* modules, a cell of lowest entropy is drawn, and what its neighbours do  *)
(* not tolerate is taken from them until the wave is quiet.                *)
(*                                                                         *)
(* A superposition is the set of its modules.  Weights matter only by the  *)
(* order of the entropies they give; which module is drawn is left open.   *)
(***************************************************************************)
EXTENDS Integers, Sequences

CONSTANTS
  Modules,
  Lattices,   \* what is solved: [extent, rules, entropy], the rules as given to
              \* allow(), the entropy of every superposition a number
  Nowhere     \* no cell

Axis6 == 0..5   \* PosX, NegX, PosY, NegY, PosZ, NegZ
CellsOf(e) == (0..(e[1] - 1)) \X (0..(e[2] - 1)) \X (0..(e[3] - 1))

ASSUME WaveAssumption ==
  /\ Modules # {}
  /\ \A l \in Lattices :
       /\ l.extent \in (Nat \ {0}) \X (Nat \ {0}) \X (Nat \ {0})
       /\ l.rules \subseteq Modules \X Axis6 \X Modules
       /\ l.entropy \in [SUBSET Modules -> Int]
       /\ Nowhere \notin CellsOf(l.extent)

VARIABLES
  lattice,
  cells,
  work,       \* cells that changed, the last on top
  busy, dir,  \* the cell whose neighbours are restricted, and how far
  outcome,    \* "running", "contradiction" or "solved"
  drawn       \* history: the modules drawn, by cell

waveVars == <<lattice, cells, work, busy, dir, outcome, drawn>>

Cells == CellsOf(lattice.extent)

\* index_of() and back.
IndexOf(e, c) == (c[2] * e[3] + c[3]) * e[1] + c[1]
CellAt(e, i) == <<i % e[1], i \div (e[1] * e[3]), (i \div e[1]) % e[3]>>

Opposite(d) == IF d % 2 = 0 THEN d + 1 ELSE d - 1
Offset(d) ==
  CASE d = 0 -> <<1, 0, 0>> [] d = 1 -> <<-1, 0, 0>> [] d = 2 -> <<0, 1, 0>>
    [] d = 3 -> <<0, -1, 0>> [] d = 4 -> <<0, 0, 1>> [] OTHER -> <<0, 0, -1>>
NextTo(c, d) == <<c[1] + Offset(d)[1], c[2] + Offset(d)[2], c[3] + Offset(d)[3]>>

\* What may stand beside a: allow() records a rule and its mirror.
Allowed(a, d) ==
  {b \in Modules : <<a, d, b>> \in lattice.rules \/ <<b, Opposite(d), a>> \in lattice.rules}

(* Mutant: a module must be tolerated by every candidate.                  *)
SupportOfAll(mask, d) == {b \in Modules : \A a \in mask : b \in Allowed(a, d)}

Support(mask, d) == UNION {Allowed(a, d) : a \in mask}

\* What is left of the neighbour of c in this direction.
Restricted(c, d) == cells[NextTo(c, d)] \cap Support(cells[c], d)

Superposed(c) == \E a, b \in cells[c] : a # b

WaveInit ==
  /\ lattice \in Lattices
  /\ cells = [c \in Cells |-> Modules]
  /\ work = [i \in 1..(lattice.extent[1] * lattice.extent[2] * lattice.extent[3]) |->
               CellAt(lattice.extent, i - 1)]
  /\ busy = Nowhere /\ dir = 0
  /\ outcome = "running"
  /\ drawn = <<>>

-----------------------------------------------------------------------------
(* propagate()                                                             *)

Pop ==
  /\ outcome = "running" /\ busy = Nowhere /\ work # <<>>
  /\ busy' = work[Len(work)]
  /\ work' = SubSeq(work, 1, Len(work) - 1)
  /\ dir' = 0
  /\ UNCHANGED <<lattice, cells, outcome, drawn>>

(* Mutant: the last axis is left out.                                      *)
FourDirections ==
  IF dir = 3 THEN busy' = Nowhere /\ dir' = 0 ELSE busy' = busy /\ dir' = dir + 1

NextDirection ==
  IF dir = 5 THEN busy' = Nowhere /\ dir' = 0 ELSE busy' = busy /\ dir' = dir + 1

\* Beyond the lattice, or nothing to take away.
Pass ==
  /\ busy # Nowhere /\ outcome = "running"
  /\ NextTo(busy, dir) \in Cells => Restricted(busy, dir) = cells[NextTo(busy, dir)]
  /\ NextDirection
  /\ UNCHANGED <<lattice, cells, work, outcome, drawn>>

RestrictNeighbour ==
  /\ busy # Nowhere /\ outcome = "running"
  /\ NextTo(busy, dir) \in Cells
  /\ Restricted(busy, dir) \notin {{}, cells[NextTo(busy, dir)]}
  /\ cells' = [cells EXCEPT ![NextTo(busy, dir)] = Restricted(busy, dir)]
  /\ work' = Append(work, NextTo(busy, dir))   \* it restricts its own in turn
  /\ NextDirection
  /\ UNCHANGED <<lattice, outcome, drawn>>

Contradict ==
  /\ busy # Nowhere /\ outcome = "running"
  /\ NextTo(busy, dir) \in Cells
  /\ Restricted(busy, dir) = {} /\ cells[NextTo(busy, dir)] # {}
  /\ outcome' = "contradiction"
  /\ UNCHANGED <<lattice, cells, work, busy, dir, drawn>>

-----------------------------------------------------------------------------
(* lowest_entropy_cell() and collapse()                                    *)

WaveQuiet == outcome = "running" /\ busy = Nowhere /\ work = <<>>

EntropyOf(c) == lattice.entropy[cells[c]]

\* The first such cell wins ties.
IsLowest(c) ==
  /\ Superposed(c)
  /\ \A b \in Cells : Superposed(b) =>
       \/ EntropyOf(c) < EntropyOf(b)
       \/ /\ EntropyOf(c) = EntropyOf(b)
          /\ IndexOf(lattice.extent, c) <= IndexOf(lattice.extent, b)

Draw(c, m) ==
  /\ WaveQuiet /\ IsLowest(c) /\ m \in cells[c]
  /\ cells' = [cells EXCEPT ![c] = {m}]
  /\ work' = <<c>>
  /\ drawn' = [b \in DOMAIN drawn \cup {c} |-> IF b = c THEN m ELSE drawn[b]]
  /\ UNCHANGED <<lattice, busy, dir, outcome>>

Solve ==
  /\ WaveQuiet /\ \A c \in Cells : ~Superposed(c)
  /\ outcome' = "solved"
  /\ UNCHANGED <<lattice, cells, work, busy, dir, drawn>>

WaveNext ==
  \/ Pop \/ Pass \/ RestrictNeighbour \/ Contradict
  \/ \E c \in Cells : \E m \in Modules : Draw(c, m)
  \/ Solve

WaveSpec == WaveInit /\ [][WaveNext]_waveVars

-----------------------------------------------------------------------------
\* Modules that tolerate each other wherever they meet.
Legal(layout) ==
  \A c \in Cells : \A d \in Axis6 :
    NextTo(c, d) \in Cells => layout[NextTo(c, d)] \in Allowed(layout[c], d)

(* A solution obeys the rules in all six directions.  No step compares two *)
(* cells for this: it rests on the worklist forgetting none that changed.  *)
SolutionsAreLegal ==
  outcome = "solved" =>
    \E layout \in [Cells -> Modules] : Legal(layout) /\ \A c \in Cells : cells[c] = {layout[c]}

\* Every layout that obeys the rules and the draws is still there, and
\* without a contradiction.
NothingLegalLost ==
  \A layout \in [Cells -> Modules] :
    (Legal(layout) /\ \A c \in DOMAIN drawn : layout[c] = drawn[c])
      => outcome # "contradiction" /\ \A c \in Cells : layout[c] \in cells[c]

\* One module is declared beside every other, one way round or the other, in
\* each direction the lattice extends.
Permissive ==
  \E u \in Modules : \A a \in Modules, c \in Cells, d \in Axis6 :
    NextTo(c, d) \in Cells =>
      <<a, d, u>> \in lattice.rules \/ <<u, Opposite(d), a>> \in lattice.rules

(* Propagation takes away only what cannot be, and a contradiction,        *)
(* "reported with its position rather than papered over" (wfc3d.rs:7), is  *)
(* a real one.  With solve_plate()'s catalogue there is none at all: its   *)
(* answer to one is, as menger_expanse.rs:233 has it, "unreachable".       *)
ContradictionsAreReal ==
  NothingLegalLost /\ (Permissive => outcome # "contradiction")
=============================================================================

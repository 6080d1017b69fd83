------------------------------- MODULE Reality -------------------------------
(***************************************************************************)
(* The reality snapshot (domain/entities/anomaly/reality.rs) as what it    *)
(* means, without its representation: encounter stamps per anomaly         *)
(* instance, drift epochs per cell, the supplies consumed and the delirium *)
(* tier.  Every operation returns a new snapshot; the engine's active      *)
(* snapshot is the state here.  RealitySnapshot implements this            *)
(* specification with sorted vectors.                                      *)
(***************************************************************************)
EXTENDS Naturals, FiniteSets

CONSTANTS
  Instance,       \* anomaly instances
  Gate,           \* traversal gates
  Of,             \* gate -> the instance it belongs to
  Kind,           \* gate -> kind
  Forward,        \* gate -> authored inward direction
  Cell, Supply,
  MaxDelirium,
  MaxCrossings,   \* bound on accepted gate events, for TLC
  MaxDrifts       \* bound on drift epochs, for TLC

Direction == {"positive", "negative"}
GateKind == {"remap", "threshold", "loop", "escape"}

ASSUME RealityAssumption ==
  /\ Of \in [Gate -> Instance]
  /\ Kind \in [Gate -> GateKind]
  /\ Forward \in [Gate -> Direction]
  /\ MaxDelirium \in Nat /\ MaxCrossings \in Nat /\ MaxDrifts \in Nat

VARIABLES
  stamps,     \* instances crossed so far -> their encounter stamp
  drift,      \* cell -> drift epoch
  consumed,   \* supplies consumed
  delirium,
  latest,     \* history: instance of the last crossing that committed to a
              \* Red Room or moved one already committed to
  walked,     \* history: loop crossings since the escape was last withdrawn
  crossings   \* counter behind the bound

encounterVars == <<stamps, latest, walked, crossings>>
vars == <<encounterVars, drift, consumed, delirium>>

Phase == {"outside", "sealed", "escape"}
LoopsToOpenEscape == 7

Stamp == [epoch : Nat, phase : Phase, loops : Nat,
          direction : Direction, gate : Gate]

Known(i) == i \in DOMAIN stamps
Committed == {i \in DOMAIN stamps : stamps[i].phase # "outside"}

Init ==
  /\ stamps = [i \in {} |-> 0]
  /\ drift = [c \in Cell |-> 0]
  /\ consumed = {}
  /\ delirium = 0
  /\ latest \in Instance
  /\ walked = [i \in Instance |-> 0]
  /\ crossings = 0

-----------------------------------------------------------------------------
(* with_advanced_gate()                                                    *)

Epochs == {0} \cup {stamps[i].epoch : i \in DOMAIN stamps}
Newest == CHOOSE e \in Epochs : \A f \in Epochs : f <= e

(* Mutant: revisions are counted per instance.                             *)
OwnNextEpoch(i) == IF Known(i) THEN stamps[i].epoch + 1 ELSE 1

(* The epoch is a snapshot-wide encounter revision.                        *)
NextEpoch(i) == Newest + 1

(* Streaming may report one crossing more than once.                       *)
Repeated(g, d) ==
  /\ Known(Of[g])
  /\ stamps[Of[g]].gate = g
  /\ stamps[Of[g]].direction = d

Before(i) ==
  IF Known(i)
  THEN [epoch |-> stamps[i].epoch, phase |-> stamps[i].phase, loops |-> stamps[i].loops]
  ELSE [epoch |-> NextEpoch(i), phase |-> "outside", loops |-> 0]

(* Mutant: withdrawing the escape keeps the count.                         *)
WithdrawKeepingCount(s, i) ==
  [s EXCEPT !.phase = "sealed", !.epoch = NextEpoch(i)]

Withdraw(s, i) ==
  [s EXCEPT !.phase = "sealed", !.loops = 0, !.epoch = NextEpoch(i)]

WalkLoop(s, i) ==
  [s EXCEPT !.phase = IF s.loops + 1 >= LoopsToOpenEscape THEN "escape" ELSE "sealed",
            !.loops = @ + 1,
            !.epoch = NextEpoch(i)]

AdvanceRemap(s, i) == [s EXCEPT !.epoch = NextEpoch(i)]

AdvanceRedThreshold(s, i, inward) ==
  IF inward THEN [s EXCEPT !.phase = "sealed", !.epoch = NextEpoch(i)] ELSE s

AdvanceRedLoop(s, i) ==
  CASE s.phase = "sealed" -> WalkLoop(s, i)
    [] s.phase = "escape" -> Withdraw(s, i)
    [] OTHER -> s

(* Crossing the escape is only recorded.                                   *)
TransitionFor(g, d) ==
  LET i == Of[g]
      s == Before(i)
  IN  CASE Kind[g] = "remap" -> AdvanceRemap(s, i)
        [] Kind[g] = "threshold" -> AdvanceRedThreshold(s, i, d = Forward[g])
        [] Kind[g] = "loop" -> AdvanceRedLoop(s, i)
        [] OTHER -> s

NewStamp(g, d) ==
  LET t == TransitionFor(g, d)
  IN  [epoch |-> t.epoch, phase |-> t.phase, loops |-> t.loops,
       direction |-> d, gate |-> g]

WithStamp(i, s) ==
  [j \in DOMAIN stamps \cup {i} |-> IF j = i THEN s ELSE stamps[j]]

(* The crossings that make an instance the latest committed encounter, and *)
(* the loop crossings a committed room accepts.                            *)
Moves(g, d) ==
  \/ Kind[g] = "threshold" /\ d = Forward[g]
  \/ Kind[g] \in {"loop", "remap"} /\ Of[g] \in Committed

LoopsWalked(g) ==
  LET i == Of[g]
  IN  IF Kind[g] # "loop" \/ i \notin Committed THEN walked[i]
      ELSE IF stamps[i].phase = "escape" THEN 0 ELSE walked[i] + 1

CrossGate(g, d) ==
  /\ ~Repeated(g, d)
  /\ crossings < MaxCrossings /\ crossings' = crossings + 1
  /\ stamps' = WithStamp(Of[g], NewStamp(g, d))
  /\ latest' = IF Moves(g, d) THEN Of[g] ELSE latest
  /\ walked' = [walked EXCEPT ![Of[g]] = LoopsWalked(g)]
  /\ UNCHANGED <<drift, consumed, delirium>>

-----------------------------------------------------------------------------
(* with_fabric_drift_advanced(), for all the cells one event rearranges.   *)
AdvanceDrift(cells) ==
  /\ \A c \in cells : drift[c] < MaxDrifts
  /\ drift' = [c \in Cell |-> IF c \in cells THEN drift[c] + 1 ELSE drift[c]]
  /\ UNCHANGED <<encounterVars, consumed, delirium>>

(* with_supply_consumed()                                                  *)
Consume(id) ==
  /\ consumed' = consumed \cup {id}
  /\ UNCHANGED <<encounterVars, drift, delirium>>

(* with_delirium()                                                         *)
ChangeDelirium(tier) ==
  /\ delirium' = tier
  /\ UNCHANGED <<encounterVars, drift, consumed>>

Next ==
  \/ \E g \in Gate, d \in Direction : CrossGate(g, d)
  \/ \E cells \in SUBSET Cell : AdvanceDrift(cells)
  \/ \E id \in Supply : Consume(id)
  \/ \E tier \in 0..MaxDelirium : ChangeDelirium(tier)

Spec == Init /\ [][Next]_vars

-----------------------------------------------------------------------------
(* Every variable keeps its type.                                          *)
TypeOK ==
  /\ DOMAIN stamps \subseteq Instance
  /\ stamps \in [DOMAIN stamps -> Stamp]
  /\ drift \in [Cell -> Nat]
  /\ consumed \subseteq Supply
  /\ delirium \in 0..MaxDelirium
  /\ latest \in Instance
  /\ walked \in [Instance -> Nat]
  /\ crossings \in 0..MaxCrossings

(* Two encounters never share a revision.                                  *)
EpochsUnambiguous ==
  \A i, j \in DOMAIN stamps : stamps[i].epoch = stamps[j].epoch => i = j

(* There is a newest revision (used by NextEpoch).                         *)
NewestExists == \E e \in Epochs : \A f \in Epochs : f <= e

(* active_red_room(): the committed encounter with the greatest epoch.     *)
Active == CHOOSE i \in Committed :
            \A j \in Committed : stamps[j].epoch <= stamps[i].epoch

LatestIsNewest ==
  Committed # {} =>
    /\ latest \in Committed
    /\ \A j \in Committed : stamps[j].epoch <= stamps[latest].epoch

LoopsAreWalked ==
  \A i \in DOMAIN stamps :
    /\ stamps[i].loops <= walked[i]
    /\ stamps[i].phase = "escape" => walked[i] >= LoopsToOpenEscape

(* What every operation of the reducer preserves and the properties below  *)
(* follow from: revisions are unique, there is a newest one, the newest    *)
(* committed encounter is the one that moved last, and no room counts      *)
(* loops that were not walked.                                             *)
Inductive ==
  /\ TypeOK
  /\ EpochsUnambiguous
  /\ NewestExists
  /\ LatestIsNewest
  /\ LoopsAreWalked

(* The world shown is that of the Red Room entered or moved last, whatever *)
(* the ids of the rooms and however often the wanderer goes back and forth *)
(* between them ("the most recently entered recursive Red Room [is]        *)
(* unambiguous even when a child encounter has a different stable id").    *)
ActiveIsLatest == Committed # {} => Active = latest

(* An escape is only open after seven loop crossings since it was last     *)
(* withdrawn, however often the room is entered again in between.          *)
EscapeIsEarned ==
  \A i \in Committed : stamps[i].phase = "escape" => walked[i] >= LoopsToOpenEscape
=============================================================================

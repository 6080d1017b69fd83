------------------------------- MODULE RedRooms -------------------------------
(***************************************************************************)
(* Red Rooms: the reality snapshot composed with the gates that resident   *)
(* chunks export.  A committed Red Room selects another infinite level;    *)
(* every chunk is generated for one such address and exports the gates of  *)
(* that address, so gates of a world that was left can still be crossed    *)
(* until the chunk that exports them is replaced.                          *)
(*                                                                         *)
(* The streaming of chunks is reduced to what matters here: an order is    *)
(* placed for the address of the day and installed at any later time, and  *)
(* a crossing marks what is resident and drops the orders for it (the      *)
(* detail is in ChunkStreaming).  Refinements keep the address of what     *)
(* they refine and level changes empty the store, so both are left there.  *)
(* Only gates of Red Rooms are modelled.                                   *)
(***************************************************************************)
EXTENDS Reality

CONSTANTS
  Chunk,
  Home,    \* room -> the address in whose plan it is authored
  At,      \* gate -> the chunks its plane crosses, in visible space
  Base     \* the address of the level outside all Red Rooms

Address == {Base} \cup Instance
Absent == "absent"

ASSUME RedRoomAssumption ==
  /\ Base \notin Instance /\ Absent \notin Address
  /\ Home \in [Instance -> Address]
  /\ At \in [Gate -> SUBSET Chunk]

VARIABLES
  store,     \* chunk -> address its resident payload was generated for
  order,     \* chunk -> address of its outstanding request
  marked     \* forced_reloads

streaming == <<store, order, marked>>
roomVars == <<vars, streaming>>

Resident == {c \in Chunk : store[c] # Absent}

(* Mutant: any recorded encounter opens its world, committed or not.       *)
AddressOfRecorded ==
  IF DOMAIN stamps = {} THEN Base
  ELSE CHOOSE i \in DOMAIN stamps :
         \A j \in DOMAIN stamps : stamps[j].epoch <= stamps[i].epoch

(* from_reality(): the address a chunk requested now is generated for.     *)
CurrentAddress == IF Committed = {} THEN Base ELSE Active

(* Gates authored in the plan of an address.                               *)
Authored(a) == {g \in Gate : Home[Of[g]] = a}

(* The checkpoint of the room that opened an address, looked up in the     *)
(* plans of the level outside.                                             *)
Checkpoint(a) == {g \in Authored(Base) : Of[g] = a /\ Kind[g] = "loop"}

(* decide_traversal_gates_and_hazards(): what a chunk exports.             *)
Exported(c, a) ==
  {g \in Authored(a) \cup (IF a = Base THEN {} ELSE Checkpoint(a)) : c \in At[g]}

GatesInStore == UNION {Exported(c, store[c]) : c \in Resident}

RoomsInit ==
  /\ Init
  /\ store = [c \in Chunk |-> Absent]
  /\ order = [c \in Chunk |-> Absent]
  /\ marked = {}

(* update_anomalies() for one gate: outward crossings of a threshold are   *)
(* ignored, an accepted crossing rebuilds everything resident.             *)
WalkThrough(g, d) ==
  /\ g \in GatesInStore
  /\ Kind[g] = "threshold" => d = Forward[g]
  /\ CrossGate(g, d)
  /\ marked' = marked \cup Resident
  /\ order' = [c \in Chunk |-> IF c \in Resident THEN Absent ELSE order[c]]
  /\ UNCHANGED store

Order(c) ==
  /\ order[c] = Absent
  /\ c \notin Resident \/ c \in marked
  /\ order' = [order EXCEPT ![c] = CurrentAddress]
  /\ UNCHANGED <<vars, store, marked>>

Install(c) ==
  /\ order[c] # Absent
  /\ store' = [store EXCEPT ![c] = order[c]]
  /\ order' = [order EXCEPT ![c] = Absent]
  /\ marked' = marked \ {c}
  /\ UNCHANGED vars

Evict(c) ==
  /\ c \in Resident
  /\ store' = [store EXCEPT ![c] = Absent]
  /\ order' = [order EXCEPT ![c] = Absent]
  /\ marked' = marked \ {c}
  /\ UNCHANGED vars

RoomsNext ==
  \/ \E g \in Gate, d \in Direction : WalkThrough(g, d)
  \/ \E c \in Chunk : Order(c) \/ Install(c) \/ Evict(c)

RoomsSpec == RoomsInit /\ [][RoomsNext]_roomVars

-----------------------------------------------------------------------------
(* A room that only exists in the world of another is never met without    *)
(* having committed to that other one, although gates of old worlds stay   *)
(* in the store and orders of old worlds arrive late.                      *)
ReachedThroughParent ==
  \A i \in DOMAIN stamps : Home[i] = Base \/ Home[i] \in Committed

(* No chunk is shown or ordered from a world that no committed room opened *)
(* (what from_reality() selects, kept through late installations).         *)
OnlyOpenedWorlds ==
  LET Opened == {Absent, Base} \cup Committed
  IN  store \in [Chunk -> Opened] /\ order \in [Chunk -> Opened]

(* Everything resident belongs to the world shown and nothing is on order. *)
Settled ==
  /\ Resident = Chunk /\ marked = {}
  /\ \A c \in Chunk : store[c] = CurrentAddress

(* generate.rs:108-110: "The recursive branch supplies its own anomaly     *)
(* semantics, while the encounter that opened it retains one checkpoint in *)
(* visible space."                                                         *)
CheckpointRetained ==
  Settled /\ Committed # {} =>
    \E g \in GatesInStore : Of[g] = Active /\ Kind[g] = "loop"
=============================================================================

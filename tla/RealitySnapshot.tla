--------------------------- MODULE RealitySnapshot ---------------------------
(***************************************************************************)
(* The reality snapshot as the code keeps it: three sorted vectors and a   *)
(* tier, compared as a whole to tell realities apart, and sent to the      *)
(* workers as words.  The transitions of an encounter are those of         *)
(* Reality, which this module implements; what is added is the vectors,    *)
(* their canonical order and the word transport.                           *)
(*                                                                         *)
(* Widths.  A u64 or i64 takes two words; a half has HalfWidth values here *)
(* instead of 2^32.  The fields of the packed word keep their order and    *)
(* are as wide as their values.  The two trailing words are a hash of the  *)
(* body, taken to be injective: the body itself.                           *)
(***************************************************************************)
EXTENDS Integers, Sequences, FiniteSets, Functions

CONSTANTS
  Instance, Gate, Of, Kind, Forward,   \* as in Reality, ids being numbers
  Plane, Axis,                         \* gate -> plane in milli units, axis
  Cell,                                \* drift cells <<x, z>>
  Supply, MaxDelirium, MaxCrossings, MaxDrifts,
  HalfWidth

\* The signed numbers of a width.
SignedRange(width) == -(width \div 2)..(width \div 2 - 1)

ASSUME SnapshotAssumption ==
  /\ Instance # {} /\ Of \in [Gate -> Instance]
  /\ Kind \in [Gate -> {"remap", "threshold", "loop", "escape"}]
  /\ Forward \in [Gate -> {"positive", "negative"}]
  /\ HalfWidth \in Nat /\ HalfWidth > 0
  /\ Instance \cup Gate \cup Supply \subseteq 0..(HalfWidth * HalfWidth - 1)
  /\ Cell \subseteq SignedRange(HalfWidth * HalfWidth) \X SignedRange(HalfWidth * HalfWidth)
  /\ Plane \in [Gate -> SignedRange(HalfWidth)]
  /\ Axis \in [Gate -> 0..1]
  /\ MaxDelirium \in Nat /\ MaxCrossings \in Nat /\ MaxDrifts \in Nat

VARIABLES
  stamps,      \* sorted by instance_id, one per instance
  drifts,      \* sorted by cell, no epoch 0
  consumed,    \* sorted, no duplicates
  delirium,
  latest, walked, crossings   \* history and bound, as in Reality

vectors == <<stamps, drifts, consumed, delirium>>
vars == <<vectors, latest, walked, crossings>>

Directions == <<"positive", "negative">>
Phases == <<"outside", "sealed", "escape">>
NumberIn(names, name) == (CHOOSE k \in DOMAIN names : names[k] = name) - 1

-----------------------------------------------------------------------------
(* What the vectors mean.                                                  *)

Encounters == [i \in {s.id : s \in Range(stamps)} |->
                LET s == CHOOSE t \in Range(stamps) : t.id = i
                IN  [epoch |-> s.epoch, phase |-> Phases[s.phase + 1], loops |-> s.loops,
                     direction |-> Directions[s.direction + 1], gate |-> s.gate]]

DriftEpoch == [c \in Cell |->
                IF \E s \in Range(drifts) : s.cell = c
                THEN (CHOOSE s \in Range(drifts) : s.cell = c).epoch ELSE 0]

R == INSTANCE Reality WITH stamps <- Encounters, drift <- DriftEpoch,
                           consumed <- Range(consumed)

-----------------------------------------------------------------------------
(* Orders: derive(PartialOrd) compares tuples field by field.              *)

Precedes(a, b) ==
  \E k \in DOMAIN a : a[k] < b[k] /\ \A j \in 1..(k - 1) : a[j] = b[j]

Fields(s) == <<s.id, s.epoch, s.plane, s.axis, s.direction, s.phase, s.loops, s.gate>>

(* binary_search() of a sorted vector: the place of the key, or where it   *)
(* belongs.                                                                *)
PlaceOf(keys, key) == 1 + Cardinality({k \in DOMAIN keys : Precedes(keys[k], key)})
FoundAt(keys, key) == LET k == PlaceOf(keys, key) IN k \in DOMAIN keys /\ keys[k] = key

(* insert() of a vector.                                                   *)
Inserted(v, k, e) ==
  [j \in 1..(Len(v) + 1) |-> IF j < k THEN v[j] ELSE IF j = k THEN e ELSE v[j - 1]]

(* The vector of the members of a set in the order of their keys.          *)
InOrder(S, key) ==
  CHOOSE v \in [1..Cardinality(S) -> S] :
    /\ Range(v) = S
    /\ \A j, k \in DOMAIN v : j < k => Precedes(key[v[j]], key[v[k]])

(* with_drifts_and_supplies(), of the members of its vectors.              *)
LatestStamps(S) ==
  {t \in S : \A u \in S : u.id = t.id => ~Precedes(Fields(t), Fields(u))}

CanonicalStamps(S) == InOrder(LatestStamps(S), [t \in S |-> <<t.id>>])

LatestDrifts(S) ==
  {t \in S : t.epoch > 0 /\ \A u \in S : u.cell = t.cell => u.epoch <= t.epoch}

CanonicalDrifts(S) == InOrder(LatestDrifts(S), [t \in S |-> t.cell])

CanonicalSupplies(S) == InOrder(S, [id \in S |-> <<id>>])

-----------------------------------------------------------------------------
Init ==
  /\ stamps = <<>> /\ drifts = <<>> /\ consumed = <<>> /\ delirium = 0
  /\ latest = CHOOSE i \in Instance : TRUE
  /\ walked = [i \in Instance |-> 0]
  /\ crossings = 0

(* AnomalyStateStamp::new()                                                *)
StampFor(g, d) ==
  LET n == R!NewStamp(g, d)
  IN  [id |-> Of[g], epoch |-> n.epoch, plane |-> Plane[g], axis |-> Axis[g],
       direction |-> NumberIn(Directions, d), phase |-> NumberIn(Phases, n.phase),
       loops |-> n.loops, gate |-> g]

(* Mutant: the old stamp of the instance is left to the constructor.       *)
RetainedAll(i) == Range(stamps)

Retained(i) == {s \in Range(stamps) : s.id # i}

WithAdvancedGate(g, d) ==
  /\ ~R!Repeated(g, d)
  /\ crossings < MaxCrossings /\ crossings' = crossings + 1
  /\ stamps' = CanonicalStamps(Retained(Of[g]) \cup {StampFor(g, d)})
  /\ drifts' = CanonicalDrifts(Range(drifts))
  /\ consumed' = CanonicalSupplies(Range(consumed))
  /\ latest' = IF R!Moves(g, d) THEN Of[g] ELSE latest
  /\ walked' = [walked EXCEPT ![Of[g]] = R!LoopsWalked(g)]
  /\ UNCHANGED delirium

WithFabricDriftAdvanced(c) ==
  LET cells == [k \in DOMAIN drifts |-> drifts[k].cell]
      k == PlaceOf(cells, c)
  IN  /\ DriftEpoch[c] < MaxDrifts
      /\ drifts' = IF FoundAt(cells, c)
                   THEN [drifts EXCEPT ![k].epoch = @ + 1]
                   ELSE Inserted(drifts, k, [cell |-> c, epoch |-> 1])
      /\ UNCHANGED <<stamps, consumed, delirium, latest, walked, crossings>>

WithSupplyConsumed(id) ==
  LET keys == [k \in DOMAIN consumed |-> <<consumed[k]>>]
  IN  /\ consumed' = IF FoundAt(keys, <<id>>) THEN consumed
                     ELSE Inserted(consumed, PlaceOf(keys, <<id>>), id)
      /\ UNCHANGED <<stamps, drifts, delirium, latest, walked, crossings>>

WithDelirium(tier) ==
  /\ delirium' = IF tier < MaxDelirium THEN tier ELSE MaxDelirium
  /\ UNCHANGED <<stamps, drifts, consumed, latest, walked, crossings>>

Next ==
  \/ \E g \in Gate, d \in Range(Directions) : WithAdvancedGate(g, d)
  \/ \E c \in Cell : WithFabricDriftAdvanced(c)
  \/ \E id \in Supply : WithSupplyConsumed(id)
  \/ \E tier \in 0..(MaxDelirium + 1) : WithDelirium(tier)

Spec == Init /\ [][Next]_vars

-----------------------------------------------------------------------------
(* The word transport.                                                     *)

Magic == 5905
StampWords == 7
DriftWords == 5
SupplyWords == 2

(* "as u32" and ">> 32" of a signed or unsigned number, and back.          *)
Low(n) == n % HalfWidth
High(n) == (n \div HalfWidth) % HalfWidth
Unsigned(low, high) == low + HalfWidth * high

AsSigned(n, width) == IF n < width \div 2 THEN n ELSE n - width

(* Mutant: the coordinate comes back unsigned.                             *)
SignedAsUnsigned(low, high) == Unsigned(low, high)

Signed(low, high) == AsSigned(Unsigned(low, high), HalfWidth * HalfWidth)

Packed(s) == s.axis + 2 * s.direction + 4 * s.phase + 16 * s.loops

StampToWords(s) ==
  <<Low(s.id), High(s.id), s.epoch, Low(s.plane), Packed(s), Low(s.gate), High(s.gate)>>

StampFromWords(w) ==
  [id |-> Unsigned(w[1], w[2]), epoch |-> w[3], plane |-> AsSigned(w[4], HalfWidth),
   axis |-> w[5] % 2, direction |-> (w[5] \div 2) % 2, phase |-> (w[5] \div 4) % 4,
   loops |-> w[5] \div 16, gate |-> Unsigned(w[6], w[7])]

DriftToWords(t) ==
  <<Low(t.cell[1]), High(t.cell[1]), Low(t.cell[2]), High(t.cell[2]), t.epoch>>

SupplyToWords(id) == <<Low(id), High(id)>>
SupplyFromWords(w) == Unsigned(w[1], w[2])

DriftFromWords(w) ==
  [cell |-> <<Signed(w[1], w[2]), Signed(w[3], w[4])>>, epoch |-> w[5]]

(* extend_from_slice() of parts of one size, one after the other.          *)
Joined(parts, size) ==
  [n \in 1..(Len(parts) * size) |-> parts[(n - 1) \div size + 1][((n - 1) % size) + 1]]

(* words_without_fingerprint() and to_words()                              *)
Body(snapshot) ==
  <<Magic, Len(snapshot.stamps)>>
  \o Joined([k \in DOMAIN snapshot.stamps |-> StampToWords(snapshot.stamps[k])], StampWords)
  \o <<Len(snapshot.drifts)>>
  \o Joined([k \in DOMAIN snapshot.drifts |-> DriftToWords(snapshot.drifts[k])], DriftWords)
  \o <<Len(snapshot.consumed)>>
  \o Joined([k \in DOMAIN snapshot.consumed |-> SupplyToWords(snapshot.consumed[k])], SupplyWords)
  \o <<snapshot.delirium>>

ToWords(snapshot) == [body |-> Body(snapshot), fingerprint |-> Body(snapshot)]

(* chunks_exact() of the words from `from` (counted from 0) up to `to`.    *)
Chunks(w, from, to, size) ==
  [k \in 1..((to - from) \div size) |-> SubSeq(w, from + (k - 1) * size + 1, from + k * size)]

Error == [error |-> TRUE]
Headers(w) ==
  LET drift == 2 + w[2] * StampWords
      supply == drift + 1 + w[drift + 1] * DriftWords
  IN  [drift |-> drift, supply |-> supply,
       delirium |-> supply + 1 + w[supply + 1] * SupplyWords]

WellFormed(m) ==
  LET w == m.body
      len == Len(w) + 2
  IN  /\ len >= 5 /\ w[1] = Magic
      /\ len >= 2 + w[2] * StampWords + 4
      /\ len >= Headers(w).supply + 4
      /\ len = Headers(w).delirium + 1 + 2
      /\ w[Headers(w).delirium + 1] <= MaxDelirium
      /\ m.fingerprint = w

Decoded(w) ==
  LET h == Headers(w)
      s == Chunks(w, 2, h.drift, StampWords)
      d == Chunks(w, h.drift + 1, h.supply, DriftWords)
      c == Chunks(w, h.supply + 1, h.delirium, SupplyWords)
  IN  [stamps |-> CanonicalStamps({StampFromWords(p) : p \in Range(s)}),
       drifts |-> CanonicalDrifts({DriftFromWords(p) : p \in Range(d)}),
       consumed |-> CanonicalSupplies({SupplyFromWords(p) : p \in Range(c)}),
       delirium |-> w[h.delirium + 1]]

(* from_words(): only a canonical encoding is accepted.                    *)
FromWords(m) ==
  IF WellFormed(m) /\ Body(Decoded(m.body)) = m.body THEN Decoded(m.body) ELSE Error

-----------------------------------------------------------------------------
Snapshot == [stamps |-> stamps, drifts |-> drifts, consumed |-> consumed,
             delirium |-> delirium]

(* A worker generates from the very reality the engine ordered, whatever   *)
(* the order of events, signs of the cells and halves of the ids.  Only a  *)
(* canonical encoding is decoded, so the vectors, by which realities are   *)
(* compared and fingerprinted, depend on what they mean and never on the   *)
(* order of the events that led there.                                     *)
TransportLossless == FromWords(ToWords(Snapshot)) = Snapshot

(* The vectors implement the encounter, drift and supply maps.             *)
ImplementsReality == R!Spec
=============================================================================

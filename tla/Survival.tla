------------------------------ MODULE Survival ------------------------------
(***************************************************************************)
(* The survival of one wanderer: vitals wear down, supplies listed by      *)
(* resident chunks go to the pockets and from there, deliberately or by    *)
(* the optional assist, into the body; waste and want make the reality     *)
(* delirious.  Modelled from application/survival_inventory.rs, the vitals *)
(* in domain/entities/player_vitals.rs and the order in which              *)
(* application/engine.rs calls them in one tick.                           *)
(*                                                                         *)
(* Reserves are counted in twentieths and excess in hundredths, in which   *)
(* every amount of the code is whole but the wear of a single tick: a step *)
(* of wear stands for that of the ticks up to the next event.              *)
(***************************************************************************)
EXTENDS Integers, FiniteSets

CONSTANTS
    Supplies,   \* ids of the supply items, numbers
    KindOf,     \* KindOf[id]: "water" or "ration"
    Chunks,
    Listed,     \* Listed[c]: items generation lists in c, its halo included
    Wears,      \* what time can take: [water, ration, wound, heal, calm]
    CarryCap,   \* CARRY_CAP, supplies of a kind in a pocket
    MaxDeaths   \* bound on the deaths, for TLC

Kinds == {"water", "ration"}
Full == 20
AutoConsumeAt == 10
Restores == [water |-> 13, ration |-> 11]
WaterMends == 3

ASSUME SurvivalAssumption ==
    /\ Supplies \subseteq Nat /\ IsFiniteSet(Supplies)   \* an id is a u64
    /\ KindOf \in [Supplies -> Kinds] /\ Listed \in [Chunks -> SUBSET Supplies]
    /\ Wears \subseteq [water : Nat, ration : Nat, wound : Nat, heal : Nat, calm : Nat]
    /\ {CarryCap, MaxDeaths} \subseteq Nat

VARIABLES
    body,       \* SurvivalInventory: reserve and pocket by kind, and the rest
    consumed,   \* supplies the reality no longer has
    delirium,   \* the delirium tier of the reality
    store,      \* supplies the resident copy of each chunk lists
    spent       \* history: supplies used or lost in death, by kind

survivalVars == <<body, consumed, delirium, store, spent>>

Most(a, b) == IF a > b THEN a ELSE b
Least(a, b) == IF a < b THEN a ELSE b
Minus(a, b) == IF a > b THEN a - b ELSE 0

NewVitals == [reserve |-> [k \in Kinds |-> Full], condition |-> Full]
NewBody == [reserve |-> NewVitals.reserve, condition |-> Full, excess |-> 0,
            pocket |-> [k \in Kinds |-> 0], assisted |-> FALSE, deaths |-> 0]

-----------------------------------------------------------------------------
(* Pickups *)

\* The items one may come within reach of: those that resident chunks list and
\* the reality still has, without the halo's duplicates.
Standing == (UNION {store[c] : c \in Chunks}) \ consumed
OfKind(items, k) == {id \in items : KindOf[id] = k}

\* try_pickup, from the lowest id on: an item for which the pocket is full by
\* then stays in the world.
Stocked(items) ==
    {id \in items :
        body.pocket[KindOf[id]]
          + Cardinality({j \in OfKind(items, KindOf[id]) : j < id}) < CarryCap}

\* Mutant: what two chunks list is stocked twice.
PocketPerChunk(taken) ==
    [k \in Kinds |-> body.pocket[k]
        + Cardinality({e \in Chunks \X taken : e[2] \in store[e[1]] /\ KindOf[e[2]] = k})]

Pocket(taken) ==
    [k \in Kinds |-> body.pocket[k] + Cardinality(OfKind(taken, k))]

-----------------------------------------------------------------------------
(* Vitals and consumption *)

\* advance_vitals: an empty reserve wounds, twice if both are; comfort mends.
Starved(reserve) == Cardinality({k \in Kinds : reserve[k] = 0})
AdvanceVitals(b, wear) ==
    LET reserve == [k \in Kinds |-> Minus(b.reserve[k], wear[k])]
        starved == Starved(reserve)
    IN  [b EXCEPT !.reserve = reserve,
                  !.condition =
                     IF starved > 0 THEN Minus(@, starved * wear.wound)
                     ELSE IF \A k \in Kinds : reserve[k] > 6
                     THEN Least(@ + wear.heal, Full) ELSE @]

\* drink_carried and eat_carried: what a full reserve cannot take is waste,
\* four fifths of which are excess.
Waste(b, kind) == Minus(b.reserve[kind] + Restores[kind], Full)
ConsumeOne(b, kind) ==
    IF b.pocket[kind] = 0 THEN b
    ELSE [b EXCEPT !.pocket[kind] = @ - 1,
                   !.excess = Least(@ + 4 * Waste(b, kind), 100),
                   !.reserve[kind] = Least(@ + Restores[kind], Full),
                   !.condition = IF kind = "water"
                                 THEN Least(@ + WaterMends, Full) ELSE @]

Deliberate(b, intent) ==
    LET drunk == IF "water" \in intent THEN ConsumeOne(b, "water") ELSE b
    IN  IF "ration" \in intent THEN ConsumeOne(drunk, "ration") ELSE drunk

\* auto_consume_supplies
AutoOne(b, kind) ==
    IF b.reserve[kind] < AutoConsumeAt THEN ConsumeOne(b, kind) ELSE b
AutoConsume(b) ==
    IF b.assisted THEN AutoOne(AutoOne(b, "water"), "ration") ELSE b

\* Mutant: the assist goes first.
ConsumeAssistFirst(b, intent) == Deliberate(AutoConsume(b), intent)

Consume(b, intent) == AutoConsume(Deliberate(b, intent))

\* succumb_if_dead: the pockets are lost, the excess is remembered.
Succumb(b) ==
    IF b.condition > 0 THEN b
    ELSE [b EXCEPT !.deaths = @ + 1, !.reserve = NewVitals.reserve,
                   !.condition = Full, !.pocket = [k \in Kinds |-> 0]]

\* advance_strain: the worse of thirst and excess.
ThirstTier(water) == IF water > 12 THEN 0 ELSE IF water > 7 THEN 1
                     ELSE IF water > 3 THEN 2 ELSE 3
ExcessTier(excess) == Least(excess \div 25, 3)
Tier(b) == Most(ThirstTier(b.reserve["water"]), ExcessTier(b.excess))

-----------------------------------------------------------------------------
SurvivalInit ==
    /\ body = NewBody /\ consumed = {} /\ delirium = 0
    /\ store = [c \in Chunks |-> {}]
    /\ spent = [k \in Kinds |-> 0]

\* set_assisted_consumption, between two ticks.
SetAssisted ==
    /\ body' = [body EXCEPT !.assisted = ~@]
    /\ UNCHANGED <<consumed, delirium, store, spent>>

\* One tick: the wanderer reaches some listed items, a chunk arrives without
\* what the reality has lost by now or had lost when it was ordered, time
\* wears, and the wanderer chooses to drink or eat.
Arrives(c, known) == [store EXCEPT ![c] = Listed[c] \ known]

SurvivalTick(reached, wear, intent) ==
    LET taken == Stocked(reached)
        got   == [body EXCEPT !.pocket = Pocket(taken)]
        left  == Succumb(Consume(AdvanceVitals(got, wear), intent))
    IN  /\ left.deaths <= MaxDeaths
        /\ consumed' = consumed \cup taken
        /\ body' = [left EXCEPT !.excess = Minus(@, wear.calm)]
        /\ delirium' = Tier(body')
        /\ spent' = [k \in Kinds |-> spent[k] + (got.pocket[k] - left.pocket[k])]
        /\ store' \in {store} \cup {Arrives(c, known) : c \in Chunks, known \in {{}, consumed}}

SurvivalNext ==
    \/ SetAssisted
    \/ \E reached \in SUBSET Standing, wear \in Wears, intent \in SUBSET Kinds :
          SurvivalTick(reached, wear, intent)

SurvivalSpec == SurvivalInit /\ [][SurvivalNext]_survivalVars

-----------------------------------------------------------------------------
\* Nothing is quenched twice and nothing is lost: every supply the reality no
\* longer has is in a pocket, was used, or went with a death, however many
\* chunks listed it and however late their rebuilds arrive.
SuppliesConserved ==
    \A k \in Kinds :
        Cardinality(OfKind(consumed, k)) = body.pocket[k] + spent[k]

\* Nobody takes two bottles or two rations in one tick, and who is assisted
\* does not go on in want of what they carry.
AssistIsMeasured ==
    [][\A k \in Kinds :
          body'.deaths = body.deaths =>
          /\ spent'[k] <= spent[k] + 1
          /\ body.assisted /\ body'.assisted /\ body'.pocket[k] > 0 =>
                body'.reserve[k] >= AutoConsumeAt]_survivalVars
=============================================================================

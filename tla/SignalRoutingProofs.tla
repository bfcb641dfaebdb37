------------------------- MODULE SignalRoutingProofs -------------------------
(* Type correctness of SignalRouting, and SteadyIsDelivered.               *)
EXTENDS SignalRouting, TLAPS

(* An array under way has items left.                                      *)
BusyHasItems == \A a \in Arrays : state[a] # "idle" => left[a] >= 1

(* What an array that came at a settled time knows is still true: where    *)
(* the target is, and that a lookup is only for a remote one.              *)
Knows(a) ==
    /\ Settled
    /\ fate[a] \in {None, "refused", home}
    /\ state[a] # "idle" => (local[a] <=> home = Here)
    /\ state[a] \in {"addr", "count"} => ~local[a]

SteadyKnows == \A a \in Arrays : steady[a] => Knows(a)

RoutingInv == TypeOK /\ BusyHasItems /\ SteadyKnows

worldVars == <<home, key, cache, published, node, trouble>>

-----------------------------------------------------------------------------
(* The three ways an item can end keep the types of the arrays' variables. *)
ArrayTypes ==
    /\ state \in [Arrays -> {"idle", "running", "addr", "count"}]
    /\ left \in [Arrays -> 0 .. MaxItems]
    /\ fate \in [Arrays -> {None, Here, There} \cup Failures]

LEMMA OutcomeTypes ==
    ASSUME ArrayTypes, BusyHasItems, NEW a \in Arrays, state[a] # "idle",
           \/ \E place \in {Here, There} : Sent(a, place)
           \/ \E why \in Failures : Stop(a, why)
           \/ \E what \in {"addr", "count"} : Await(a, what)
    PROVE  ArrayTypes' /\ BusyHasItems'
<1>. USE RoutingAssumption
<1>1. CASE \E place \in {Here, There} : Sent(a, place)
  <2>1. left[a] - 1 \in 0 .. MaxItems
    BY DEF ArrayTypes, BusyHasItems
  <2>2. ArrayTypes'
    BY <1>1, <2>1 DEF ArrayTypes, Sent
  <2>3. ASSUME NEW b \in Arrays, state'[b] # "idle" PROVE left'[b] >= 1
    <3>1. CASE b = a
      BY <1>1, <2>3, <3>1 DEF ArrayTypes, Sent
    <3>2. CASE b # a
      BY <1>1, <2>3, <3>2 DEF ArrayTypes, Sent, BusyHasItems
    <3>. QED BY <3>1, <3>2
  <2>. QED BY <2>2, <2>3 DEF BusyHasItems
<1>2. CASE \E why \in Failures : Stop(a, why)
  BY <1>2 DEF ArrayTypes, BusyHasItems, Stop, Failures
<1>3. CASE \E what \in {"addr", "count"} : Await(a, what)
  BY <1>3 DEF ArrayTypes, BusyHasItems, Await
<1>. QED BY <1>1, <1>2, <1>3

LEMMA FoundOutcome ==
    ASSUME NEW a \in Arrays, NEW addr, Found(a, addr)
    PROVE  \/ \E place \in {Here, There} : Sent(a, place)
           \/ \E why \in Failures : Stop(a, why)
           \/ \E what \in {"addr", "count"} : Await(a, what)
BY DEF Found, NotFound, Failures

(* Every handler of an array that is under way ends its item one way.      *)
LEMMA HandlerOutcome ==
    ASSUME NEW a \in Arrays,
           \/ Refuse(a) \/ SignalHere(a) \/ SignalThere(a)
           \/ AddrAnswered(a) \/ CountAnswered(a)
    PROVE  /\ state[a] # "idle"
           /\ \/ \E place \in {Here, There} : Sent(a, place)
              \/ \E why \in Failures : Stop(a, why)
              \/ \E what \in {"addr", "count"} : Await(a, what)
<1>1. CASE Refuse(a)
  BY <1>1 DEF Refuse, Failures
<1>2. CASE SignalHere(a)
  BY <1>2 DEF SignalHere, NotFound, Failures
<1>3. CASE SignalThere(a)
  BY <1>3, FoundOutcome DEF SignalThere, NotFound, Failures
<1>4. CASE AddrAnswered(a)
  BY <1>4, FoundOutcome DEF AddrAnswered, NotFound, Failures
<1>5. CASE CountAnswered(a)
  BY <1>5 DEF CountAnswered, NotFound, Failures
<1>. QED BY <1>1, <1>2, <1>3, <1>4, <1>5

-----------------------------------------------------------------------------
Handler(a) ==
    \/ Refuse(a) \/ SignalHere(a) \/ SignalThere(a)
    \/ AddrAnswered(a) \/ CountAnswered(a)

World ==
    \/ Move \/ KeyChanges \/ CacheFills \/ Evict
    \/ PublishedChanges \/ TroubleChanges \/ NodeDies \/ NodeRevives \/ NodeDeleted

LEMMA StepCases ==
    Step <=> (\E a \in Arrays : Arrive(a) \/ Handler(a)) \/ World
BY DEF Step, Handler, World

LEMMA TypesNext ==
    ASSUME TypeOK, BusyHasItems, Next
    PROVE  TypeOK' /\ BusyHasItems'
<1>. USE RoutingAssumption
<1>1. steady' \in [Arrays -> BOOLEAN]
  BY DEF Next, Watch, Settled, TypeOK
<1>2. ASSUME NEW a \in Arrays, Arrive(a) PROVE TypeOK' /\ BusyHasItems'
  BY <1>1, <1>2 DEF Arrive, TypeOK, BusyHasItems, Places
<1>3. ASSUME NEW a \in Arrays, Handler(a) PROVE TypeOK' /\ BusyHasItems'
  <2>1. ArrayTypes' /\ BusyHasItems'
    BY <1>3, HandlerOutcome, OutcomeTypes DEF Handler, ArrayTypes, TypeOK
  <2>2. /\ home' \in Places /\ key' \in Places /\ cache' \in Places
        /\ published' \in BOOLEAN /\ trouble' \in BOOLEAN
        /\ node' \in {"none", "alive", "dead"}
        /\ local' \in [Arrays -> BOOLEAN]
    BY <1>3 DEF Handler, Refuse, SignalHere, SignalThere, AddrAnswered,
                CountAnswered, TypeOK, Places
  <2>. QED BY <1>1, <2>1, <2>2 DEF TypeOK, ArrayTypes
<1>4. CASE World
  <2>. USE DEF World, Move, KeyChanges, CacheFills, Evict, PublishedChanges,
               TroubleChanges, NodeDies, NodeRevives, NodeDeleted
  <2>1. UNCHANGED arrayVars
    BY <1>4
  <2>2. home' \in Places /\ key' \in Places /\ cache' \in Places
    BY <1>4 DEF TypeOK, Places
  <2>3. published' \in BOOLEAN /\ trouble' \in BOOLEAN
    BY <1>4 DEF TypeOK
  <2>4. node' \in {"none", "alive", "dead"}
    BY <1>4 DEF TypeOK
  <2>. QED BY <1>1, <2>1, <2>2, <2>3, <2>4 DEF arrayVars, TypeOK, BusyHasItems
<1>. QED BY <1>2, <1>3, <1>4, StepCases DEF Next

-----------------------------------------------------------------------------
(* While both states are settled, the target stays where it is.            *)
LEMMA HomeStays ==
    ASSUME TypeOK, Settled, Settled', Step
    PROVE  home' = home
BY RoutingAssumption
   DEF Settled, Step, Arrive, Refuse, SignalHere, SignalThere, AddrAnswered,
       CountAnswered, Move, KeyChanges, CacheFills, Evict, PublishedChanges,
       TroubleChanges, NodeDies, NodeRevives, NodeDeleted, TypeOK, Places

(* The handlers of an array leave the other arrays alone.                  *)
LEMMA OthersStay ==
    ASSUME TypeOK, NEW a \in Arrays, NEW b \in Arrays, a # b, Handler(b)
    PROVE  state'[a] = state[a] /\ fate'[a] = fate[a] /\ local'[a] = local[a]
<1>1. local' = local
  BY DEF Handler, Refuse, SignalHere, SignalThere, AddrAnswered, CountAnswered
<1>2. CASE \E place \in {Here, There} : Sent(b, place)
  BY <1>1, <1>2 DEF Sent, TypeOK
<1>3. CASE \E why \in Failures : Stop(b, why)
  BY <1>1, <1>3 DEF Stop, TypeOK
<1>4. CASE \E what \in {"addr", "count"} : Await(b, what)
  BY <1>1, <1>4 DEF Await, TypeOK
<1>. QED BY <1>2, <1>3, <1>4, HandlerOutcome DEF Handler

(* An array that knows the truth acts on it.                               *)
LEMMA HandlerKnows ==
    ASSUME TypeOK, NEW a \in Arrays, Handler(a), Knows(a), Settled', home' = home
    PROVE  Knows(a)'
<1>. USE RoutingAssumption
<1>1. CASE Refuse(a)
  BY <1>1 DEF Refuse, Stop, Knows, TypeOK
<1>2. CASE SignalHere(a)
  <2>1. home = Here
    BY <1>2 DEF SignalHere, Knows
  <2>2. Sent(a, Here)
    BY <1>2, <2>1 DEF SignalHere
  <2>. QED BY <1>2, <2>1, <2>2 DEF SignalHere, Sent, Knows, TypeOK
<1>3. ASSUME state[a] # "idle", ~local[a] PROVE home = There
  BY <1>3 DEF Knows, Settled, TypeOK, Places
<1>4. ASSUME home = There, ~local[a], local' = local,
             Sent(a, There) \/ \E what \in {"addr", "count"} : Await(a, what)
      PROVE  Knows(a)'
  BY <1>4 DEF Sent, Await, Knows, TypeOK
<1>5. ASSUME Found(a, There) PROVE Sent(a, There) \/ Await(a, "count")
  BY <1>5 DEF Found, Knows, Settled
<1>6. CASE SignalThere(a)
  <2>1. home = There
    BY <1>3, <1>6 DEF SignalThere
  <2>2. Sent(a, There) \/ \E what \in {"addr", "count"} : Await(a, what)
    BY <1>5, <1>6, <2>1 DEF SignalThere, Knows, Settled
  <2>. QED BY <1>4, <1>6, <2>1, <2>2 DEF SignalThere
<1>7. CASE AddrAnswered(a)
  <2>1. home = There /\ key = There /\ ~local[a]
    BY <1>3, <1>7 DEF AddrAnswered, Knows, Settled
  <2>2. Sent(a, There) \/ \E what \in {"addr", "count"} : Await(a, what)
    BY <1>5, <1>7, <2>1 DEF AddrAnswered, Knows, Settled
  <2>. QED BY <1>4, <1>7, <2>1, <2>2 DEF AddrAnswered
<1>8. CASE CountAnswered(a)
  <2>1. home = There /\ ~local[a]
    BY <1>3, <1>8 DEF CountAnswered, Knows, Settled
  <2>2. Sent(a, There)
    BY <1>8 DEF CountAnswered, Knows, Settled
  <2>. QED BY <1>4, <1>8, <2>1, <2>2 DEF CountAnswered
<1>. QED BY <1>1, <1>2, <1>6, <1>7, <1>8 DEF Handler

LEMMA ArriveKnows ==
    ASSUME TypeOK, NEW a \in Arrays, Arrive(a), Settled'
    PROVE  Knows(a)'
BY DEF Arrive, Knows, TypeOK

(* An array is never under way again without arriving.                     *)
LEMMA KnowsNext ==
    ASSUME RoutingInv, Next
    PROVE  SteadyKnows'
<1>. SUFFICES ASSUME NEW a \in Arrays, steady'[a] PROVE Knows(a)'
  BY DEF SteadyKnows
<1>1. /\ Step /\ Settled'
      /\ steady[a] \/ (state[a] = "idle" /\ state'[a] = "running")
  BY DEF Next, Watch
<1>2. CASE Arrive(a)
  BY <1>1, <1>2, ArriveKnows DEF RoutingInv
<1>3. ASSUME NEW b \in Arrays, a # b, Arrive(b) \/ Handler(b) PROVE Knows(a)'
  <2>1. state'[a] = state[a] /\ fate'[a] = fate[a] /\ local'[a] = local[a]
    BY <1>3, OthersStay DEF Arrive, RoutingInv, TypeOK
  <2>2. Knows(a)
    BY <1>1, <2>1 DEF RoutingInv, SteadyKnows
  <2>3. home' = home
    BY <1>1, <2>2, HomeStays DEF Knows, RoutingInv
  <2>. QED BY <1>1, <2>1, <2>2, <2>3 DEF Knows
<1>4. CASE Handler(a)
  <2>1. Knows(a)
    BY <1>1, <1>4, HandlerOutcome DEF Handler, RoutingInv, SteadyKnows
  <2>2. home' = home
    BY <1>1, <2>1, HomeStays DEF Knows, RoutingInv
  <2>. QED BY <1>1, <1>4, <2>1, <2>2, HandlerKnows DEF RoutingInv
<1>5. CASE World
  <2>1. state' = state /\ fate' = fate /\ local' = local
    BY <1>5 DEF World, Move, KeyChanges, CacheFills, Evict, PublishedChanges,
                TroubleChanges, NodeDies, NodeRevives, NodeDeleted, arrayVars
  <2>2. Knows(a)
    BY <1>1, <2>1 DEF RoutingInv, SteadyKnows
  <2>3. home' = home
    BY <1>1, <2>2, HomeStays DEF Knows, RoutingInv
  <2>. QED BY <1>1, <2>1, <2>2, <2>3 DEF Knows
<1>6. \/ Arrive(a) \/ Handler(a) \/ World
      \/ \E b \in Arrays : a # b /\ (Arrive(b) \/ Handler(b))
  BY <1>1, StepCases
<1>. QED BY <1>2, <1>3, <1>4, <1>5, <1>6

-----------------------------------------------------------------------------
LEMMA RoutingInit ==
    ASSUME Init
    PROVE  RoutingInv
<1>1. TypeOK
  <2>1. /\ home \in Places /\ key \in Places /\ cache \in Places
        /\ published \in BOOLEAN /\ trouble \in BOOLEAN
        /\ node \in {"none", "alive", "dead"}
    BY DEF Init, Places
  <2>2. state \in [Arrays -> {"idle", "running", "addr", "count"}]
    BY DEF Init
  <2>3. left \in [Arrays -> 0 .. MaxItems]
    BY RoutingAssumption DEF Init
  <2>4. fate \in [Arrays -> {None, Here, There} \cup Failures]
    BY DEF Init
  <2>5. local \in [Arrays -> BOOLEAN] /\ steady \in [Arrays -> BOOLEAN]
    BY DEF Init
  <2>. QED BY <2>1, <2>2, <2>3, <2>4, <2>5 DEF TypeOK
<1>2. BusyHasItems /\ SteadyKnows
  BY DEF Init, BusyHasItems, SteadyKnows
<1>. QED BY <1>1, <1>2 DEF RoutingInv

LEMMA RoutingStutters ==
    ASSUME RoutingInv, UNCHANGED vars
    PROVE  RoutingInv'
BY DEF vars, arrayVars, RoutingInv, TypeOK, BusyHasItems, SteadyKnows, Knows, Settled

(* The inductive invariant: an array that came when the directory was      *)
(* settled, with nothing changed since, knows where the target is.         *)
THEOREM RoutingInvariant == Spec => []RoutingInv
<1>1. ASSUME RoutingInv, Next PROVE RoutingInv'
  BY <1>1, TypesNext, KnowsNext DEF RoutingInv
<1>. QED BY RoutingInit, <1>1, RoutingStutters, PTL DEF Spec

(* Every variable of the routing keeps its type: in particular no array    *)
(* is read beyond its end.                                                 *)
THEOREM RoutingTypes == Spec => []TypeOK
<1>1. RoutingInv => TypeOK
  BY DEF RoutingInv
<1>. QED BY <1>1, RoutingInvariant, PTL

(* Nothing but a change since an array came can misroute its signals,      *)
(* whatever other arrays are under way.                                    *)
THEOREM SteadyArraysAreDelivered == Spec => []SteadyIsDelivered
<1>1. RoutingInv => SteadyIsDelivered
  BY DEF RoutingInv, SteadyKnows, Knows, SteadyIsDelivered
<1>. QED BY <1>1, RoutingInvariant, PTL

=============================================================================

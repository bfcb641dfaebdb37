-------------------------- MODULE SupervisorProofs --------------------------
(* Type correctness of Supervisor, WorkersConserved and                    *)
(* ResponsiveIsSpared.                                                     *)
EXTENDS Supervisor, FiniteSetTheorems, TLAPS

(* Only a process that runs or is about to be noticed as dead is pinged,   *)
(* and not after it was killed.                                            *)
TimedIsCounted ==
    \A w \in Workers : timer[w] => proc[w] # "none" /\ missedPing[w] <= MaxMissed

(* A ping that counts as missed, or its answer, is still on its way.       *)
MissedIsUnderWay ==
    \A w \in Workers : missedPing[w] > 0 => pinged[w] \/ ponged[w]

(* The workers that have a process.                                        *)
Forked == {w \in Workers : proc[w] # "none"}

SupervisorInv == TypeOK /\ TimedIsCounted /\ MissedIsUnderWay /\ WorkersConserved

-----------------------------------------------------------------------------
(* The actions by their effect on the set of the workers with a process.   *)
Stays(w) ==
    \/ Tick(w) \/ Pong(w) \/ Answer(w) \/ Start(w) \/ Wake(w)
    \/ FallSilent(w) \/ Crash(w)

LEMMA StepCases ==
    Next <=> \E w \in Workers : Stays(w) \/ Exit(w) \/ Refork(w)
BY DEF Next, Stays

LEMMA StaysForked ==
    ASSUME TypeOK, TimedIsCounted, NEW w \in Workers, Stays(w)
    PROVE  Forked' = Forked /\ reforks' = reforks
<1>1. reforks' = reforks
  BY DEF Stays, Tick, Pong, Answer, Start, Wake, FallSilent, Crash, Becomes
<1>2. \/ proc' = proc
      \/ proc[w] # "none" /\ \E what \in {"up", "silent", "dead"} :
                                proc' = [proc EXCEPT ![w] = what]
  BY DEF Stays, Tick, Pong, Answer, Start, Wake, FallSilent, Crash, Becomes,
         TimedIsCounted
<1>3. ASSUME NEW v \in Workers PROVE proc'[v] # "none" <=> proc[v] # "none"
  BY <1>2 DEF TypeOK
<1>. QED BY <1>1, <1>3 DEF Forked

LEMMA ConservedNext ==
    ASSUME SupervisorInv, Next
    PROVE  WorkersConserved'
<1>. USE SupervisorAssumption
<1>1. /\ IsFiniteSet(Forked) /\ Cardinality(Forked) \in Nat
      /\ reforks \in Nat
      /\ Cardinality(Forked) + reforks = Cardinality(Workers)
  <2>1. IsFiniteSet(Forked)
    BY FS_Subset DEF Forked
  <2>. QED BY <2>1, FS_CardinalityType
           DEF SupervisorInv, WorkersConserved, Forked, TypeOK
<1>2. SUFFICES Cardinality(Forked') + reforks' = Cardinality(Workers)
  BY DEF WorkersConserved, Forked
<1>3. PICK w \in Workers : Stays(w) \/ Exit(w) \/ Refork(w)
  BY StepCases
<1>4. CASE Stays(w)
  BY <1>1, <1>4, StaysForked DEF SupervisorInv
<1>5. CASE Exit(w)
  <2>1. w \in Forked /\ Forked' = Forked \ {w} /\ reforks' = reforks + 1
    BY <1>5 DEF Exit, Forked, SupervisorInv, TypeOK
  <2>2. Cardinality(Forked \ {w}) = Cardinality(Forked) - 1
    BY <1>1, <2>1, FS_RemoveElement
  <2>. QED BY <1>1, <2>1, <2>2
<1>6. CASE Refork(w)
  <2>1. w \notin Forked /\ Forked' = Forked \cup {w} /\ reforks' = reforks - 1
    BY <1>6 DEF Refork, Forked, SupervisorInv, TypeOK
  <2>2. Cardinality(Forked \cup {w}) = Cardinality(Forked) + 1
    BY <1>1, <2>1, FS_AddElement
  <2>. QED BY <1>1, <2>1, <2>2
<1>. QED BY <1>3, <1>4, <1>5, <1>6

-----------------------------------------------------------------------------
LEMMA TypesNext ==
    ASSUME SupervisorInv, Next
    PROVE  TypeOK'
<1>. USE SupervisorAssumption DEF SupervisorInv, TypeOK
<1>1. PICK w \in Workers : Stays(w) \/ Exit(w) \/ Refork(w)
  BY StepCases
<1>2. CASE Tick(w)
  <2>1. missedPing[w] + 1 \in 0 .. MaxMissed + 1
    BY <1>2 DEF Tick, TimedIsCounted
  <2>. QED BY <1>2, <2>1 DEF Tick
<1>3. CASE Pong(w)
  BY <1>3 DEF Pong
<1>4. CASE Answer(w)
  BY <1>4 DEF Answer
<1>5. CASE Exit(w)
  BY <1>5 DEF Exit
<1>6. CASE Refork(w)
  <2>1. reforks - 1 \in Nat
    BY <1>6 DEF Refork
  <2>. QED BY <1>6, <2>1 DEF Refork
<1>7. CASE Start(w) \/ Wake(w)
  BY <1>7 DEF Start, Wake, Becomes
<1>8. CASE FallSilent(w) \/ Crash(w)
  BY <1>8 DEF FallSilent, Crash, Becomes, Fault
<1>. QED BY <1>1, <1>2, <1>3, <1>4, <1>5, <1>6, <1>7, <1>8 DEF Stays

LEMMA PingsNext ==
    ASSUME SupervisorInv, Next
    PROVE  TimedIsCounted' /\ MissedIsUnderWay'
<1>. USE SupervisorAssumption DEF SupervisorInv, TypeOK, TimedIsCounted, MissedIsUnderWay
<1>1. PICK w \in Workers : Stays(w) \/ Exit(w) \/ Refork(w)
  BY StepCases
<1>2. CASE Tick(w)
  BY <1>2 DEF Tick
<1>3. CASE Pong(w)
  BY <1>3 DEF Pong
<1>4. CASE Answer(w)
  BY <1>4 DEF Answer
<1>5. CASE Exit(w)
  BY <1>5 DEF Exit
<1>6. CASE Refork(w)
  BY <1>6 DEF Refork
<1>7. CASE Start(w) \/ Wake(w) \/ FallSilent(w) \/ Crash(w)
  BY <1>7 DEF Start, Wake, FallSilent, Crash, Becomes
<1>. QED BY <1>1, <1>2, <1>3, <1>4, <1>5, <1>6, <1>7 DEF Stays

LEMMA SupervisorInit ==
    ASSUME Init
    PROVE  SupervisorInv
<1>1. TypeOK /\ TimedIsCounted /\ MissedIsUnderWay
  BY SupervisorAssumption DEF Init, TypeOK, TimedIsCounted, MissedIsUnderWay
<1>2. {w \in Workers : proc[w] # "none"} = Workers /\ reforks = 0
  BY DEF Init
<1>3. Cardinality(Workers) \in Nat
  BY SupervisorAssumption, FS_CardinalityType
<1>4. WorkersConserved
  BY <1>2, <1>3 DEF WorkersConserved
<1>. QED BY <1>1, <1>4 DEF SupervisorInv

(* The inductive invariant of the supervision.                             *)
THEOREM SupervisorInvariant == Spec => []SupervisorInv
<1>1. ASSUME SupervisorInv, Next PROVE SupervisorInv'
  BY <1>1, TypesNext, PingsNext, ConservedNext DEF SupervisorInv
<1>2. ASSUME SupervisorInv, UNCHANGED vars PROVE SupervisorInv'
  BY <1>2 DEF vars, SupervisorInv, TypeOK, TimedIsCounted, MissedIsUnderWay,
              WorkersConserved
<1>. QED BY SupervisorInit, <1>1, <1>2, PTL DEF Spec

(* Every variable of the supervision keeps its type: in particular no      *)
(* worker is left unanswered more than MaxMissed + 1 pings.                *)
THEOREM SupervisorTypes == Spec => []TypeOK
<1>1. SupervisorInv => TypeOK
  BY DEF SupervisorInv
<1>. QED BY <1>1, SupervisorInvariant, PTL

(* Crashes, kills and exits never lose or double a worker, whatever their  *)
(* number.                                                                 *)
THEOREM NoWorkerIsLost == Spec => []WorkersConserved
<1>1. SupervisorInv => WorkersConserved
  BY DEF SupervisorInv
<1>. QED BY <1>1, SupervisorInvariant, PTL

(* A worker that answers every ping before the next one is never killed.   *)
THEOREM ResponsiveWorkersAreSpared == Spec => ResponsiveIsSpared
<1>1. ASSUME SupervisorInv, [Next]_vars, NEW w \in Workers,
             proc[w] = "up", proc'[w] = "dead"
      PROVE  faults' > faults
  <2>. USE SupervisorAssumption DEF SupervisorInv, TypeOK
  <2>1. PICK v \in Workers : Stays(v) \/ Exit(v) \/ Refork(v)
    BY <1>1, StepCases DEF vars
  <2>2. ~Tick(v)
    <3>1. SUFFICES ASSUME Tick(v) PROVE FALSE
      OBVIOUS
    <3>2. v = w /\ missedPing[w] > 0 /\ ~pinged[w] /\ ~ponged[w]
      BY <1>1, <3>1 DEF Tick
    <3>. QED BY <1>1, <3>2 DEF MissedIsUnderWay
  <2>3. ~Pong(v) /\ ~Answer(v) /\ ~Exit(v) /\ ~Refork(v)
    BY <1>1 DEF Pong, Answer, Exit, Refork
  <2>4. ~Start(v) /\ ~Wake(v) /\ ~FallSilent(v)
    BY <1>1 DEF Start, Wake, FallSilent, Becomes
  <2>5. Crash(v)
    BY <2>1, <2>2, <2>3, <2>4 DEF Stays
  <2>. QED BY <1>1, <2>5 DEF Crash, Fault
<1>2. SupervisorInv /\ [Next]_vars =>
        [\A w \in Workers : proc[w] = "up" /\ proc'[w] = "dead" => faults' > faults]_vars
  BY <1>1
<1>. QED BY <1>2, SupervisorInvariant, PTL DEF Spec, ResponsiveIsSpared

=============================================================================

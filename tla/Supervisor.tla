----------------------------- MODULE Supervisor -----------------------------
(***************************************************************************)
(* The primary process and the workers it forks (src/index.js, with the    *)
(* ping handler of lib/worker.js): every 5 s the primary pings each worker *)
(* and kills it when too many pings in a row went unanswered; 5 s after a  *)
(* worker's exit it forks another one.  A worker that answers within 5 s   *)
(* is "up"; one that is overloaded or hung is "silent", perhaps for ever.  *)
(* Names of workers are reused after their exit.                           *)
(***************************************************************************)
EXTENDS Naturals, FiniteSets

CONSTANTS
    Workers,     \* names of worker processes, numCPUs of them
    MaxMissed,   \* unanswered pings that are tolerated (5)
    MaxFaults    \* bound on the crashes and silences

ASSUME SupervisorAssumption ==
    /\ IsFiniteSet(Workers)
    /\ MaxMissed \in Nat \ {0}
    /\ MaxFaults \in Nat

VARIABLES
    proc,        \* the process: "starting", "up", "silent", "dead" until the
                 \* primary has seen its exit, then "none"
    timer,       \* does the ping timer of its setupWorker run?
    missedPing,
    pinged,      \* a ping waits to be read by the worker
    ponged,      \* a pong waits to be read by the primary
    reforks,     \* forks that wait for their 5 s
    faults       \* crashes and silences so far

vars == <<proc, timer, missedPing, pinged, ponged, reforks, faults>>

TypeOK ==
    /\ proc \in [Workers -> {"starting", "up", "silent", "dead", "none"}]
    /\ timer \in [Workers -> BOOLEAN]
    /\ missedPing \in [Workers -> 0 .. MaxMissed + 1]
    /\ pinged \in [Workers -> BOOLEAN]
    /\ ponged \in [Workers -> BOOLEAN]
    /\ reforks \in Nat
    /\ faults \in 0 .. MaxFaults

(* masterProc forks all workers.                                           *)
Init ==
    /\ proc = [w \in Workers |-> "starting"]
    /\ timer = [w \in Workers |-> TRUE]
    /\ missedPing = [w \in Workers |-> 0]
    /\ pinged = [w \in Workers |-> FALSE]
    /\ ponged = [w \in Workers |-> FALSE]
    /\ reforks = 0
    /\ faults = 0

-----------------------------------------------------------------------------
(* The primary.                                                            *)

(* Variant: nobody is killed.                                              *)
TickOnlyPings(w) ==
    /\ timer[w]
    /\ proc[w] = "up" => ~pinged[w] /\ ~ponged[w]
    /\ missedPing[w] <= MaxMissed
    /\ missedPing' = [missedPing EXCEPT ![w] = @ + 1]
    /\ pinged' = [pinged EXCEPT ![w] = TRUE]
    /\ UNCHANGED <<proc, timer, ponged, reforks, faults>>

(* The ping timer.  What happens to a process that is dead already does    *)
(* not matter to it.                                                       *)
Tick(w) ==
    /\ timer[w]
    /\ proc[w] = "up" => ~pinged[w] /\ ~ponged[w]
    /\ missedPing' = [missedPing EXCEPT ![w] = @ + 1]
    /\ pinged' = [pinged EXCEPT ![w] = TRUE]
    /\ IF missedPing[w] >= MaxMissed
       THEN /\ proc' = [proc EXCEPT ![w] = "dead"]
            /\ timer' = [timer EXCEPT ![w] = FALSE]
       ELSE UNCHANGED <<proc, timer>>
    /\ UNCHANGED <<ponged, reforks, faults>>

(* Variant: a pong does not make up for the pings before.                  *)
PongKeepsCount(w) ==
    /\ ponged[w]
    /\ ponged' = [ponged EXCEPT ![w] = FALSE]
    /\ UNCHANGED <<proc, timer, missedPing, pinged, reforks, faults>>

(* A pong of a worker.                                                     *)
Pong(w) ==
    /\ ponged[w]
    /\ ponged' = [ponged EXCEPT ![w] = FALSE]
    /\ missedPing' = [missedPing EXCEPT ![w] = 0]
    /\ UNCHANGED <<proc, timer, pinged, reforks, faults>>

(* Variant: only a worker that was not killed is forked again.             *)
ExitOfKilled(w) ==
    /\ proc[w] = "dead"
    /\ proc' = [proc EXCEPT ![w] = "none"]
    /\ timer' = [timer EXCEPT ![w] = FALSE]
    /\ reforks' = IF timer[w] THEN reforks + 1 ELSE reforks
    /\ UNCHANGED <<missedPing, pinged, ponged, faults>>

(* The exit handlers of the worker and of the cluster.                     *)
Exit(w) ==
    /\ proc[w] = "dead"
    /\ proc' = [proc EXCEPT ![w] = "none"]
    /\ timer' = [timer EXCEPT ![w] = FALSE]
    /\ reforks' = reforks + 1
    /\ UNCHANGED <<missedPing, pinged, ponged, faults>>

(* cluster.fork and setupWorker.                                           *)
Refork(w) ==
    /\ reforks > 0 /\ proc[w] = "none"
    /\ reforks' = reforks - 1
    /\ proc' = [proc EXCEPT ![w] = "starting"]
    /\ timer' = [timer EXCEPT ![w] = TRUE]
    /\ missedPing' = [missedPing EXCEPT ![w] = 0]
    /\ pinged' = [pinged EXCEPT ![w] = FALSE]
    /\ ponged' = [ponged EXCEPT ![w] = FALSE]
    /\ UNCHANGED faults

-----------------------------------------------------------------------------
(* The workers.                                                            *)

(* The message handler of setupNodes, once for all pings that wait.        *)
Answer(w) ==
    /\ proc[w] = "up" /\ pinged[w]
    /\ pinged' = [pinged EXCEPT ![w] = FALSE]
    /\ ponged' = [ponged EXCEPT ![w] = TRUE]
    /\ UNCHANGED <<proc, timer, missedPing, reforks, faults>>

Becomes(w, what) ==
    /\ proc' = [proc EXCEPT ![w] = what]
    /\ UNCHANGED <<timer, missedPing, pinged, ponged, reforks>>

(* startWorker has run.                                                    *)
Start(w) == proc[w] = "starting" /\ Becomes(w, "up") /\ UNCHANGED faults

(* It is no longer overloaded.                                             *)
Wake(w) == proc[w] = "silent" /\ Becomes(w, "up") /\ UNCHANGED faults

Fault == faults < MaxFaults /\ faults' = faults + 1

FallSilent(w) == proc[w] = "up" /\ Becomes(w, "silent") /\ Fault

Crash(w) ==
    proc[w] \in {"starting", "up", "silent"} /\ Becomes(w, "dead") /\ Fault

-----------------------------------------------------------------------------
Next == \E w \in Workers : \/ Tick(w) \/ Pong(w) \/ Exit(w) \/ Refork(w)
                           \/ Answer(w) \/ Start(w) \/ Wake(w)
                           \/ FallSilent(w) \/ Crash(w)

Spec == Init /\ [][Next]_vars

-----------------------------------------------------------------------------
(* Properties.                                                             *)

(* Every worker runs, is about to be noticed as dead, or waits to be       *)
(* forked again: crashes, kills and exits never lose or double one.        *)
WorkersConserved ==
    Cardinality({w \in Workers : proc[w] # "none"}) + reforks = Cardinality(Workers)

(* The primary never kills a worker that answers in time, however many     *)
(* pings it missed before; only a crash ends such a worker.                *)
ResponsiveIsSpared ==
    [][\A w \in Workers : proc[w] = "up" /\ proc'[w] = "dead" => faults' > faults]_vars

-----------------------------------------------------------------------------
(* Timers fire, messages arrive, and of the workers forked again and again *)
(* one starts before it is killed.                                         *)
Fairness ==
    \A w \in Workers : /\ WF_vars(Tick(w)) /\ WF_vars(Pong(w))
                       /\ WF_vars(Exit(w)) /\ WF_vars(Refork(w))
                       /\ WF_vars(Answer(w)) /\ SF_vars(Start(w))

FairSpec == Spec /\ Fairness

(* When crashes and silences end, all workers are up again, also those     *)
(* that hung for ever before they were killed.                             *)
AllUpAgain == <>[](\A w \in Workers : proc[w] = "up")

=============================================================================

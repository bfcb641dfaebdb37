------------------------- MODULE PeerDirectoryProofs -------------------------
(***************************************************************************)
(* Theorems about PeerDirectory, for every set of workers, whichever of    *)
(* them fail and however many commands are under way.                      *)
(***************************************************************************)
EXTENDS PeerDirectory, TLAPS

HasWrite(s) == \E i \in DOMAIN s : s[i] \in Writes

(* LastWriteTells, with positions that do not depend on the state.         *)
WritesTell ==
    "lost" \notin marks =>
        \A w \in Workers : \A i \in Nat :
            LastWrite(pipe[w], i) => (pipe[w][i] = "set" <=> registered[w])

Involved(w) == registered[w] \/ HasWrite(pipe[w])

(* Without overlap one worker at a time has the peer or writes about it.   *)
OneInvolved ==
    marks = {} => \A v, w \in Workers : Involved(v) /\ Involved(w) => v = w

(* A worker that has the peer, and whose SET has been run, has the entry.  *)
RegisteredHasKey ==
    marks = {} => \A w \in Workers :
        registered[w] /\ ~HasWrite(pipe[w]) => key = w

DirectoryInv ==
    /\ TypeOK
    /\ WritesTell
    /\ NoFalseEntry
    /\ OneInvolved
    /\ RegisteredHasKey

-----------------------------------------------------------------------------
(* Writes in a sequence of commands.                                       *)

(* A write that is appended is the last one.                               *)
LEMMA AppendWrite ==
    ASSUME NEW s \in Seq(Ops), NEW op \in Writes
    PROVE  /\ Append(s, op) \in Seq(Ops)
           /\ HasWrite(Append(s, op))
           /\ \A i \in Nat : LastWrite(Append(s, op), i) => Append(s, op)[i] = op
  <1> DEFINE t == Append(s, op)
  <1>1. /\ t \in Seq(Ops) /\ Len(t) = Len(s) + 1 /\ DOMAIN t = 1 .. Len(s) + 1
        /\ t[Len(s) + 1] = op /\ Len(s) \in Nat
    BY DEF Ops, Writes
  <1>2. HasWrite(t)
    BY <1>1 DEF HasWrite
  <1>3. ASSUME NEW i \in Nat, LastWrite(t, i) PROVE t[i] = op
    BY <1>1, <1>3 DEF LastWrite
  <1> QED
    BY <1>1, <1>2, <1>3

(* Another command that is appended makes no difference to the writes.     *)
LEMMA AppendOther ==
    ASSUME NEW s \in Seq(Ops), NEW op \in Ops, op \notin Writes
    PROVE  /\ Append(s, op) \in Seq(Ops)
           /\ HasWrite(Append(s, op)) <=> HasWrite(s)
           /\ \A i \in Nat : LastWrite(Append(s, op), i) =>
                 LastWrite(s, i) /\ Append(s, op)[i] = s[i]
  <1> DEFINE t == Append(s, op)
  <1>1. /\ t \in Seq(Ops) /\ DOMAIN t = 1 .. Len(s) + 1
        /\ DOMAIN s = 1 .. Len(s) /\ Len(s) \in Nat
        /\ t[Len(s) + 1] = op /\ \A i \in 1 .. Len(s) : t[i] = s[i]
    OBVIOUS
  <1>2. HasWrite(t) <=> HasWrite(s)
    BY <1>1 DEF HasWrite
  <1>3. ASSUME NEW i \in Nat, LastWrite(t, i) PROVE LastWrite(s, i) /\ t[i] = s[i]
    BY <1>1, <1>3 DEF LastWrite
  <1> QED
    BY <1>1, <1>2, <1>3

(* The rest of the commands after the first one.                           *)
LEMMA TailWrites ==
    ASSUME NEW s \in Seq(Ops), s # <<>>
    PROVE  /\ Tail(s) \in Seq(Ops) /\ Head(s) \in Ops
           /\ HasWrite(Tail(s)) => HasWrite(s)
           /\ Head(s) \in Writes => HasWrite(s)
           /\ HasWrite(s) => Head(s) \in Writes \/ HasWrite(Tail(s))
           /\ Head(s) \in Writes /\ ~HasWrite(Tail(s)) => LastWrite(s, 1)
           /\ Head(s) = s[1]
           /\ \A i \in Nat : LastWrite(Tail(s), i) =>
                 i + 1 \in Nat /\ LastWrite(s, i + 1) /\ Tail(s)[i] = s[i + 1]
  <1> DEFINE t == Tail(s)
  <1>1. /\ t \in Seq(Ops) /\ Head(s) \in Ops /\ Head(s) = s[1]
        /\ DOMAIN s = 1 .. Len(s) /\ Len(s) \in Nat \ {0}
        /\ DOMAIN t = 1 .. Len(s) - 1
        /\ \A i \in 1 .. Len(s) - 1 : t[i] = s[i + 1]
    OBVIOUS
  <1>2. HasWrite(t) => HasWrite(s)
    BY <1>1 DEF HasWrite
  <1>3. Head(s) \in Writes => HasWrite(s)
    BY <1>1 DEF HasWrite
  <1>4. ASSUME HasWrite(s), Head(s) \notin Writes PROVE HasWrite(t)
    <2>1. PICK i \in 1 .. Len(s) : s[i] \in Writes
      BY <1>1, <1>4 DEF HasWrite
    <2>2. i - 1 \in 1 .. Len(s) - 1 /\ t[i - 1] = s[i]
      BY <1>1, <1>4, <2>1
    <2> QED
      BY <1>1, <2>1, <2>2 DEF HasWrite
  <1>5. ASSUME Head(s) \in Writes, ~HasWrite(t) PROVE LastWrite(s, 1)
    <2>1. ASSUME NEW j \in 1 .. Len(s), j > 1 PROVE s[j] \notin Writes
      <3>1. j - 1 \in 1 .. Len(s) - 1 /\ t[j - 1] = s[j]
        BY <1>1, <2>1
      <3> QED
        BY <1>1, <1>5, <3>1 DEF HasWrite
    <2> QED
      BY <1>1, <1>5, <2>1 DEF LastWrite
  <1>6. ASSUME NEW i \in Nat, LastWrite(t, i)
        PROVE  i + 1 \in Nat /\ LastWrite(s, i + 1) /\ t[i] = s[i + 1]
    <2>1. i \in 1 .. Len(s) - 1 /\ t[i] = s[i + 1]
      BY <1>1, <1>6 DEF LastWrite
    <2>2. ASSUME NEW j \in 1 .. Len(s), j > i + 1 PROVE s[j] \notin Writes
      <3>1. j - 1 \in 1 .. Len(s) - 1 /\ t[j - 1] = s[j] /\ j - 1 > i
        BY <1>1, <2>1, <2>2
      <3> QED
        BY <1>1, <1>6, <3>1 DEF LastWrite
    <2> QED
      BY <1>1, <1>6, <2>1, <2>2 DEF LastWrite
  <1> QED
    BY <1>1, <1>2, <1>3, <1>4, <1>5, <1>6

(* No command, no write.                                                   *)
LEMMA NoWrites == ~HasWrite(<<>>) /\ \A i : ~LastWrite(<<>>, i)
  BY DEF HasWrite, LastWrite

-----------------------------------------------------------------------------
(* The inductive step.                                                     *)

LEMMA DirectoryInit == Init => DirectoryInv
  <1> SUFFICES ASSUME Init PROVE DirectoryInv
    OBVIOUS
  <1> USE DirectoryAssumption, NoWrites
  <1>1. TypeOK
    <2>1. <<>> \in Seq(Ops) /\ <<>> \in Seq(Workers \cup {None})
      OBVIOUS
    <2>2. /\ pipe \in [Workers -> Seq(Ops)]
          /\ answers \in [Workers -> Seq(Workers \cup {None})]
      BY <2>1 DEF Init
    <2> QED
      BY <2>2 DEF Init, TypeOK
  <1>2. NoFalseEntry
    BY DEF Init, NoFalseEntry
  <1>3. WritesTell /\ OneInvolved /\ RegisteredHasKey
    BY DEF Init, WritesTell, OneInvolved, RegisteredHasKey, Involved
  <1> QED
    BY <1>1, <1>2, <1>3 DEF DirectoryInv

(* Every step keeps the types.                                             *)
LEMMA TypeNext == TypeOK /\ [Next]_vars => TypeOK'
  <1> SUFFICES ASSUME TypeOK, [Next]_vars PROVE TypeOK'
    OBVIOUS
  <1> USE DirectoryAssumption DEF TypeOK, Ops
  <1>1. ASSUME NEW w \in Workers, Register(w) PROVE TypeOK'
    BY <1>1 DEF Register, SendCommand, LostIf
  <1>2. ASSUME NEW w \in Workers, Unregister(w) PROVE TypeOK'
    BY <1>2 DEF Unregister, SendCommand, LostIf
  <1>3. ASSUME NEW w \in Workers, Touch(w) PROVE TypeOK'
    BY <1>3 DEF Touch, SendCommand
  <1>4. ASSUME NEW w \in Workers, Lookup(w) PROVE TypeOK'
    BY <1>4 DEF Lookup, SendCommand
  <1>5. ASSUME NEW w \in Workers, Answered(w) PROVE TypeOK'
    <2>1. Head(answers[w]) \in Workers \cup {None}
          /\ Tail(answers[w]) \in Seq(Workers \cup {None})
      BY <1>5 DEF Answered
    <2> QED
      BY <1>5, <2>1 DEF Answered
  <1>6. ASSUME NEW w \in Workers, Evict(w) PROVE TypeOK'
    BY <1>6 DEF Evict
  <1>7. ASSUME NEW w \in Workers, Run(w) PROVE TypeOK'
    <2>1. Tail(pipe[w]) \in Seq(Ops) /\ pipe[w] # <<>>
      BY <1>7 DEF Run
    <2>2. key' \in Workers \cup {None}
      BY <1>7 DEF Run, Effect
    <2>3. answers' \in [Workers -> Seq(Workers \cup {None})]
      BY <1>7 DEF Run, Effect
    <2>4. \A v \in Workers : ~up[v] => answers'[v] = <<>>
      BY <1>7 DEF Run, Effect
    <2>5. pipe' \in [Workers -> Seq(Ops)]
      BY <1>7, <2>1 DEF Run
    <2> QED
      BY <1>7, <2>2, <2>3, <2>4, <2>5 DEF Run
  <1>8. ASSUME NEW w \in Workers, Reject(w) PROVE TypeOK'
    BY <1>8 DEF Reject, LostIf
  <1>9. ASSUME NEW w \in Workers, TakeABreak(w) \/ EndBreak(w) PROVE TypeOK'
    <2>1. CASE TakeABreak(w)
      BY <2>1 DEF TakeABreak
    <2>2. CASE EndBreak(w)
      BY <2>2 DEF EndBreak
    <2> QED
      BY <1>9, <2>1, <2>2
  <1>10. ASSUME NEW w \in Workers, Crash(w) PROVE TypeOK'
    BY <1>10 DEF Crash, LostIf
  <1>11. ASSUME KeyExpires \/ PeerLeaves PROVE TypeOK'
    BY <1>11 DEF KeyExpires, PeerLeaves, LostIf
  <1>12. ASSUME UNCHANGED vars PROVE TypeOK'
    BY <1>12 DEF vars
  <1> QED
    BY <1>1, <1>2, <1>3, <1>4, <1>5, <1>6, <1>7, <1>8, <1>9, <1>10, <1>11,
       <1>12 DEF Next

(* A step that leaves the writes, the registrations, the key and the marks *)
(* alone preserves the rest.                                               *)
LEMMA SameWrites ==
    ASSUME DirectoryInv, TypeOK',
           UNCHANGED <<registered, key, marks>>,
           \A w \in Workers :
              /\ HasWrite(pipe'[w]) <=> HasWrite(pipe[w])
              /\ \A i \in Nat : LastWrite(pipe'[w], i) =>
                    LastWrite(pipe[w], i) /\ pipe'[w][i] = pipe[w][i]
    PROVE  DirectoryInv'
  <1>1. WritesTell'
    BY DEF DirectoryInv, WritesTell
  <1>2. NoFalseEntry'
    BY DEF DirectoryInv, NoFalseEntry, PendingWrite, HasWrite
  <1>3. OneInvolved'
    BY DEF DirectoryInv, OneInvolved, Involved
  <1>4. RegisteredHasKey'
    BY DEF DirectoryInv, RegisteredHasKey
  <1> QED
    BY <1>1, <1>2, <1>3, <1>4 DEF DirectoryInv

(* A command of w that is no write.                                        *)
LEMMA SendOther ==
    ASSUME DirectoryInv, TypeOK', NEW w \in Workers, NEW op \in Ops,
           op \notin Writes, SendCommand(w, op),
           UNCHANGED <<registered, key, marks>>
    PROVE  DirectoryInv'
  <1>1. \A v \in Workers : pipe[v] \in Seq(Ops)
    BY DEF DirectoryInv, TypeOK
  <1>2. \A v \in Workers :
          pipe'[v] = pipe[v] \/ pipe'[v] = Append(pipe[v], op)
    BY DEF SendCommand, DirectoryInv, TypeOK
  <1>3. ASSUME NEW v \in Workers
        PROVE  /\ HasWrite(pipe'[v]) <=> HasWrite(pipe[v])
               /\ \A i \in Nat : LastWrite(pipe'[v], i) =>
                     LastWrite(pipe[v], i) /\ pipe'[v][i] = pipe[v][i]
    <2>1. CASE pipe'[v] = pipe[v]
      BY <2>1
    <2>2. CASE pipe'[v] = Append(pipe[v], op)
      <3>1. pipe[v] \in Seq(Ops)
        BY <1>1
      <3>2. /\ HasWrite(Append(pipe[v], op)) <=> HasWrite(pipe[v])
            /\ \A i \in Nat : LastWrite(Append(pipe[v], op), i) =>
                  LastWrite(pipe[v], i) /\ Append(pipe[v], op)[i] = pipe[v][i]
        BY <3>1, AppendOther
      <3> QED
        BY <2>2, <3>2
    <2> QED
      BY <1>2, <2>1, <2>2
  <1> QED
    BY <1>3, SameWrites

(* Once a write of w is on its way and nothing is lost, it is the last one *)
(* of w, and the writes of other workers stay as they were.                *)
LEMMA SendWrite ==
    ASSUME TypeOK, NEW w \in Workers, NEW op \in Writes,
           SendCommand(w, op), isAlive[w]
    PROVE  /\ HasWrite(pipe'[w])
           /\ \A i \in Nat : LastWrite(pipe'[w], i) => pipe'[w][i] = op
           /\ \A v \in Workers \ {w} : pipe'[v] = pipe[v]
  <1>1. pipe[w] \in Seq(Ops)
    BY DEF TypeOK
  <1>2. pipe'[w] = Append(pipe[w], op) /\ \A v \in Workers \ {w} : pipe'[v] = pipe[v]
    BY DEF SendCommand, TypeOK
  <1> QED
    BY <1>1, <1>2, AppendWrite

(* A lost write leaves nothing to show.                                    *)
LEMMA AfterLoss ==
    ASSUME TypeOK', "lost" \in marks'
    PROVE  DirectoryInv'
  BY DEF DirectoryInv, WritesTell, NoFalseEntry, OneInvolved, RegisteredHasKey

LEMMA RegisterInv ==
    ASSUME DirectoryInv, TypeOK', NEW w \in Workers, Register(w)
    PROVE  DirectoryInv'
  <1>0. TypeOK
    BY DEF DirectoryInv
  <1>1. CASE ~isAlive[w]
    <2>1. "lost" \in marks'
      BY <1>1 DEF Register, LostIf
    <2> QED
      BY <2>1, AfterLoss
  <1>2. CASE isAlive[w]
    <2>1. /\ HasWrite(pipe'[w])
          /\ \A i \in Nat : LastWrite(pipe'[w], i) => pipe'[w][i] = "set"
          /\ \A v \in Workers \ {w} : pipe'[v] = pipe[v]
      <3>1. "set" \in Writes /\ SendCommand(w, "set")
        BY DEF Register, Writes
      <3> QED
        BY <1>0, <1>2, <3>1, SendWrite
    <2>2. /\ registered'[w]
          /\ \A v \in Workers \ {w} : registered'[v] = registered[v]
      BY <1>0 DEF Register, TypeOK
    <2>3. \/ /\ \A v \in Workers \ {w} : ~registered[v] /\ ~HasWrite(pipe[v])
          \/ /\ "overlap" \in marks'
             /\ "lost" \notin marks' => "lost" \notin marks
      BY <1>2 DEF Register, HandedOver, PendingWrite, HasWrite, LostIf
    <2>4. WritesTell'
      <3> SUFFICES ASSUME "lost" \notin marks', NEW v \in Workers, NEW i \in Nat,
                          LastWrite(pipe'[v], i)
                   PROVE  pipe'[v][i] = "set" <=> registered'[v]
        BY DEF WritesTell
      <3>1. CASE v = w
        BY <2>1, <2>2, <3>1
      <3>2. CASE v # w
        <4>1. HasWrite(pipe[v]) /\ LastWrite(pipe[v], i)
          BY <2>1, <3>2 DEF LastWrite, HasWrite
        <4>2. "lost" \notin marks
          BY <2>3, <3>2, <4>1
        <4> QED
          BY <2>1, <2>2, <3>2, <4>1, <4>2 DEF DirectoryInv, WritesTell
      <3> QED
        BY <3>1, <3>2
    <2>5. NoFalseEntry'
      BY <2>1 DEF NoFalseEntry, PendingWrite, HasWrite
    <2>6. OneInvolved'
      BY <2>1, <2>2, <2>3 DEF OneInvolved, Involved
    <2>7. RegisteredHasKey'
      BY <2>1, <2>2, <2>3 DEF RegisteredHasKey
    <2> QED
      BY <2>4, <2>5, <2>6, <2>7 DEF DirectoryInv
  <1> QED
    BY <1>1, <1>2

LEMMA UnregisterInv ==
    ASSUME DirectoryInv, TypeOK', NEW w \in Workers, Unregister(w)
    PROVE  DirectoryInv'
  <1>0. TypeOK
    BY DEF DirectoryInv
  <1>1. CASE ~isAlive[w]
    <2>1. "lost" \in marks'
      BY <1>1 DEF Unregister, LostIf
    <2> QED
      BY <2>1, AfterLoss
  <1>2. CASE isAlive[w]
    <2>1. /\ HasWrite(pipe'[w])
          /\ \A i \in Nat : LastWrite(pipe'[w], i) => pipe'[w][i] = "del"
          /\ \A v \in Workers \ {w} : pipe'[v] = pipe[v]
      <3>1. "del" \in Writes /\ SendCommand(w, "del")
        BY DEF Unregister, Writes
      <3> QED
        BY <1>0, <1>2, <3>1, SendWrite
    <2>2. /\ registered[w] /\ ~registered'[w]
          /\ \A v \in Workers \ {w} : registered'[v] = registered[v]
          /\ marks' = marks /\ key' = key
      BY <1>0, <1>2 DEF Unregister, TypeOK, LostIf
    <2>3. WritesTell'
      <3> SUFFICES ASSUME "lost" \notin marks', NEW v \in Workers, NEW i \in Nat,
                          LastWrite(pipe'[v], i)
                   PROVE  pipe'[v][i] = "set" <=> registered'[v]
        BY DEF WritesTell
      <3>1. CASE v = w
        BY <2>1, <2>2, <3>1
      <3>2. CASE v # w
        BY <2>1, <2>2, <3>2 DEF DirectoryInv, WritesTell
      <3> QED
        BY <3>1, <3>2
    <2>4. NoFalseEntry'
      BY <2>1 DEF NoFalseEntry, PendingWrite, HasWrite
    <2>5. OneInvolved'
      BY <2>1, <2>2 DEF DirectoryInv, OneInvolved, Involved
    <2>6. RegisteredHasKey'
      BY <2>1, <2>2 DEF DirectoryInv, RegisteredHasKey
    <2> QED
      BY <2>3, <2>4, <2>5, <2>6 DEF DirectoryInv
  <1> QED
    BY <1>1, <1>2

(* Redis runs a command.  If it is the last write of w, it says whether w  *)
(* has the peer; if it is not, w still has a write under way.              *)
LEMMA RunInv ==
    ASSUME DirectoryInv, TypeOK', NEW w \in Workers, Run(w)
    PROVE  DirectoryInv'
  <1>1. /\ pipe[w] \in Seq(Ops) /\ pipe[w] # <<>>
        /\ pipe'[w] = Tail(pipe[w])
        /\ \A v \in Workers \ {w} : pipe'[v] = pipe[v]
        /\ UNCHANGED <<registered, marks>>
        /\ Effect(w, Head(pipe[w]))
    BY DEF Run, DirectoryInv, TypeOK
  <1>2. /\ HasWrite(pipe'[w]) => HasWrite(pipe[w])
        /\ Head(pipe[w]) \in Writes => HasWrite(pipe[w])
        /\ HasWrite(pipe[w]) => Head(pipe[w]) \in Writes \/ HasWrite(pipe'[w])
        /\ Head(pipe[w]) \in Writes /\ ~HasWrite(pipe'[w]) => LastWrite(pipe[w], 1)
        /\ Head(pipe[w]) = pipe[w][1] /\ Head(pipe[w]) \in Ops
        /\ \A i \in Nat : LastWrite(pipe'[w], i) =>
              i + 1 \in Nat /\ LastWrite(pipe[w], i + 1) /\ pipe'[w][i] = pipe[w][i + 1]
    <2> DEFINE s == pipe[w]
    <2>1. s \in Seq(Ops) /\ s # <<>> /\ pipe'[w] = Tail(s)
      BY <1>1
    <2>2. /\ HasWrite(Tail(s)) => HasWrite(s)
          /\ Head(s) \in Writes => HasWrite(s)
          /\ HasWrite(s) => Head(s) \in Writes \/ HasWrite(Tail(s))
          /\ Head(s) \in Writes /\ ~HasWrite(Tail(s)) => LastWrite(s, 1)
          /\ Head(s) = s[1] /\ Head(s) \in Ops
          /\ \A i \in Nat : LastWrite(Tail(s), i) =>
                i + 1 \in Nat /\ LastWrite(s, i + 1) /\ Tail(s)[i] = s[i + 1]
      <3> HIDE DEF s
      <3> QED
        BY <2>1, TailWrites
    <2> HIDE DEF s
    <2>3. s = pipe[w]
      BY DEF s
    <2> QED
      BY <2>1, <2>2, <2>3
  <1>3. WritesTell'
    <2> SUFFICES ASSUME "lost" \notin marks', NEW v \in Workers, NEW i \in Nat,
                        LastWrite(pipe'[v], i)
                 PROVE  pipe'[v][i] = "set" <=> registered'[v]
      BY DEF WritesTell
    <2>1. CASE v = w
      <3>1. i + 1 \in Nat /\ LastWrite(pipe[w], i + 1) /\ pipe'[w][i] = pipe[w][i + 1]
        BY <1>2, <2>1
      <3>2. pipe[w][i + 1] = "set" <=> registered[w]
        BY <1>1, <3>1 DEF DirectoryInv, WritesTell
      <3> QED
        BY <1>1, <2>1, <3>1, <3>2
    <2>2. CASE v # w
      BY <1>1, <2>2 DEF DirectoryInv, WritesTell
    <2> QED
      BY <2>1, <2>2
  <1>4. CASE Head(pipe[w]) \notin Writes
    <2>1. key' = key
      BY <1>1, <1>4 DEF Effect, Writes
    <2>2. \A v \in Workers : HasWrite(pipe'[v]) <=> HasWrite(pipe[v])
      BY <1>1, <1>2, <1>4
    <2>3. NoFalseEntry'
      BY <1>1, <2>1, <2>2 DEF DirectoryInv, NoFalseEntry, PendingWrite, HasWrite
    <2>4. OneInvolved' /\ RegisteredHasKey'
      BY <1>1, <2>1, <2>2 DEF DirectoryInv, OneInvolved, RegisteredHasKey, Involved
    <2> QED
      BY <1>3, <2>3, <2>4 DEF DirectoryInv
  <1>5. CASE Head(pipe[w]) \in Writes
    <2>1. /\ Head(pipe[w]) = "set" => key' = w
          /\ Head(pipe[w]) # "set" => key' = None
      BY <1>1, <1>5 DEF Effect, Writes
    <2>2. ASSUME ~HasWrite(pipe'[w]), "lost" \notin marks
          PROVE  Head(pipe[w]) = "set" <=> registered[w]
      BY <1>2, <1>5, <2>2 DEF DirectoryInv, WritesTell
    <2>3. NoFalseEntry'
      <3> SUFFICES ASSUME "lost" \notin marks', ~HasWrite(pipe'[w]), key' \in Workers
                   PROVE  registered'[key']
        BY DEF NoFalseEntry, PendingWrite, HasWrite
      <3>1. key' = w
        BY <2>1, DirectoryAssumption
      <3> QED
        BY <1>1, <2>1, <2>2, <3>1, DirectoryAssumption
    <2>4. OneInvolved'
      BY <1>1, <1>2 DEF DirectoryInv, OneInvolved, Involved
    <2>5. RegisteredHasKey'
      <3> SUFFICES ASSUME marks' = {}, NEW v \in Workers,
                          registered'[v], ~HasWrite(pipe'[v])
                   PROVE  key' = v
        BY DEF RegisteredHasKey
      <3>1. v = w
        BY <1>1, <1>2, <1>5 DEF DirectoryInv, OneInvolved, Involved
      <3> QED
        BY <1>1, <2>1, <2>2, <3>1
    <2> QED
      BY <1>3, <2>3, <2>4, <2>5 DEF DirectoryInv
  <1> QED
    BY <1>4, <1>5

LEMMA KeyExpiresInv ==
    ASSUME DirectoryInv, TypeOK', KeyExpires
    PROVE  DirectoryInv'
  <1>1. key \in Workers /\ key' = None /\ UNCHANGED <<registered, pipe>>
    BY DEF KeyExpires, DirectoryInv, TypeOK
  <1>2. CASE registered[key]
    <2>1. "lost" \in marks'
      BY <1>2 DEF KeyExpires, LostIf
    <2> QED
      BY <2>1, AfterLoss
  <1>3. CASE ~registered[key]
    <2>1. marks' = marks
      BY <1>3 DEF KeyExpires, LostIf
    <2>2. WritesTell' /\ OneInvolved'
      BY <1>1, <2>1 DEF DirectoryInv, WritesTell, OneInvolved, Involved
    <2>3. NoFalseEntry'
      BY <1>1, DirectoryAssumption DEF NoFalseEntry
    <2>4. RegisteredHasKey'
      BY <1>1, <1>3, <2>1 DEF DirectoryInv, RegisteredHasKey
    <2> QED
      BY <2>2, <2>3, <2>4 DEF DirectoryInv
  <1> QED
    BY <1>2, <1>3

(* The commands of w are gone.                                             *)
LEMMA RejectInv ==
    ASSUME DirectoryInv, TypeOK', NEW w \in Workers, Reject(w)
    PROVE  DirectoryInv'
  <1>0. TypeOK
    BY DEF DirectoryInv
  <1>1. /\ pipe'[w] = <<>> /\ \A v \in Workers \ {w} : pipe'[v] = pipe[v]
        /\ UNCHANGED <<registered, key>>
    BY <1>0 DEF Reject, TypeOK
  <1>2. CASE HasWrite(pipe[w])
    <2>1. "lost" \in marks'
      BY <1>2 DEF Reject, LostIf, PendingWrite, HasWrite
    <2> QED
      BY <2>1, AfterLoss
  <1>3. CASE ~HasWrite(pipe[w])
    <2>1. marks' = marks
      BY <1>3 DEF Reject, LostIf, PendingWrite, HasWrite
    <2>2. \A v \in Workers :
             /\ HasWrite(pipe'[v]) <=> HasWrite(pipe[v])
             /\ \A i \in Nat : LastWrite(pipe'[v], i) =>
                   LastWrite(pipe[v], i) /\ pipe'[v][i] = pipe[v][i]
      BY <1>1, <1>3, NoWrites
    <2> QED
      BY <1>1, <2>1, <2>2, SameWrites
  <1> QED
    BY <1>2, <1>3

(* A process dies: with the peer, the loss is marked; without it, whatever *)
(* it has under way says so.                                               *)
LEMMA CrashInv ==
    ASSUME DirectoryInv, TypeOK', NEW w \in Workers, Crash(w)
    PROVE  DirectoryInv'
  <1>1. CASE registered[w]
    <2>1. "lost" \in marks'
      BY <1>1 DEF Crash, LostIf
    <2> QED
      BY <2>1, AfterLoss
  <1>2. CASE ~registered[w]
    <2>1. registered' = registered
      BY <1>2 DEF Crash, DirectoryInv, TypeOK
    <2>2. UNCHANGED <<key, marks, pipe>>
      BY <1>2 DEF Crash, LostIf
    <2> QED
      BY <2>1, <2>2, SameWrites
  <1> QED
    BY <1>1, <1>2

LEMMA DirectoryNext == DirectoryInv /\ [Next]_vars => DirectoryInv'
  <1> SUFFICES ASSUME DirectoryInv, [Next]_vars PROVE DirectoryInv'
    OBVIOUS
  <1>0. TypeOK'
    BY TypeNext DEF DirectoryInv
  <1>1. ASSUME NEW w \in Workers, Register(w) PROVE DirectoryInv'
    BY <1>0, <1>1, RegisterInv
  <1>2. ASSUME NEW w \in Workers, Unregister(w) PROVE DirectoryInv'
    BY <1>0, <1>2, UnregisterInv
  <1>3. ASSUME NEW w \in Workers, Touch(w) PROVE DirectoryInv'
    BY <1>0, <1>3, SendOther DEF Touch, Ops, Writes
  <1>4. ASSUME NEW w \in Workers, Lookup(w) PROVE DirectoryInv'
    BY <1>0, <1>4, SendOther DEF Lookup, Ops, Writes
  <1>5. ASSUME UNCHANGED <<registered, key, marks, pipe>> PROVE DirectoryInv'
    BY <1>0, <1>5, SameWrites
  <1>6. ASSUME NEW w \in Workers,
               Answered(w) \/ Evict(w) \/ TakeABreak(w) \/ EndBreak(w)
        PROVE  DirectoryInv'
    BY <1>5, <1>6 DEF Answered, Evict, TakeABreak, EndBreak
  <1>7. ASSUME NEW w \in Workers, Run(w) PROVE DirectoryInv'
    BY <1>0, <1>7, RunInv
  <1>8. ASSUME NEW w \in Workers, Reject(w) \/ Crash(w) PROVE DirectoryInv'
    BY <1>0, <1>8, RejectInv, CrashInv
  <1>9. ASSUME KeyExpires PROVE DirectoryInv'
    BY <1>0, <1>9, KeyExpiresInv
  <1>10. ASSUME PeerLeaves \/ UNCHANGED vars PROVE DirectoryInv'
    BY <1>5, <1>10 DEF PeerLeaves, vars
  <1> QED
    BY <1>1, <1>2, <1>3, <1>4, <1>6, <1>7, <1>8, <1>9, <1>10 DEF Next

-----------------------------------------------------------------------------
(* The parts of the invariant hold of every reachable state.               *)
THEOREM DirectoryInvariant == Spec => []DirectoryInv
  BY DirectoryInit, DirectoryNext, PTL DEF Spec

(* Every variable keeps its type.                                          *)
THEOREM DirectoryTypes == Spec => []TypeOK
  <1>1. DirectoryInv => TypeOK
    BY DEF DirectoryInv
  <1> QED
    BY <1>1, DirectoryInvariant, PTL

(* The last write under way of every worker says whether it has the peer.  *)
THEOREM LastWriteIsTrue == Spec => []LastWriteTells
  <1>1. DirectoryInv => LastWriteTells
    <2> SUFFICES ASSUME DirectoryInv, "lost" \notin marks, NEW w \in Workers,
                        NEW i \in DOMAIN pipe[w], LastWrite(pipe[w], i)
                 PROVE  pipe[w][i] = "set" <=> registered[w]
      BY DEF LastWriteTells
    <2>1. i \in Nat
      BY DEF DirectoryInv, TypeOK
    <2> QED
      BY <2>1 DEF DirectoryInv, WritesTell
  <1> QED
    BY <1>1, DirectoryInvariant, PTL

(* Once the writes are run and unless a write was lost or workers fought   *)
(* over the peer, the entry names exactly the worker that has the peer.    *)
THEOREM DirectoryIsRight == Spec => []DirectoryAgrees
  <1>1. DirectoryInv => DirectoryAgrees
    <2> SUFFICES ASSUME DirectoryInv, marks = {},
                        \A w \in Workers : ~PendingWrite(w),
                        NEW w \in Workers
                 PROVE  key = w <=> registered[w]
      BY DEF DirectoryAgrees
    <2>1. key = w => registered[w]
      BY DEF DirectoryInv, NoFalseEntry
    <2>2. registered[w] => key = w
      BY DEF DirectoryInv, RegisteredHasKey, PendingWrite, HasWrite
    <2> QED
      BY <2>1, <2>2
  <1> QED
    BY <1>1, DirectoryInvariant, PTL

(* Workers that fight over the peer never leave an entry that names one    *)
(* that has given it up.                                                   *)
THEOREM EntryIsNeverFalse == Spec => []NoFalseEntry
  <1>1. DirectoryInv => NoFalseEntry
    BY DEF DirectoryInv
  <1> QED
    BY <1>1, DirectoryInvariant, PTL

=============================================================================

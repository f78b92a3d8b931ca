----------------------------- MODULE MixerProofs -----------------------------
(***************************************************************************)
(* Proofs about the voices of the mixer, for any number of voices, any     *)
(* notes, any calls of the main program and of the timer callback.         *)
(***************************************************************************)
EXTENDS Mixer, SequenceTheorems, FiniteSetTheorems, TLAPS

HandleSet == Voices \X Nat
LoopArgs == [h : HandleSet, on : BOOLEAN]

\* The handle that a voice has now.
Now(v) == <<v, gen[v]>>

MixerTypeOK ==
    /\ taken \subseteq Voices /\ pending \subseteq Voices
    /\ playing \subseteq Voices /\ starting \subseteq Voices
    /\ gen \in [Voices -> Nat]
    /\ ended \in Seq(HandleSet)
    /\ queue \in Seq([field : {"pos", "vol"}, of : HandleSet])
    /\ data \in [Voices -> HandleSet]
    /\ pos \in [Voices -> HandleSet] /\ vol \in [Voices -> HandleSet]
    /\ at \in [voice : Voices, stage : {"idle", "look", "fetch", "commit"}]
    /\ cur.of \in HandleSet

-----------------------------------------------------------------------------
(***************************************************************************)
(* The steps that can be left of a call, while interrupts are enabled and  *)
(* while they are masked.                                                  *)
(***************************************************************************)

Unlocked(q) ==
    \/ q = <<>>
    \/ \E p \in Plays : q = <<Step("claim", p)>>
    \/ \E h \in HandleSet : q = <<Step("retrigger", h)>>
    \/ \E h \in HandleSet : q = <<Step("stop", h)>>
    \/ q = <<Step("quiet", {})>>
    \/ \E a \in LoopArgs : q = <<Step("reap", {}), Step("loop", a)>>
    \/ \E a \in LoopArgs : q = <<Step("loop", a)>>
    \/ q = <<Step("reap", {}), Step("copy", {})>>
    \/ q = <<Step("copy", {})>>

\* What a call goes on with after it has collected the ends.
Collected ==
    {Step("pick", p) : p \in Plays} \cup {Step("loop", a) : a \in LoopArgs}
    \cup {Step("copy", {})}

\* What is left of Program(h) after each of its steps.
AfterData(h) == <<Step("pos", h), Step("vol", h), Step("on", h)>>
AfterPos(h)  == <<Step("vol", h), Step("on", h)>>
AfterVol(h)  == <<Step("on", h)>>

Locked(q) ==
    \/ \E S \in SUBSET Voices, s \in Collected : q = <<Step("clear", S), s>>
    \/ \E p \in Plays : q = <<Step("pick", p)>>
    \/ \E h \in HandleSet :
          q \in {Program(h), AfterData(h), AfterPos(h), AfterVol(h)}
    \/ \E v \in Voices : q = <<Step("hush", v)>>
    \/ q = <<Step("forget", {})>>

ICalls ==
    /\ Unlocked(todo) \/ Locked(todo)
    /\ Unlocked(saved) /\ (~inIsr => saved = <<>>)

-----------------------------------------------------------------------------
(***************************************************************************)
(* The inductive invariant.                                                *)
(***************************************************************************)

\* of_mixer_stop_all has been at these voices, which stay taken until it ends.
Hushed ==
    {w \in Voices : \/ todo = <<Step("forget", {})>>
                    \/ \E v \in Voices : todo = <<Step("hush", v)>> /\ w < v}
Held == taken \ Hushed

\* When the queue q has been drained, the register that holds x holds h.
Due(q, x, field, h) ==
    /\ \A i \in 1..Len(q) :
          q[i].field = field /\ q[i].of[1] = h[1] /\ q[i].of # h =>
             \E j \in 1..Len(q) : i < j /\ q[j] = [field |-> field, of |-> h]
    /\ \/ x = h
       \/ \E j \in 1..Len(q) : q[j] = [field |-> field, of |-> h]

\* The registers of the voice hold the note, or will by the time it starts.
PosDue(h) == Due(queue, pos[h[1]], "pos", h)
VolDue(h) == Due(queue, vol[h[1]], "vol", h)
IWritten ==
    \A v \in Held \cup playing \cup starting :
        data[v] = Now(v) /\ PosDue(Now(v)) /\ VolDue(Now(v))

\* Nothing is queued for a voice that plays.
IPlaying ==
    \A v \in playing :
        /\ pos[v] = Now(v) /\ vol[v] = Now(v)
        /\ \A i \in 1..Len(queue) : queue[i].of[1] # v

\* While a voice is programmed nobody has it and it is silent.
IProgram ==
    \A h \in HandleSet :
        /\ todo \in {Program(h), AfterData(h), AfterPos(h), AfterVol(h)} =>
              /\ h = Now(h[1]) /\ h[1] \notin taken \cup playing \cup starting
              /\ h \notin ToSet(ended)
        /\ todo \in {AfterData(h), AfterPos(h), AfterVol(h)} =>
              data[h[1]] = h /\ h[1] \notin pending
        /\ todo \in {AfterPos(h), AfterVol(h)} => PosDue(h)
        /\ todo = AfterVol(h) => VolDue(h)

\* What the scan has read of a voice is what the voice holds, unless it has been
\* told that it is not.
IScan ==
    at.stage \in {"fetch", "commit"} /\ ~cancelled =>
        at.voice \in playing /\ cur.of = Now(at.voice)

\* A note is recorded as ended once, and its voice is free.
IEnds ==
    /\ EndsAreReal
    /\ \A e \in ToSet(ended) :
          e[2] <= gen[e[1]] /\ (e = Now(e[1]) => e[1] \notin taken)

\* An end bit of a voice that is taken is that of its note.
IPending == \A v \in pending \cap Held : Now(v) \in finished

IInv ==
    /\ MixerTypeOK /\ ICalls
    /\ IWritten /\ IPlaying /\ IProgram /\ IScan /\ IEnds /\ IPending

\* What is added to it when no note runs out while its loop is being set: the
\* held voices are those that sound or have ended, and clearing end bits and
\* setting a loop, for which ends have been collected, forget none.
Slots ==
    /\ playing \cup starting \subseteq Held \ pending
    /\ Held \subseteq playing \cup starting \cup pending
ClearSafe ==
    \A S \in SUBSET Voices, s \in Collected :
        todo = <<Step("clear", S), s>> => S \cap taken = {}
LoopSafe ==
    \A a \in LoopArgs :
        \/ todo = <<Step("loop", a)>> \/ saved = <<Step("loop", a)>>
        \/ \E S \in SUBSET Voices : todo = <<Step("clear", S), Step("loop", a)>>
        => a.h[1] \notin pending \cap taken

ISlots == Slots /\ ClearSafe /\ LoopSafe

-----------------------------------------------------------------------------
(***************************************************************************)
(* What a step of a call does, by what is left of the call.                *)
(***************************************************************************)

\* No voice is being programmed, and of_mixer_stop_all is not at work.
Calm(q) ==
    q = <<>> \/ Head(q).op \notin {"data", "pos", "vol", "on", "hush", "forget"}

\* What no step of a call but a few of them changes.
KeepBits == UNCHANGED <<queue, playing, starting, cancelled>>

\* Ends are collected; the call goes on with the step next.
Collect(next) ==
    /\ Calm(todo)
    /\ Reap /\ KeepBits /\ UNCHANGED <<data, pending>>
    /\ todo' = Clear(pending, next)

Acknowledge(S, next) ==
    /\ todo = <<Step("clear", S), next>> /\ todo' = <<next>>
    /\ pending' = pending \ S
    /\ KeepBits /\ UNCHANGED <<data, taken, gen, ended>>

\* A step that ends the call, or of_mixer_stop_all's first, changes nothing.
Pass ==
    /\ Calm(todo) /\ todo' \in {<<>>, <<Step("hush", 0)>>}
    /\ KeepBits /\ UNCHANGED <<data, pending, taken, gen, ended>>

Take(v) ==
    /\ Calm(todo) /\ Renew(v) /\ UNCHANGED <<data, pending, ended>>

Release(h) ==
    /\ Calm(todo) /\ Valid(h) /\ Off(h[1])
    /\ taken' = taken \ {h[1]} /\ todo' = <<>>
    /\ UNCHANGED <<data, pending, gen, ended>>

Silence(v) ==
    /\ todo = <<Step("hush", v)>> /\ Hush(v) /\ UNCHANGED <<data, pending>>

Forgotten ==
    /\ todo = <<Step("forget", {})>> /\ Forget /\ UNCHANGED <<data, pending>>

Relooped(h) ==
    /\ Calm(todo) /\ Valid(h) /\ On(h[1]) /\ todo' = <<>>
    /\ UNCHANGED <<data, pending, taken, gen, ended>>

Reported ==
    /\ todo = <<Step("copy", {})>> /\ Copy /\ UNCHANGED <<data, pending>>

WriteData(h) ==
    /\ todo = Program(h) /\ todo' = AfterData(h)
    /\ data' = [data EXCEPT ![h[1]] = h] /\ pending' = pending \ {h[1]}
    /\ KeepBits /\ UNCHANGED <<taken, gen, ended>>

WriteState(h) ==
    /\ \/ todo = AfterData(h) /\ todo' = AfterPos(h) /\ Push("pos", h)
       \/ todo = AfterPos(h) /\ todo' = AfterVol(h) /\ Push("vol", h)
    /\ UNCHANGED <<data, pending, taken, gen, ended>>

Start(h) ==
    /\ todo = AfterVol(h) /\ todo' = <<>> /\ On(h[1])
    /\ taken' = taken \cup {h[1]} /\ UNCHANGED <<data, pending, gen, ended>>

Common ==
    /\ finished' =
          (IF Head(todo).op = "copy" THEN finished \ Oldest ELSE finished)
             \cap (ToSet(ended') \cup Latest)
    /\ UNCHANGED <<saved, inIsr, pos, vol, at, cur>>

\* Every step of a call is one of these.
LEMMA CallStepCases ==
  ASSUME ICalls, CallStep
  PROVE  /\ Common
         /\ Reported \/ Head(todo).op # "copy"
         /\ \/ \E next \in Collected : Collect(next)
            \/ \E S \in SUBSET Voices, next \in Collected : Acknowledge(S, next)
            \/ Pass
            \/ \E p \in Plays : todo = <<Step("pick", p)>>
                                  /\ \E v \in Choice(p) : Take(v)
            \/ \E h \in HandleSet : todo = <<Step("retrigger", h)>>
                                    /\ Valid(h) /\ Take(h[1])
            \/ \E h \in HandleSet : todo = <<Step("stop", h)>> /\ Release(h)
            \/ \E v \in Voices : Silence(v)
            \/ Forgotten
            \/ \E a \in LoopArgs : todo = <<Step("loop", a)>> /\ Relooped(a.h)
            \/ Reported
            \/ \E h \in HandleSet : WriteData(h)
            \/ \E h \in HandleSet : WriteState(h)
            \/ \E h \in HandleSet : Start(h)
<1> USE DEF Common, KeepBits, Calm
<1>1. Common
  BY DEF CallStep, stateVars, scanVars
<1>2. Unlocked(todo) \/ Locked(todo)
  BY DEF ICalls
<1> DEFINE SameTable == data' = data /\ pending' = pending
<1>a. ASSUME Head(todo).op \notin {"data", "clear"} PROVE SameTable
  BY <1>a DEF CallStep, Table, Acknowledged
<1>b. Head(todo).op # "copy" \/ Reported
  <2>1. Head(todo).op = "copy" => todo = <<Step("copy", {})>>
    BY DEF CallStep, ICalls, Unlocked, Locked, Step, Program, AfterData,
           AfterPos, AfterVol
  <2>2. Head(todo).op = "copy" => Copy
    BY DEF CallStep
  <2>3. QED
    BY <1>a, <2>1, <2>2 DEF Reported
<1>3. CASE \E p \in Plays : todo = <<Step("claim", p)>>
  <2>1. PICK p \in Plays : todo = <<Step("claim", p)>>
    BY <1>3
  <2>2. Head(todo).op = "claim" /\ Head(todo).arg = p
    BY <2>1 DEF Step
  <2>3. Claim(p)
    BY <2>2 DEF CallStep
  <2>4. Collect(Step("pick", p))
    BY <2>3, <2>2, <1>a DEF Claim, Quietly, Collect, Step
  <2>5. QED
    BY <1>1, <1>b, <2>4 DEF Collected
<1>4. CASE \E h \in HandleSet : todo = <<Step("retrigger", h)>>
  <2>1. PICK h \in HandleSet : todo = <<Step("retrigger", h)>>
    BY <1>4
  <2>2. Head(todo).op = "retrigger" /\ Head(todo).arg = h
    BY <2>1 DEF Step
  <2>3. Retrigger(h)
    BY <2>2 DEF CallStep
  <2>4. (Take(h[1]) /\ Valid(h)) \/ Pass
    BY <2>1, <2>2, <2>3, <1>a DEF Retrigger, Take, Pass, Quietly, fwVars
  <2>5. QED
    BY <1>1, <1>b, <2>1, <2>4 DEF Collected
<1>5. CASE \E h \in HandleSet : todo = <<Step("stop", h)>>
  <2>1. PICK h \in HandleSet : todo = <<Step("stop", h)>>
    BY <1>5
  <2>2. Head(todo).op = "stop" /\ Head(todo).arg = h
    BY <2>1 DEF Step
  <2>3. Stop(h)
    BY <2>2 DEF CallStep
  <2>4. Release(h) \/ Pass
    BY <2>1, <2>2, <2>3, <1>a DEF Stop, Release, Pass, Quietly
  <2>5. QED
    BY <1>1, <1>b, <2>1, <2>4 DEF Collected
<1>6. CASE todo = <<Step("quiet", {})>>
  <2>1. Head(todo).op = "quiet"
    BY <1>6 DEF Step
  <2>2. Quiet
    BY <2>1 DEF CallStep
  <2>3. Pass
    BY <1>6, <2>1, <2>2, <1>a DEF Quiet, Pass, Quietly, fwVars
  <2>4. QED
    BY <1>1, <1>b, <1>6, <2>3 DEF Collected
<1>7. CASE \E a \in LoopArgs : todo = <<Step("reap", {}), Step("loop", a)>>
  <2>1. PICK a \in LoopArgs : todo = <<Step("reap", {}), Step("loop", a)>>
    BY <1>7
  <2>2. Head(todo).op = "reap"
    BY <2>1 DEF Step
  <2>3. Reap /\ Quietly /\ todo' = Clear(pending, todo[2])
    BY <2>2 DEF CallStep
  <2>4. Collect(Step("loop", a))
    BY <2>1, <2>2, <2>3, <1>a DEF Collect, Quietly
  <2>5. QED
    BY <1>1, <1>b, <2>1, <2>4 DEF Collected
<1>8. CASE \E a \in LoopArgs : todo = <<Step("loop", a)>>
  <2>1. PICK a \in LoopArgs : todo = <<Step("loop", a)>>
    BY <1>8
  <2>2. Head(todo).op = "loop" /\ Head(todo).arg = a
    BY <2>1 DEF Step
  <2>3. Loop(a.h)
    BY <2>2 DEF CallStep
  <2>4. Relooped(a.h) \/ Pass
    BY <2>1, <2>2, <2>3, <1>a DEF Loop, Relooped, Pass, Quietly, fwVars
  <2>5. QED
    BY <1>1, <1>b, <2>1, <2>4 DEF Collected
<1>9. CASE todo = <<Step("reap", {}), Step("copy", {})>>
  <2>1. Head(todo).op = "reap"
    BY <1>9 DEF Step
  <2>2. Reap /\ Quietly /\ todo' = Clear(pending, todo[2])
    BY <2>1 DEF CallStep
  <2>3. Collect(Step("copy", {}))
    BY <1>9, <2>1, <2>2, <1>a DEF Collect, Quietly
  <2>4. QED
    BY <1>1, <1>b, <1>9, <2>3 DEF Collected
<1>10. CASE todo = <<Step("copy", {})>>
  <2>1. Head(todo).op = "copy"
    BY <1>10 DEF Step
  <2>2. Copy
    BY <2>1 DEF CallStep
  <2>3. Reported
    BY <1>10, <2>1, <2>2, <1>a DEF Reported
  <2>4. QED
    BY <1>1, <1>b, <1>10, <2>3 DEF Collected
<1>11. CASE \E S \in SUBSET Voices, s \in Collected :
               todo = <<Step("clear", S), s>>
  <2>1. PICK S \in SUBSET Voices, s \in Collected :
               todo = <<Step("clear", S), s>>
    BY <1>11
  <2>2. Head(todo).op = "clear" /\ Head(todo).arg = S
    BY <2>1 DEF Step
  <2>3. Plain(Head(todo)) /\ Table(Head(todo))
    BY <2>2 DEF CallStep
  <2>4. Tail(todo) = <<s>>
    BY <2>1, <2>2, <2>3
  <2>5. Acknowledge(S, s)
    BY <2>1, <2>2, <2>3, <2>4
    DEF Acknowledge, Plain, Table, Acknowledged, Quietly
  <2>6. QED
    BY <1>1, <1>b, <2>1, <2>5 DEF Collected
<1>12. CASE \E p \in Plays : todo = <<Step("pick", p)>>
  <2>1. PICK p \in Plays : todo = <<Step("pick", p)>>
    BY <1>12
  <2>2. Head(todo).op = "pick" /\ Head(todo).arg = p
    BY <2>1 DEF Step
  <2>3. Pick(p)
    BY <2>2 DEF CallStep
  <2>4. Pass \/ \E v \in Choice(p) : Take(v)
    BY <2>1, <2>2, <2>3, <1>a DEF Pick, Pass, Take, Quietly, fwVars
  <2>5. QED
    BY <1>1, <1>b, <2>1, <2>4 DEF Collected
<1>13. CASE \E v \in Voices : todo = <<Step("hush", v)>>
  <2>1. PICK v \in Voices : todo = <<Step("hush", v)>>
    BY <1>13
  <2>2. Head(todo).op = "hush" /\ Head(todo).arg = v
    BY <2>1 DEF Step
  <2>3. Hush(v)
    BY <2>2 DEF CallStep
  <2>4. Silence(v)
    BY <2>1, <2>2, <2>3, <1>a DEF Silence
  <2>5. QED
    BY <1>1, <1>b, <2>1, <2>4 DEF Collected
<1>14. CASE todo = <<Step("forget", {})>>
  <2>1. Head(todo).op = "forget"
    BY <1>14 DEF Step
  <2>2. Forget
    BY <2>1 DEF CallStep
  <2>3. Forgotten
    BY <1>14, <2>1, <2>2, <1>a DEF Forgotten
  <2>4. QED
    BY <1>1, <1>b, <1>14, <2>3 DEF Collected
<1>15. CASE \E h \in HandleSet :
              todo \in {Program(h), AfterData(h), AfterPos(h), AfterVol(h)}
  <2>1. PICK h \in HandleSet :
               todo \in {Program(h), AfterData(h), AfterPos(h), AfterVol(h)}
    BY <1>15
  <2>2. CASE todo = Program(h)
    <3>1. Head(todo).op = "data" /\ Head(todo).arg = h
      BY <2>2 DEF Program, Step
    <3>2. Plain(Head(todo)) /\ Table(Head(todo))
      BY <3>1 DEF CallStep
    <3>3. Tail(todo) = AfterData(h)
      BY <2>2 DEF Program, AfterData
    <3>4. WriteData(h)
      BY <2>2, <3>1, <3>2, <3>3
      DEF WriteData, Plain, Table, Acknowledged, Quietly
    <3>5. QED
      BY <1>1, <1>b, <3>4
  <2>3. CASE todo = AfterData(h)
    <3>1. Head(todo).op = "pos" /\ Head(todo).arg = h
      BY <2>3 DEF AfterData, Step
    <3>2. Plain(Head(todo)) /\ Table(Head(todo))
      BY <3>1 DEF CallStep
    <3>3. Tail(todo) = AfterPos(h)
      BY <2>3 DEF AfterData, AfterPos
    <3>4. WriteState(h)
      BY <1>a, <2>3, <3>1, <3>2, <3>3 DEF WriteState, Plain
    <3>5. QED
      BY <1>1, <1>b, <3>4
  <2>4. CASE todo = AfterPos(h)
    <3>1. Head(todo).op = "vol" /\ Head(todo).arg = h
      BY <2>4 DEF AfterPos, Step
    <3>2. Plain(Head(todo)) /\ Table(Head(todo))
      BY <3>1 DEF CallStep
    <3>3. Tail(todo) = AfterVol(h)
      BY <2>4 DEF AfterPos, AfterVol
    <3>4. WriteState(h)
      BY <1>a, <2>4, <3>1, <3>2, <3>3 DEF WriteState, Plain
    <3>5. QED
      BY <1>1, <1>b, <3>4
  <2>5. CASE todo = AfterVol(h)
    <3>1. Head(todo).op = "on" /\ Head(todo).arg = h
      BY <2>5 DEF AfterVol, Step
    <3>2. Plain(Head(todo)) /\ Table(Head(todo))
      BY <3>1 DEF CallStep
    <3>3. Tail(todo) = <<>>
      BY <2>5 DEF AfterVol
    <3>4. Start(h)
      BY <1>a, <2>5, <3>1, <3>2, <3>3 DEF Start, Plain
    <3>5. QED
      BY <1>1, <1>b, <3>4
  <2>6. QED
    BY <2>1, <2>2, <2>3, <2>4, <2>5
<1>16. todo # <<>>
  BY DEF CallStep
<1>17. QED
  BY <1>2, <1>3, <1>4, <1>5, <1>6, <1>7, <1>8, <1>9, <1>10, <1>11, <1>12,
     <1>13, <1>14, <1>15, <1>16
  DEF Unlocked, Locked

-----------------------------------------------------------------------------
\* Facts about Due.
Entries == [field : {"pos", "vol"}, of : HandleSet]

\* An entry of another register or another voice changes nothing that is due.
LEMMA DueSame ==
  ASSUME NEW q \in Seq(Entries), NEW e \in Entries, NEW x, NEW f, NEW h,
         Due(q, x, f, h), e.field # f \/ e.of[1] # h[1]
  PROVE  Due(Append(q, e), x, f, h)
<1>1. /\ Len(Append(q, e)) = Len(q) + 1 /\ Append(q, e)[Len(q) + 1] = e
      /\ \A i \in 1..Len(q) : Append(q, e)[i] = q[i]
  BY AppendProperties
<1>2. QED
  BY <1>1 DEF Due

\* What has been pushed last is due.
LEMMA DuePushed ==
  ASSUME NEW q \in Seq(Entries), NEW f \in {"pos", "vol"}, NEW h \in HandleSet,
         NEW x
  PROVE  Due(Append(q, [field |-> f, of |-> h]), x, f, h)
<1> DEFINE e == [field |-> f, of |-> h]
<1>1. /\ Len(Append(q, e)) = Len(q) + 1 /\ Append(q, e)[Len(q) + 1] = e
      /\ \A i \in 1..Len(q) : Append(q, e)[i] = q[i]
  BY AppendProperties DEF Entries
<1>2. QED
  BY <1>1 DEF Due

\* Draining an entry writes its register, and what was due is still due.
LEMMA DueDrained ==
  ASSUME NEW q \in Seq(Entries), q # <<>>, NEW x, NEW f, NEW h, Due(q, x, f, h)
  PROVE  LET e == Head(q)
             y == IF e.field = f /\ e.of[1] = h[1] THEN e.of ELSE x
         IN  Due(Tail(q), y, f, h)
<1>1. /\ Len(Tail(q)) = Len(q) - 1 /\ Head(q) = q[1] /\ Len(q) \in Nat \ {0}
      /\ \A i \in 1..Len(Tail(q)) : Tail(q)[i] = q[i + 1]
  BY HeadTailProperties
<1> DEFINE y == IF q[1].field = f /\ q[1].of[1] = h[1] THEN q[1].of ELSE x
           g == [field |-> f, of |-> h]
<1>2. ASSUME NEW i \in 1..Len(Tail(q)), Tail(q)[i].field = f,
             Tail(q)[i].of[1] = h[1], Tail(q)[i].of # h
      PROVE  \E j \in 1..Len(Tail(q)) : i < j /\ Tail(q)[j] = g
  <2>1. PICK j \in 1..Len(q) : i + 1 < j /\ q[j] = g
    BY <1>1, <1>2 DEF Due
  <2>2. j - 1 \in 1..Len(Tail(q)) /\ i < j - 1 /\ Tail(q)[j - 1] = g
    BY <1>1, <2>1
  <2>3. QED
    BY <2>2
<1>3. y = h \/ \E j \in 1..Len(Tail(q)) : Tail(q)[j] = g
  <2>1. ASSUME NEW j \in 1..Len(q), 1 < j, q[j] = g
        PROVE  \E k \in 1..Len(Tail(q)) : Tail(q)[k] = g
    <3>1. j - 1 \in 1..Len(Tail(q)) /\ Tail(q)[j - 1] = g
      BY <1>1, <2>1
    <3>2. QED
      BY <3>1
  <2>2. CASE q[1].field = f /\ q[1].of[1] = h[1] /\ q[1].of # h
    <3>1. 1 \in 1..Len(q)
      BY <1>1
    <3>2. PICK j \in 1..Len(q) : 1 < j /\ q[j] = g
      BY <2>2, <3>1 DEF Due
    <3>3. QED
      BY <2>1, <3>2
  <2>3. CASE q[1].field = f /\ q[1].of[1] = h[1] /\ q[1].of = h
    BY <2>3
  <2>4. CASE ~(q[1].field = f /\ q[1].of[1] = h[1])
    BY <1>1, <2>1, <2>4 DEF Due
  <2>5. QED
    BY <2>2, <2>3, <2>4
<1>4. QED
  BY <1>1, <1>2, <1>3 DEF Due

\* With an empty queue, what is due is there.
LEMMA DueEmpty == ASSUME NEW x, NEW f, NEW h, Due(<<>>, x, f, h) PROVE x = h
  BY DEF Due

-----------------------------------------------------------------------------
(***************************************************************************)
(* The queue of ended notes.                                               *)
(***************************************************************************)

\* What a collection leaves in the queue was there or is a handle whose end bit
\* is read, and is there once.
LEMMA ReapEnds ==
  ASSUME MixerTypeOK, Reap
  PROVE  /\ ended' \in Seq(HandleSet)
         /\ ToSet(ended') \subseteq
               ToSet(ended) \cup {Now(v) : v \in pending \cap taken}
         /\ IEnds => IsInjective(ended')
<1> DEFINE S == pending \cap taken
<1>1. PICK s \in Ascending(S) :
         ended' = Newest(ended \o [i \in DOMAIN s |-> <<s[i], gen[s[i]]>>])
  BY DEF Reap
<1> DEFINE n == Cardinality(S)
           t == [i \in 1..n |-> Now(s[i])]
           q == ended \o t
<1>2. n \in Nat
  <2>1. IsFiniteSet(Voices)
    BY MixerAssumption, FS_Interval DEF Voices
  <2>2. S \subseteq Voices
    BY DEF MixerTypeOK
  <2>3. QED
    BY <2>1, <2>2, FS_Subset, FS_CardinalityType
<1>3. s \in [1..n -> S] /\ \A i, j \in 1..n : i < j => s[i] < s[j]
  BY DEF Ascending
<1>4. \A i \in 1..n : s[i] \in S /\ s[i] \in Voices /\ s[i] \in Int
  <2>1. S \subseteq Voices /\ Voices \subseteq Int
    BY MixerAssumption DEF MixerTypeOK, Voices
  <2>2. QED
    BY <1>3, <2>1
<1>0. /\ ended \in Seq(HandleSet) /\ Len(ended) \in Nat
      /\ DOMAIN ended = 1..Len(ended)
  BY DEF MixerTypeOK
<1>5. t \in Seq(HandleSet) /\ Len(t) = n /\ \A i \in 1..n : t[i] = Now(s[i])
  <2>1. \A i \in 1..n : Now(s[i]) \in HandleSet
    BY <1>4 DEF MixerTypeOK, Now, HandleSet
  <2>2. t \in [1..n -> HandleSet]
    BY <2>1
  <2>. HIDE DEF t
  <2>3. t \in Seq(HandleSet)
    <3>1. t \in UNION {[1..k -> HandleSet] : k \in Nat}
      BY <1>2, <2>2
    <3>2. QED
      BY <3>1, SeqDef, Zenon
  <2>4. DOMAIN t = 1..n /\ DOMAIN t = 1..Len(t) /\ Len(t) \in Nat
    BY <2>2, <2>3, LenProperties
  <2>5. \A i \in 1..n : t[i] = Now(s[i])
    BY DEF t
  <2>6. Len(t) = n
    <3>1. \A k \in Int : k \in 1..n <=> k \in 1..Len(t)
      BY <2>4
    <3>2. QED
      BY <1>2, <2>4, <3>1
  <2>7. QED
    BY <2>3, <2>5, <2>6
<1>6. ended' = Newest(q)
  BY <1>1, <1>3 DEF Now
<1> HIDE DEF t
<1>7. /\ q \in Seq(HandleSet) /\ Len(q) = Len(ended) + n /\ Len(q) \in Nat
      /\ \A i \in 1..Len(q) :
            IF i <= Len(ended) THEN i \in DOMAIN ended /\ q[i] = ended[i]
            ELSE /\ i - Len(ended) \in 1..n
                 /\ q[i] = Now(s[i - Len(ended)])
  <2>1. /\ q \in Seq(HandleSet) /\ Len(q) = Len(ended) + Len(t)
        /\ \A i \in 1..Len(ended) + Len(t) :
              q[i] = IF i <= Len(ended) THEN ended[i] ELSE t[i - Len(ended)]
    BY <1>0, <1>5, ConcatProperties
  <2> HIDE DEF q
  <2>2. \A i \in 1..Len(q) : IF i <= Len(ended) THEN i \in 1..Len(ended)
                             ELSE i - Len(ended) \in 1..n
    BY <1>0, <1>2, <1>5, <2>1
  <2>3. Len(q) = Len(ended) + n /\ Len(q) \in Nat
    BY <1>0, <1>2, <1>5, <2>1
  <2>4. ASSUME NEW i \in 1..Len(q)
        PROVE  IF i <= Len(ended) THEN i \in DOMAIN ended /\ q[i] = ended[i]
               ELSE /\ i - Len(ended) \in 1..n
                    /\ q[i] = Now(s[i - Len(ended)])
    <3>1. q[i] = IF i <= Len(ended) THEN ended[i] ELSE t[i - Len(ended)]
      BY <1>5, <2>1, <2>3
    <3>2. CASE i <= Len(ended)
      BY <1>0, <2>2, <3>1, <3>2
    <3>3. CASE ~(i <= Len(ended))
      BY <1>5, <2>2, <3>1, <3>3
    <3>4. QED
      BY <3>2, <3>3
  <2>5. QED
    BY <2>1, <2>3, <2>4
<1> HIDE DEF q
<1> DEFINE m == IF Len(q) > QueueSize THEN Len(q) - QueueSize + 1 ELSE 1
<1>8. m \in 1..Len(q) + 1
  BY <1>7, MixerAssumption
<1> HIDE DEF m
<1>9. /\ ended' \in Seq(HandleSet)
      /\ Len(ended') = Len(q) - m + 1
      /\ \A i \in 1..Len(ended') : ended'[i] = q[m + i - 1]
  <2>1. ended' = SubSeq(q, m, Len(q))
    BY <1>6 DEF Newest, m
  <2>2. \A i \in m..Len(q) : q[i] \in HandleSet
    BY <1>7, <1>8
  <2>3. m \in Int /\ Len(q) \in Int
    BY <1>7, <1>8
  <2>4. /\ ended' \in Seq(HandleSet)
        /\ Len(ended') = IF m <= Len(q) THEN Len(q) - m + 1 ELSE 0
        /\ \A i \in 1..Len(q) - m + 1 : ended'[i] = q[m + i - 1]
    BY <2>1, <2>2, <2>3, SubSeqProperties
  <2>5. Len(ended') = Len(q) - m + 1
    BY <1>7, <1>8, <2>4
  <2>6. QED
    BY <2>4, <2>5
<1>10. ASSUME NEW i \in 1..Len(ended')
       PROVE  m + i - 1 \in 1..Len(q)
  BY <1>7, <1>8, <1>9
<1>11. \A i \in 1..Len(q) :
          q[i] \in ToSet(ended) \cup {Now(v) : v \in pending \cap taken}
  <2>1. ASSUME NEW i \in 1..Len(q), i <= Len(ended)
        PROVE  q[i] \in ToSet(ended)
    BY <1>0, <1>7, <2>1 DEF ToSet
  <2>2. ASSUME NEW i \in 1..Len(q), ~(i <= Len(ended))
        PROVE  q[i] \in {Now(v) : v \in pending \cap taken}
    BY <1>4, <1>7, <2>2
  <2>3. QED
    BY <2>1, <2>2
<1>12. ToSet(ended') \subseteq
          ToSet(ended) \cup {Now(v) : v \in pending \cap taken}
  BY <1>9, <1>10, <1>11 DEF ToSet
<1>13. ASSUME IEnds PROVE IsInjective(ended')
  <2>1. \A i, j \in 1..Len(q) : i < j => q[i] # q[j]
    <3>1. SUFFICES ASSUME NEW i \in 1..Len(q), NEW j \in 1..Len(q), i < j,
                          q[i] = q[j]
                   PROVE  FALSE
      OBVIOUS
    <3>2. i \in Nat /\ j \in Nat /\ i # j
      BY <3>1, <1>7
    <3>3. CASE j <= Len(ended)
      <4>1. i <= Len(ended)
        BY <1>0, <3>1, <3>2, <3>3
      <4>2. /\ i \in DOMAIN ended /\ j \in DOMAIN ended
            /\ ended[i] = ended[j]
        BY <1>7, <3>1, <3>3, <4>1
      <4>3. QED
        BY <1>13, <3>2, <4>2 DEF IEnds, EndsAreReal, IsInjective
    <3>4. CASE i <= Len(ended) /\ ~(j <= Len(ended))
      <4> DEFINE v == s[j - Len(ended)]
      <4>1. v \in taken /\ ended[i] = Now(v) /\ i \in DOMAIN ended
        BY <1>4, <1>7, <3>1, <3>4
      <4>2. ended[i] \in ToSet(ended)
        BY <4>1 DEF ToSet
      <4>3. ended[i][1] = v
        BY <4>1 DEF Now
      <4>4. QED
        BY <1>13, <4>1, <4>2, <4>3 DEF IEnds
    <3>5. CASE ~(i <= Len(ended))
      <4> DEFINE k == i - Len(ended)
                 l == j - Len(ended)
      <4>1. ~(j <= Len(ended)) /\ k < l
        BY <1>0, <3>1, <3>2, <3>5
      <4>2. k \in 1..n /\ l \in 1..n /\ Now(s[k]) = Now(s[l])
        BY <1>7, <3>1, <3>5, <4>1
      <4> HIDE DEF k, l
      <4>3. s[k] < s[l] /\ s[k] = s[l] /\ s[k] \in Int
        BY <1>3, <1>4, <4>1, <4>2 DEF Now
      <4>4. QED
        BY <4>3
    <3>6. QED
      BY <3>3, <3>4, <3>5
  <2>2. \A i, j \in 1..Len(ended') : i < j => ended'[i] # ended'[j]
    <3>1. SUFFICES ASSUME NEW i \in 1..Len(ended'),
                          NEW j \in 1..Len(ended'), i < j
                   PROVE  ended'[i] # ended'[j]
      OBVIOUS
    <3>2. m + i - 1 \in 1..Len(q) /\ m + j - 1 \in 1..Len(q)
      BY <1>10
    <3>3. m + i - 1 < m + j - 1
      BY <1>7, <1>8, <1>9, <3>1
    <3>4. QED
      BY <1>9, <2>1, <3>2, <3>3
  <2>3. DOMAIN ended' = 1..Len(ended')
    BY <1>9
  <2>4. SUFFICES ASSUME NEW i \in 1..Len(ended'), NEW j \in 1..Len(ended'),
                        i # j
                 PROVE  ended'[i] # ended'[j]
    BY <2>3 DEF IsInjective
  <2>5. i < j \/ j < i
    BY <1>9, <2>4
  <2>6. QED
    BY <2>2, <2>5
<1>14. QED
  BY <1>9, <1>12, <1>13

-----------------------------------------------------------------------------
(***************************************************************************)
(* Types and the steps of the calls.                                       *)
(***************************************************************************)

\* The allocator chooses a voice.
LEMMA ChoiceIsVoice == ASSUME NEW p, NEW v \in Choice(p) PROVE v \in Voices
  BY DEF Choice, First, Final, Lowest, Free, Weaker

\* Every call begins where interrupts are enabled.
LEMMA CallsAreUnlocked == ASSUME NEW c \in Calls PROVE Unlocked(c)
<1> DEFINE Claims     == {<<Step("claim", p)>> : p \in Plays}
           Retriggers == {<<Step("retrigger", h)>> : h \in Handles}
           Stops      == {<<Step("stop", h)>> : h \in Handles}
           Loops      ==
             {<<Step("reap", {}), Step("loop", [h |-> h, on |-> b])>> :
                 h \in Handles, b \in BOOLEAN}
           Quiets     == {<<Step("quiet", {})>>}
           Copies     == {<<Step("reap", {}), Step("copy", {})>>}
<1>1. \A h \in Handles : h \in HandleSet
  BY MixerAssumption DEF Handles, HandleSet
<1>2. \A h \in Handles, b \in BOOLEAN : [h |-> h, on |-> b] \in LoopArgs
  BY <1>1 DEF LoopArgs
<1>3. CASE c \in Loops
  <2>1. PICK h \in Handles, b \in BOOLEAN :
               c = <<Step("reap", {}), Step("loop", [h |-> h, on |-> b])>>
    BY <1>3
  <2>2. QED
    BY <1>2, <2>1 DEF Unlocked
<1>4. CASE c \in Retriggers
  BY <1>1, <1>4 DEF Unlocked
<1>5. CASE c \in Stops
  BY <1>1, <1>5 DEF Unlocked
<1>6. CASE c \in Claims
  BY <1>6 DEF Unlocked
<1>7. CASE c \in Quiets \cup Copies
  BY <1>7 DEF Unlocked
<1>8. Calls = Claims \cup Retriggers \cup Stops \cup Quiets \cup Loops
                \cup Copies
  BY DEF Calls
<1> HIDE DEF Claims, Retriggers, Stops, Quiets, Loops, Copies
<1>9. QED
  BY <1>3, <1>4, <1>5, <1>6, <1>7, <1>8

\* After a collection a call goes on with one step.
LEMMA CollectedShape ==
  ASSUME NEW next \in Collected PROVE Unlocked(<<next>>) \/ Locked(<<next>>)
<1>1. CASE next \in {Step("pick", p) : p \in Plays}
  BY <1>1 DEF Locked
<1>2. CASE next \in {Step("loop", a) : a \in LoopArgs}
  BY <1>2 DEF Unlocked
<1>3. CASE next = Step("copy", {})
  BY <1>3 DEF Unlocked
<1>4. QED
  BY <1>1, <1>2, <1>3 DEF Collected

\* A voice that is taken anew is programmed.
LEMMA RenewShape ==
  ASSUME MixerTypeOK, NEW v \in Voices, Renew(v) PROVE Locked(todo')
<1>1. <<v, gen[v] + 1>> \in HandleSet
  BY DEF MixerTypeOK, HandleSet
<1>2. todo' = Program(<<v, gen[v] + 1>>)
  BY DEF Renew
<1>3. QED
  BY <1>1, <1>2 DEF Locked

\* What is left of a call is always one of the sequences above, and an
\* interrupted call is left where interrupts are enabled.
LEMMA ShapeStep == ASSUME MixerTypeOK, ICalls, [Next]_vars PROVE ICalls'
<1> USE DEF ICalls
<1>1. CASE CallStep
  <2>1. saved' = saved /\ inIsr' = inIsr
    BY <1>1 DEF CallStep
  <2>2. Unlocked(todo') \/ Locked(todo')
    <3>1. ASSUME NEW next \in Collected, Collect(next)
          PROVE  Unlocked(todo') \/ Locked(todo')
      <4>1. CASE pending = {}
        BY <3>1, <4>1, CollectedShape DEF Collect, Clear
      <4>2. CASE pending # {}
        BY <3>1, <4>2 DEF Collect, Clear, Locked, MixerTypeOK
      <4>3. QED
        BY <4>1, <4>2
    <3>2. ASSUME NEW S \in SUBSET Voices, NEW next \in Collected,
                 Acknowledge(S, next)
          PROVE  Unlocked(todo') \/ Locked(todo')
      BY <3>2, CollectedShape DEF Acknowledge
    <3>3. CASE Pass
      <4>1. 0 \in Voices
        BY MixerAssumption DEF Voices
      <4>2. QED
        BY <3>3, <4>1 DEF Pass, Unlocked, Locked
    <3>4. ASSUME NEW p \in Plays, NEW v \in Choice(p), Take(v)
          PROVE  Locked(todo')
      BY <3>4, RenewShape, ChoiceIsVoice DEF Take
    <3>5. ASSUME NEW h \in HandleSet, Take(h[1])
          PROVE  Locked(todo')
      BY <3>5, RenewShape DEF Take, HandleSet
    <3>6. ASSUME NEW v \in Voices, Silence(v)
          PROVE  Locked(todo')
      <4>1. v = Top \/ v + 1 \in Voices
        BY MixerAssumption DEF Voices
      <4>2. QED
        BY <3>6, <4>1 DEF Silence, Hush, Locked
    <3>7. ASSUME Forgotten \/ Reported \/ (\E a \in LoopArgs : Relooped(a.h))
                 \/ \E h \in HandleSet : Release(h) \/ Start(h)
          PROVE  Unlocked(todo')
      BY <3>7 DEF Forgotten, Reported, Relooped, Release, Start, Forget, Copy,
                  Unlocked
    <3>8. ASSUME NEW h \in HandleSet, WriteData(h) \/ WriteState(h)
          PROVE  Locked(todo')
      BY <3>8 DEF WriteData, WriteState, Locked
    <3>9. QED
      BY <1>1, <3>1, <3>2, <3>3, <3>4, <3>5, <3>6, <3>7, <3>8, CallStepCases
  <2>3. QED
    BY <2>1, <2>2
<1>2. ASSUME NEW c \in MainCalls, Call(c) PROVE ICalls'
  <2>1. Unlocked(c)
    BY CallsAssumption, CallsAreUnlocked
  <2>2. QED
    BY <1>2, <2>1 DEF Call
<1>3. ASSUME NEW c \in TimerCalls, Interrupt(c) PROVE ICalls'
  <2>1. Unlocked(c)
    BY CallsAssumption, CallsAreUnlocked
  <2>2. Head(todo).op \in Open /\ todo' = c /\ saved' = todo /\ inIsr'
    BY <1>3 DEF Interrupt
  <2>3. ~Locked(todo)
    <3>1. SUFFICES ASSUME Locked(todo)
                   PROVE  Head(todo).op \in
                             {"clear", "pick", "data", "pos", "vol", "on",
                              "hush", "forget"}
      BY <2>2 DEF Open
    <3>2. QED
      BY <3>1 DEF Locked, Step, Program, AfterData, AfterPos, AfterVol
  <2>4. QED
    BY <2>1, <2>2, <2>3
<1>4. CASE Return
  BY <1>4 DEF Return, Unlocked
<1>5. CASE Drain \/ Begin \/ Look \/ Mix \/ Advance \/ VoiceEnd \/ Dropped
           \/ UNCHANGED vars
  BY <1>5 DEF Drain, Begin, Look, Mix, Advance, VoiceEnd, Dropped, vars,
              NotCalls, cpuVars
<1>6. QED
  BY <1>1, <1>2, <1>3, <1>4, <1>5 DEF Next

\* Every step keeps the types.
LEMMA TypeStep == ASSUME MixerTypeOK, ICalls, [Next]_vars PROVE MixerTypeOK'
<1> USE DEF MixerTypeOK
<1>1. CASE CallStep
  <2>1. /\ pos' = pos /\ vol' = vol /\ at' = at /\ cur' = cur
    BY <1>1, CallStepCases DEF Common
  <2>2. ASSUME NEW next \in Collected, Collect(next) PROVE MixerTypeOK'
    <3>1. ended' \in Seq(HandleSet)
      BY <2>2, ReapEnds DEF Collect
    <3>2. QED
      BY <2>1, <2>2, <3>1 DEF Collect, Reap, KeepBits
  <2>3. ASSUME NEW S \in SUBSET Voices, NEW next \in Collected,
               Acknowledge(S, next)
        PROVE  MixerTypeOK'
    BY <2>1, <2>3 DEF Acknowledge, KeepBits
  <2>4. CASE Pass
    BY <2>1, <2>4 DEF Pass, KeepBits
  <2>5. ASSUME NEW v \in Voices, Take(v) PROVE MixerTypeOK'
    BY <2>1, <2>5 DEF Take, Renew, Off
  <2>6. ASSUME NEW h \in HandleSet, Release(h) PROVE MixerTypeOK'
    BY <2>1, <2>6 DEF Release, Off
  <2>7. ASSUME NEW v \in Voices, Silence(v) PROVE MixerTypeOK'
    BY <2>1, <2>7 DEF Silence, Hush, Off
  <2>8. CASE Forgotten
    BY <2>1, <2>8 DEF Forgotten, Forget, Quietly
  <2>9. ASSUME NEW h \in HandleSet, Relooped(h) \/ Start(h) PROVE MixerTypeOK'
    BY <2>1, <2>9 DEF Relooped, Start, On, Arm, HandleSet
  <2>10. CASE Reported
    BY <2>1, <2>10 DEF Reported, Copy, Quietly
  <2>11. ASSUME NEW h \in HandleSet, WriteData(h) PROVE MixerTypeOK'
    BY <2>1, <2>11 DEF WriteData, KeepBits
  <2>12. ASSUME NEW h \in HandleSet, WriteState(h) PROVE MixerTypeOK'
    <3>1. ASSUME NEW f \in {"pos", "vol"}, Push(f, h) PROVE MixerTypeOK'
      <4>1. [field |-> f, of |-> h] \in [field : {"pos", "vol"}, of : HandleSet]
        OBVIOUS
      <4>2. queue' \in Seq([field : {"pos", "vol"}, of : HandleSet])
        BY <3>1, <4>1, AppendProperties DEF Push
      <4>3. QED
        BY <2>1, <2>12, <3>1, <4>2 DEF WriteState, Push
    <3>2. QED
      BY <2>12, <3>1 DEF WriteState
  <2>13. \A p, v : v \in Choice(p) => v \in Voices
    BY ChoiceIsVoice
  <2>14. \A h \in HandleSet : h[1] \in Voices
    BY DEF HandleSet
  <2>15. \A a \in LoopArgs : a.h \in HandleSet
    BY DEF LoopArgs
  <2>16. QED
    BY <1>1, <2>2, <2>3, <2>4, <2>5, <2>6, <2>7, <2>8, <2>9, <2>10, <2>11,
       <2>12, <2>13, <2>14, <2>15, CallStepCases
<1>2. ASSUME \/ \E c \in MainCalls : Call(c)
             \/ \E c \in TimerCalls : Interrupt(c)
             \/ Return \/ UNCHANGED vars
      PROVE  MixerTypeOK'
  BY <1>2 DEF Call, Interrupt, Return, vars, fwVars, tableVars, stateVars,
              bitVars, scanVars
<1>3. CASE Drain
  <2>1. /\ Head(queue) \in [field : {"pos", "vol"}, of : HandleSet]
        /\ queue' \in Seq([field : {"pos", "vol"}, of : HandleSet])
    BY <1>3, HeadTailProperties DEF Drain
  <2>2. pos' \in [Voices -> HandleSet] /\ vol' \in [Voices -> HandleSet]
    BY <1>3, <2>1 DEF Drain
  <2>3. QED
    BY <1>3, <2>1, <2>2 DEF Drain, Arm, NotCalls, fwVars, tableVars, scanVars
<1>4. 0 \in Voices /\ None \in HandleSet
  <2>1. 0 \in Voices
    BY MixerAssumption DEF Voices
  <2>2. QED
    BY <2>1 DEF HandleSet, None
<1>5. ASSUME NextVoice
      PROVE  /\ at' \in [voice : Voices,
                         stage : {"idle", "look", "fetch", "commit"}]
             /\ cur'.of \in HandleSet
  <2>1. at.voice = Top \/ at.voice + 1 \in Voices
    BY MixerAssumption DEF Voices
  <2>2. QED
    BY <1>4, <1>5, <2>1 DEF NextVoice, Idle, Nothing
<1>6. CASE Begin
  BY <1>4, <1>6 DEF Begin, NotCalls, fwVars, tableVars, bitVars, stateVars
<1>7. CASE Look \/ Mix \/ Dropped
  <2>1. CASE Look
    <3>1. CASE at.voice \in playing
      <4>1. cur'.of = pos[at.voice] /\ at' = [at EXCEPT !.stage = "fetch"]
        BY <2>1, <3>1 DEF Look, Ahead
      <4>2. QED
        BY <2>1, <4>1 DEF Look, NotCalls, fwVars, tableVars, stateVars
    <3>2. CASE at.voice \notin playing
      BY <1>5, <2>1, <3>2 DEF Look, NotCalls, fwVars, tableVars, stateVars
    <3>3. QED
      BY <3>1, <3>2
  <2>2. CASE Mix
    BY <1>5, <2>2 DEF Mix, Ahead, NotCalls, fwVars, tableVars, stateVars
  <2>3. CASE Dropped
    BY <1>5, <2>3 DEF Dropped, NotCalls, fwVars, tableVars, stateVars
  <2>4. QED
    BY <1>7, <2>1, <2>2, <2>3
<1>8. CASE VoiceEnd
  BY <1>5, <1>8 DEF VoiceEnd, NotCalls, fwVars, tableVars, stateVars
<1>9. CASE Advance
  BY <1>5, <1>9 DEF Advance, NotCalls, fwVars, tableVars
<1>10. QED
  BY <1>1, <1>2, <1>3, <1>6, <1>7, <1>8, <1>9 DEF Next

-----------------------------------------------------------------------------
(***************************************************************************)
(* The invariant is kept.                                                  *)
(***************************************************************************)

\* The voices and the notes of handles.
LEMMA Pairs ==
  /\ \A h \in HandleSet : h[1] \in Voices /\ h[2] \in Nat /\ h = <<h[1], h[2]>>
  /\ MixerTypeOK => \A v \in Voices : Now(v) \in HandleSet /\ Now(v)[1] = v
BY DEF HandleSet, Now, MixerTypeOK

\* When nothing is programmed, everybody who has a voice holds it.
LEMMA CalmFacts ==
  ASSUME NEW q, Calm(q)
  PROVE  /\ \A h : q \notin {Program(h), AfterData(h), AfterPos(h), AfterVol(h)}
         /\ \A v : q # <<Step("hush", v)>>
         /\ q # <<Step("forget", {})>>
BY DEF Calm, Step, Program, AfterData, AfterPos, AfterVol

\* Between the steps of a program and of of_mixer_stop_all, a voice that is
\* taken is held.
LEMMA CalmHolds == Calm(todo) => Held = taken
BY CalmFacts DEF Held, Hushed

\* Nothing is being programmed where interrupts are enabled, or while end bits
\* are cleared.
LEMMA CalmShapes ==
  /\ Calm(<<>>)
  /\ \A next \in Collected :
        Calm(<<next>>) /\ \A S : Calm(<<Step("clear", S), next>>)
  /\ \A q : Unlocked(q) => Calm(q)
<1>1. \A next \in Collected : next.op \in {"pick", "loop", "copy"}
  BY DEF Collected, Step
<1>2. \A q : Unlocked(q) => Calm(q)
  BY DEF Unlocked, Calm, Step
<1>3. QED
  BY <1>1, <1>2 DEF Calm, Step

VInv == IWritten /\ IPlaying /\ IProgram /\ IScan /\ IEnds /\ IPending

\* Notes that have ended are recorded and their voices become free.
LEMMA CollectStep ==
  ASSUME IInv, Common, Head(todo).op # "copy",
         NEW next \in Collected, Collect(next)
  PROVE  VInv'
<1> USE DEF IInv, VInv
<1>1. Calm(todo') /\ Held = taken /\ Held' = taken'
  <2>1. Calm(todo')
    BY CalmShapes DEF Collect, Clear
  <2>2. Held' = taken'
    BY <2>1, CalmFacts DEF Held, Hushed
  <2>3. QED
    BY <2>1, <2>2, CalmHolds DEF Collect
<1>2. /\ taken' = taken \ pending /\ gen' = gen
      /\ UNCHANGED <<queue, playing, starting, cancelled, data, pending,
                     saved, inIsr, pos, vol, at, cur>>
  BY DEF Collect, Reap, KeepBits, Common
<1>3. IWritten'
  BY <1>1, <1>2 DEF IWritten, Now, PosDue, VolDue
<1>4. IPlaying' /\ IScan'
  BY <1>2 DEF IPlaying, IScan, Now
<1>5. IProgram'
  BY <1>1, CalmFacts DEF IProgram
<1>6. IEnds'
  <2>1. /\ ToSet(ended') \subseteq
              ToSet(ended) \cup {Now(v) : v \in pending \cap taken}
        /\ IsInjective(ended')
    BY ReapEnds DEF Collect
  <2>2. finished' = finished \cap (ToSet(ended') \cup Latest)
    BY DEF Common
  <2>3. ToSet(ended') \subseteq finished'
    BY <1>1, <2>1, <2>2 DEF IEnds, EndsAreReal, IPending
  <2>4. \A v \in pending \cap taken :
            Now(v)[1] = v /\ Now(v)[2] = gen[v] /\ gen[v] \in Nat
    BY DEF Now, MixerTypeOK
  <2>5. \A e \in ToSet(ended') :
            e[2] <= gen'[e[1]] /\ (e = Now(e[1])' => e[1] \notin taken')
    BY <1>2, <2>1, <2>4 DEF IEnds, Now
  <2>6. QED
    BY <2>1, <2>3, <2>5 DEF IEnds, EndsAreReal
<1>7. IPending'
  BY <1>1, <1>2 DEF IPending, Now, Common
<1>8. QED
  BY <1>3, <1>4, <1>5, <1>6, <1>7

\* Once the queue is empty the registers hold what was due.
LEMMA DrainedPlays == ASSUME IWritten', queue' = <<>> PROVE IPlaying'
<1>1. \A v \in playing' : Due(<<>>, pos'[Now(v)'[1]], "pos", Now(v)')
                       /\ Due(<<>>, vol'[Now(v)'[1]], "vol", Now(v)')
  BY DEF IWritten, PosDue, VolDue
<1>2. \A v \in playing' :
         pos'[Now(v)'[1]] = Now(v)' /\ vol'[Now(v)'[1]] = Now(v)'
  BY <1>1, DueEmpty
<1>3. \A v : Now(v)'[1] = v
  BY DEF Now
<1>4. QED
  BY <1>2, <1>3 DEF IPlaying

\* An end bit is cleared, or nothing happens.
LEMMA PassStep ==
  ASSUME IInv, Common, Head(todo).op # "copy",
         \/ Pass
         \/ \E S \in SUBSET Voices, next \in Collected : Acknowledge(S, next)
  PROVE  VInv'
<1> USE DEF IInv, VInv
<1>1. /\ pending' \subseteq pending
      /\ UNCHANGED <<queue, playing, starting, cancelled, data, taken, gen,
                     ended, saved, inIsr, pos, vol, at, cur>>
  BY DEF Pass, Acknowledge, KeepBits, Common
<1>2. Calm(todo) /\ (Calm(todo') \/ todo' = <<Step("hush", 0)>>)
  BY CalmShapes DEF Pass, Acknowledge
<1>3. /\ \A h : todo' \notin
                   {Program(h), AfterData(h), AfterPos(h), AfterVol(h)}
      /\ Hushed' = {}
  <2>1. CASE Calm(todo')
    BY <2>1, CalmFacts DEF Hushed
  <2>2. CASE todo' = <<Step("hush", 0)>>
    <3>1. \A v : <<Step("hush", 0)>> = <<Step("hush", v)>> => v = 0
      BY DEF Step
    <3>2. \A w \in Voices : ~(w < 0)
      BY MixerAssumption DEF Voices
    <3>3. Hushed' = {}
      BY <2>2, <3>1, <3>2 DEF Hushed, Step
    <3>4. QED
      BY <2>2, <3>3 DEF Program, AfterData, AfterPos, AfterVol, Step
  <2>3. QED
    BY <1>2, <2>1, <2>2
<1>4. Held = taken /\ Held' = taken
  BY <1>1, <1>2, <1>3, CalmHolds DEF Held
<1>5. IWritten' /\ IPlaying' /\ IScan'
  BY <1>1, <1>4 DEF IWritten, IPlaying, IScan, Now, PosDue, VolDue
<1>6. IProgram'
  BY <1>3 DEF IProgram
<1>7. IEnds'
  BY <1>1 DEF IEnds, EndsAreReal, Common, Now
<1>8. IPending'
  BY <1>1, <1>4 DEF IPending, Now, Common, Latest, MixerTypeOK
<1>9. QED
  BY <1>5, <1>6, <1>7, <1>8

\* A voice is taken anew: whatever it played is somebody's no longer.
LEMMA TakeStep ==
  ASSUME IInv, Common, Head(todo).op # "copy", NEW v \in Voices, Take(v)
  PROVE  VInv'
<1> USE DEF IInv, VInv
<1> DEFINE h == <<v, gen[v] + 1>>
<1>1. /\ todo' = Program(h) /\ Calm(todo)
      /\ taken' = taken \ {v} /\ playing' = playing \ {v}
      /\ starting' = starting \ {v}
      /\ gen' = [gen EXCEPT ![v] = @ + 1] /\ Cancel(v)
      /\ UNCHANGED <<queue, data, pending, ended, pos, vol, at, cur>>
  BY DEF Take, Renew, Off, Common
<1>2. Held = taken
  BY <1>1, CalmHolds
<1>3. Held' = taken'
  <2>1. Hushed' = {}
    BY <1>1 DEF Hushed, Program, Step
  <2>2. QED
    BY <2>1 DEF Held
<1>4. /\ \A w \in Voices \ {v} : Now(w)' = Now(w)
      /\ Now(v)' = h /\ h \in HandleSet /\ gen[v] \in Nat
  BY <1>1 DEF Now, MixerTypeOK, HandleSet
<1>5. taken' \cup playing' \cup starting' \subseteq Voices \ {v}
  BY <1>1 DEF MixerTypeOK
<1>6. IWritten' /\ IPlaying'
  BY <1>1, <1>2, <1>3, <1>4, <1>5 DEF IWritten, IPlaying, PosDue, VolDue
<1>7. h \notin ToSet(ended)
  BY <1>4 DEF IEnds, MixerTypeOK
<1>8. IProgram'
  <2>1. \A g : Program(h) = Program(g) => g = h
    BY DEF Program, Step
  <2>2. \A g : Program(h) \notin {AfterData(g), AfterPos(g), AfterVol(g)}
    BY DEF Program, AfterData, AfterPos, AfterVol, Step
  <2>3. h[1] = v
    OBVIOUS
  <2>4. QED
    BY <1>1, <1>4, <1>5, <1>7, <2>1, <2>2, <2>3 DEF IProgram
<1>9. IScan'
  BY <1>1, <1>4 DEF IScan, Cancel, MixerTypeOK
<1>10. IEnds'
  <2>1. \A e \in ToSet(ended) : e[1] \in Voices /\ e[2] \in Nat
    BY DEF MixerTypeOK, ToSet, HandleSet
  <2>2. ASSUME NEW e \in ToSet(ended)
        PROVE  e[2] <= gen'[e[1]] /\ (e = Now(e[1])' => e[1] \notin taken')
    BY <1>1, <1>4, <1>7, <2>1, <2>2 DEF IEnds, MixerTypeOK
  <2>3. QED
    BY <1>1, <2>2 DEF IEnds, EndsAreReal, Common
<1>11. IPending'
  BY <1>1, <1>2, <1>3, <1>4, <1>5 DEF IPending, Common, Latest, Now
<1>12. QED
  BY <1>6, <1>8, <1>9, <1>10, <1>11

\* A voice is given back.
LEMMA ReleaseStep ==
  ASSUME IInv, Common, Head(todo).op # "copy", NEW h \in HandleSet, Release(h)
  PROVE  VInv'
<1> USE DEF IInv, VInv
<1> DEFINE v == h[1]
<1>1. /\ todo' = <<>> /\ Calm(todo)
      /\ taken' = taken \ {v} /\ playing' = playing \ {v}
      /\ starting' = starting \ {v} /\ Cancel(v)
      /\ UNCHANGED <<gen, queue, data, pending, ended, pos, vol, at, cur>>
  BY DEF Release, Off, Common
<1>2. Held = taken /\ Held' = taken'
  BY <1>1, CalmHolds, CalmShapes, CalmFacts DEF Held, Hushed
<1>3. IWritten' /\ IPlaying'
  BY <1>1, <1>2 DEF IWritten, IPlaying, PosDue, VolDue, Now
<1>4. IProgram'
  BY <1>1, CalmShapes, CalmFacts DEF IProgram
<1>5. IScan'
  BY <1>1 DEF IScan, Cancel, Now
<1>6. IEnds'
  BY <1>1 DEF IEnds, EndsAreReal, Common, Now
<1>7. IPending'
  BY <1>1, <1>2 DEF IPending, Common, Latest, Now, MixerTypeOK
<1>8. QED
  BY <1>3, <1>4, <1>5, <1>6, <1>7

\* of_mixer_stop_all silences a voice and makes its handle invalid.
LEMMA SilenceStep ==
  ASSUME IInv, Common, Head(todo).op # "copy", NEW v \in Voices, Silence(v)
  PROVE  VInv'
<1> USE DEF IInv, VInv
<1>1. /\ todo = <<Step("hush", v)>>
      /\ todo' = IF v = Top THEN <<Step("forget", {})>>
                 ELSE <<Step("hush", v + 1)>>
      /\ playing' = playing \ {v} /\ starting' = starting \ {v} /\ Cancel(v)
      /\ gen' = [gen EXCEPT ![v] = IF v \in taken THEN @ + 1 ELSE @]
      /\ UNCHANGED <<taken, queue, data, pending, ended, pos, vol, at, cur>>
  BY DEF Silence, Hush, Off, Common
<1>2. Held' = Held \ {v} /\ v \notin Held'
  <2>1. \A w \in Voices : w \in Hushed <=> w < v
    BY <1>1 DEF Hushed, Step
  <2>2. \A w \in Voices : w \in Hushed' <=> w < v \/ w = v
    <3>1. CASE v = Top
      BY <1>1, <3>1, MixerAssumption DEF Hushed, Voices
    <3>2. CASE v # Top
      <4>1. /\ v + 1 \in Voices
            /\ \A w \in Voices : w < v + 1 <=> w < v \/ w = v
        BY <3>2, MixerAssumption DEF Voices
      <4>2. QED
        BY <1>1, <3>2, <4>1 DEF Hushed, Step
    <3>3. QED
      BY <3>1, <3>2
  <2>3. QED
    BY <1>1, <2>1, <2>2 DEF Held, MixerTypeOK
<1>3. \A w \in Voices \ {v} : Now(w)' = Now(w)
  BY <1>1 DEF Now, MixerTypeOK
<1>4. Held' \cup playing' \cup starting' \subseteq Voices \ {v}
  BY <1>1, <1>2 DEF MixerTypeOK, Held
<1>5. IWritten' /\ IPlaying'
  BY <1>1, <1>2, <1>3, <1>4 DEF IWritten, IPlaying, PosDue, VolDue
<1>6. IProgram'
  BY <1>1 DEF IProgram, Program, AfterData, AfterPos, AfterVol, Step
<1>7. IScan'
  BY <1>1, <1>3 DEF IScan, Cancel, MixerTypeOK
<1>8. IEnds'
  <2>1. \A e \in ToSet(ended) :
           e[1] \in Voices /\ e[2] \in Nat /\ e = <<e[1], e[2]>>
    BY DEF MixerTypeOK, ToSet, HandleSet
  <2>2. ASSUME NEW e \in ToSet(ended)
        PROVE  e[2] <= gen'[e[1]] /\ (e = Now(e[1])' => e[1] \notin taken')
    <3>1. CASE e[1] = v /\ v \in taken
      <4>1. gen'[v] = gen[v] + 1 /\ gen[v] \in Nat /\ e[2] <= gen[v]
        BY <1>1, <2>2, <3>1 DEF IEnds, MixerTypeOK
      <4>2. e # Now(v)'
        BY <2>1, <4>1 DEF Now
      <4>3. QED
        BY <2>1, <3>1, <4>1, <4>2
    <3>2. CASE e[1] # v \/ v \notin taken
      <4>1. gen'[e[1]] = gen[e[1]]
        BY <1>1, <2>1, <3>2 DEF MixerTypeOK
      <4>2. QED
        BY <1>1, <4>1 DEF IEnds, Now
    <3>3. QED
      BY <3>1, <3>2
  <2>3. QED
    BY <1>1, <2>2 DEF IEnds, EndsAreReal, Common
<1>9. IPending'
  BY <1>1, <1>2, <1>3, <1>4 DEF IPending, Common, Latest, Now
<1>10. QED
  BY <1>5, <1>6, <1>7, <1>8, <1>9

\* of_mixer_stop_all ends: no voice is taken.
LEMMA ForgetStep ==
  ASSUME IInv, Common, Head(todo).op # "copy", Forgotten PROVE VInv'
<1> USE DEF IInv, VInv
<1>1. /\ taken' = {} /\ ended' = <<>> /\ todo' = <<>>
      /\ UNCHANGED <<gen, queue, playing, starting, cancelled, data, pending,
                     pos, vol, at, cur>>
  BY DEF Forgotten, Forget, Quietly, Common
<1>2. Held' = {}
  BY <1>1 DEF Held
<1>3. IWritten' /\ IPlaying' /\ IScan' /\ IPending'
  BY <1>1, <1>2 DEF IWritten, IPlaying, IScan, IPending, PosDue, VolDue, Now
<1>4. IProgram'
  BY <1>1, CalmShapes, CalmFacts DEF IProgram
<1>5. IEnds'
  BY <1>1 DEF IEnds, EndsAreReal, ToSet, IsInjective
<1>6. QED
  BY <1>3, <1>4, <1>5

\* The first handle of the queue is reported.
LEMMA ReportStep ==
  ASSUME IInv, Common, Reported PROVE VInv'
<1> USE DEF IInv, VInv
<1>1. /\ todo' = <<>> /\ ended' = IF ended = <<>> THEN <<>> ELSE Tail(ended)
      /\ finished' = (finished \ Oldest) \cap (ToSet(ended') \cup Latest)
      /\ UNCHANGED <<gen, taken, queue, playing, starting, cancelled, data,
                     pending, pos, vol, at, cur>>
  BY DEF Reported, Copy, Quietly, Common, Step
<1>2. Held = taken /\ Held' = taken
  <2>1. Calm(todo) /\ Calm(todo')
    BY <1>1, CalmShapes DEF Reported, Calm, Step
  <2>2. QED
    BY <1>1, <2>1, CalmHolds, CalmFacts DEF Held, Hushed
<1>3. IWritten' /\ IPlaying' /\ IScan'
  BY <1>1, <1>2 DEF IWritten, IPlaying, IScan, PosDue, VolDue, Now
<1>4. IProgram'
  BY <1>1, CalmShapes, CalmFacts DEF IProgram
<1>5. ToSet(ended') \subseteq ToSet(ended) \ Oldest /\ IsInjective(ended')
  <2>1. CASE ended = <<>>
    BY <1>1, <2>1 DEF ToSet, IsInjective
  <2>2. CASE ended # <<>>
    <3>1. /\ DOMAIN ended = 1..Len(ended) /\ Len(ended) \in Nat \ {0}
          /\ Len(ended') = Len(ended) - 1 /\ DOMAIN ended' = 1..Len(ended')
          /\ \A i \in 1..Len(ended') : ended'[i] = ended[i + 1]
          /\ Head(ended) = ended[1]
      BY <1>1, <2>2, HeadTailProperties DEF MixerTypeOK
    <3>2. \A i \in DOMAIN ended' :
             i + 1 \in DOMAIN ended /\ i + 1 # 1 /\ i \in Nat
      BY <3>1
    <3>3. \A i, j \in DOMAIN ended : ended[i] = ended[j] => i = j
      BY DEF IEnds, EndsAreReal, IsInjective
    <3>4. \A i, j \in DOMAIN ended' : ended'[i] = ended'[j] => i = j
      BY <3>1, <3>2, <3>3
    <3>5. 1 \in DOMAIN ended /\ Oldest = {ended[1]}
      BY <2>2, <3>1 DEF Oldest
    <3>6. \A i \in DOMAIN ended' : ended'[i] \in ToSet(ended) \ Oldest
      BY <3>1, <3>2, <3>3, <3>5 DEF ToSet
    <3>7. QED
      BY <3>4, <3>6 DEF ToSet, IsInjective
  <2>3. QED
    BY <2>1, <2>2
<1>6. IEnds'
  BY <1>1, <1>5 DEF IEnds, EndsAreReal, Now
<1>7. IPending'
  <2>1. \A v \in taken : Now(v) \notin Oldest
    <3>1. Oldest \subseteq ToSet(ended)
      BY DEF Oldest, ToSet, MixerTypeOK
    <3>2. \A v : Now(v)[1] = v
      BY DEF Now
    <3>3. QED
      BY <3>1, <3>2 DEF IEnds
  <2>2. QED
    BY <1>1, <1>2, <2>1 DEF IPending, Latest, Now, MixerTypeOK
<1>8. QED
  BY <1>3, <1>4, <1>6, <1>7

\* A voice is armed that is taken, or that has just been programmed.
LEMMA OnStep ==
  ASSUME IInv, Common, Head(todo).op # "copy", NEW h \in HandleSet,
         Relooped(h) \/ Start(h)
  PROVE  VInv'
<1> USE DEF IInv, VInv
<1> DEFINE v == h[1]
<1>1. /\ todo' = <<>> /\ taken' = taken \cup {v}
      /\ playing' = IF queue = <<>> THEN playing \cup starting \cup {v}
                    ELSE playing
      /\ starting' = IF queue = <<>> THEN {} ELSE starting \cup {v}
      /\ UNCHANGED <<gen, queue, cancelled, data, pending, ended, pos, vol, at,
                     cur>>
  BY DEF Relooped, Start, Valid, On, Arm, Drained, Common
<1>2. v \in Voices /\ h = Now(v)
  <2>1. CASE Relooped(h)
    BY <2>1, Pairs DEF Relooped, Valid, Now
  <2>2. CASE Start(h)
    BY <2>2, Pairs DEF Start, IProgram
  <2>3. QED
    BY <2>1, <2>2
<1>3. data[v] = h /\ PosDue(h) /\ VolDue(h) /\ h \notin ToSet(ended)
      /\ (v \in pending => h \in finished)
  <2>1. CASE Relooped(h)
    <3>1. Held = taken /\ v \in taken
      BY <2>1, CalmHolds DEF Relooped, Valid
    <3>2. QED
      BY <1>2, <3>1, Pairs DEF IWritten, IEnds, IPending
  <2>2. CASE Start(h)
    BY <2>2 DEF Start, IProgram
  <2>3. QED
    BY <2>1, <2>2
<1>4. Held \subseteq taken /\ taken \subseteq Held /\ Held' = taken'
  <2>1. Held = taken
    <3>1. CASE Relooped(h)
      BY <3>1, CalmHolds DEF Relooped
    <3>2. CASE Start(h)
      BY <3>2 DEF Start, AfterVol, Held, Hushed, Step
    <3>3. QED
      BY <3>1, <3>2
  <2>2. Held' = taken'
    BY <1>1, CalmShapes, CalmFacts DEF Held, Hushed
  <2>3. QED
    BY <2>1, <2>2
<1>5. playing' \cup starting' = playing \cup starting \cup {v}
  BY <1>1
<1>6. IWritten'
  BY <1>1, <1>2, <1>3, <1>4, <1>5 DEF IWritten, PosDue, VolDue, Now
<1>7. IPlaying'
  <2>1. CASE queue = <<>>
    BY <1>1, <1>6, <2>1, DrainedPlays
  <2>2. CASE queue # <<>>
    BY <1>1, <2>2 DEF IPlaying, Now
  <2>3. QED
    BY <2>1, <2>2
<1>8. IProgram'
  BY <1>1, CalmShapes, CalmFacts DEF IProgram
<1>9. IScan'
  BY <1>1 DEF IScan, Now
<1>10. IEnds'
  BY <1>1, <1>2, <1>3 DEF IEnds, EndsAreReal, Common, Now
<1>11. IPending'
  BY <1>1, <1>2, <1>3, <1>4 DEF IPending, Common, Latest, Now, MixerTypeOK
<1>12. QED
  BY <1>6, <1>7, <1>8, <1>9, <1>10, <1>11

\* Nobody holds a voice that is being programmed.
LEMMA ProgrammedFacts ==
  ASSUME IInv, NEW h \in HandleSet,
         todo \in {Program(h), AfterData(h), AfterPos(h), AfterVol(h)}
  PROVE  /\ Held = taken /\ h = Now(h[1])
         /\ h[1] \notin taken \cup playing \cup starting
         /\ \A g \in HandleSet :
               todo \in {Program(g), AfterData(g), AfterPos(g), AfterVol(g)}
                  => g = h
<1>1. Held = taken
  BY DEF Held, Hushed, Program, AfterData, AfterPos, AfterVol, Step
<1>2. QED
  BY <1>1 DEF IInv, IProgram, Program, AfterData, AfterPos, AfterVol, Step

\* The voice table is written.
LEMMA DataStep ==
  ASSUME IInv, Common, Head(todo).op # "copy", NEW h \in HandleSet, WriteData(h)
  PROVE  VInv'
<1> USE DEF IInv, VInv
<1>1. /\ todo = Program(h) /\ todo' = AfterData(h)
      /\ data' = [data EXCEPT ![h[1]] = h] /\ pending' = pending \ {h[1]}
      /\ UNCHANGED <<queue, playing, starting, cancelled, taken, gen, ended,
                     pos, vol, at, cur>>
  BY DEF WriteData, KeepBits, Common
<1>2. /\ Held = taken /\ h = Now(h[1])
      /\ h[1] \notin taken \cup playing \cup starting /\ h[1] \in Voices
  BY <1>1, ProgrammedFacts, Pairs
<1>3. Held' = taken
  BY <1>1 DEF Held, Hushed, AfterData, Step
<1>4. IWritten' /\ IPlaying' /\ IScan'
  BY <1>1, <1>2, <1>3
  DEF IWritten, IPlaying, IScan, PosDue, VolDue, Now, MixerTypeOK
<1>5. IProgram'
  <2>1. \A g : AfterData(h) \in {Program(g), AfterData(g)} => g = h
    BY DEF Program, AfterData, Step
  <2>2. \A g : AfterData(h) \notin {AfterPos(g), AfterVol(g)}
    BY DEF AfterData, AfterPos, AfterVol, Step
  <2>3. h \notin ToSet(ended)
    BY <1>1 DEF IProgram
  <2>4. data'[h[1]] = h
    BY <1>1, <1>2 DEF MixerTypeOK
  <2>5. QED
    BY <1>1, <1>2, <2>1, <2>2, <2>3, <2>4 DEF IProgram, Now
<1>6. IEnds'
  BY <1>1 DEF IEnds, EndsAreReal, Common, Now
<1>7. IPending'
  BY <1>1, <1>2, <1>3 DEF IPending, Common, Latest, Now, MixerTypeOK
<1>8. QED
  BY <1>4, <1>5, <1>6, <1>7

\* The current position or volume is queued.
LEMMA StateStep ==
  ASSUME IInv, Common, Head(todo).op # "copy", NEW h \in HandleSet,
         WriteState(h)
  PROVE  VInv'
<1> USE DEF IInv, VInv
<1>1. PICK f \in {"pos", "vol"} :
         /\ todo = IF f = "pos" THEN AfterData(h) ELSE AfterPos(h)
         /\ todo' = IF f = "pos" THEN AfterPos(h) ELSE AfterVol(h)
         /\ Push(f, h)
  BY DEF WriteState
<1> DEFINE v == h[1]
           e == [field |-> f, of |-> h]
<1>2. /\ queue' = Append(queue, e) /\ playing' = playing \ {v} /\ Cancel(v)
      /\ UNCHANGED <<data, starting, pending, taken, gen, ended, pos, vol, at,
                     cur>>
  BY <1>1 DEF WriteState, Push, Common
<1>3. /\ Held = taken /\ h = Now(v)
      /\ v \notin taken \cup playing \cup starting /\ v \in Voices
  BY <1>1, ProgrammedFacts, Pairs
<1>4. Held' = taken
  BY <1>1, <1>2 DEF Held, Hushed, AfterPos, AfterVol, Step
<1>5. queue \in Seq(Entries) /\ e \in Entries
  BY DEF MixerTypeOK, Entries
<1>6. /\ Len(queue') = Len(queue) + 1 /\ Len(queue) \in Nat
      /\ \A i \in 1..Len(queue') :
            (i \in 1..Len(queue) /\ queue'[i] = queue[i]) \/ queue'[i] = e
  BY <1>2, <1>5, AppendProperties
<1>7. ASSUME NEW g \in HandleSet, NEW x, NEW d, Due(queue, x, d, g), g[1] # v
      PROVE  Due(queue', x, d, g)
  BY <1>2, <1>5, <1>7, DueSame
<1>8. IWritten'
  <2>1. \A w \in Held \cup playing \cup starting :
           Now(w) \in HandleSet /\ Now(w)[1] = w /\ Now(w)' = Now(w)
    BY <1>2, Pairs DEF MixerTypeOK, Held, Now
  <2>2. (Held \cup playing \cup starting)' \subseteq
           (Held \cup playing \cup starting) \ {v}
    BY <1>2, <1>3, <1>4
  <2>3. QED
    BY <1>2, <1>7, <2>1, <2>2 DEF IWritten, PosDue, VolDue
<1>9. IPlaying'
  BY <1>2, <1>3, <1>6 DEF IPlaying, Now
<1>10. IProgram'
  <2>1. data[v] = h /\ v \notin pending /\ h \notin ToSet(ended)
        /\ (f = "vol" => PosDue(h))
    BY <1>1 DEF IProgram
  <2>2. (PosDue(h))' /\ (f = "vol" => (VolDue(h))')
    <3>1. CASE f = "pos"
      BY <1>2, <1>5, <3>1, DuePushed DEF PosDue
    <3>2. CASE f = "vol"
      <4>1. (VolDue(h))'
        BY <1>2, <1>5, <3>2, DuePushed DEF VolDue
      <4>2. (PosDue(h))'
        BY <1>2, <1>5, <2>1, <3>2, DueSame DEF PosDue
      <4>3. QED
        BY <4>1, <4>2
    <3>3. QED
      BY <3>1, <3>2
  <2>3. \A g : todo' \in {Program(g), AfterData(g), AfterPos(g), AfterVol(g)}
                 => g = h /\ todo' \notin {Program(g), AfterData(g)}
                    /\ (f = "pos" => todo' # AfterVol(g))
    BY <1>1 DEF Program, AfterData, AfterPos, AfterVol, Step
  <2>4. QED
    BY <1>1, <1>2, <1>3, <2>1, <2>2, <2>3 DEF IProgram, Now
<1>11. IScan'
  BY <1>2 DEF IScan, Cancel, Now
<1>12. IEnds'
  BY <1>2 DEF IEnds, EndsAreReal, Common, Now
<1>13. IPending'
  BY <1>2, <1>3, <1>4 DEF IPending, Common, Latest, Now, MixerTypeOK
<1>14. QED
  BY <1>8, <1>9, <1>10, <1>11, <1>12, <1>13

\* Calls begin, are interrupted and resumed where nothing is being programmed.
LEMMA ControlStep ==
  ASSUME IInv,
         \/ \E c \in MainCalls : Call(c)
         \/ \E c \in TimerCalls : Interrupt(c)
         \/ Return
  PROVE  VInv'
<1> USE DEF IInv, VInv
<1>1. UNCHANGED <<fwVars, tableVars, stateVars, bitVars, scanVars, finished>>
  BY DEF Call, Interrupt, Return
<1>2. Calm(todo)
  BY CalmShapes DEF Call, Interrupt, Return, Open, Calm
<1>3. Calm(todo')
  <2>1. \A c \in MainCalls \cup TimerCalls : Unlocked(c)
    BY CallsAssumption, CallsAreUnlocked
  <2>2. Unlocked(saved)
    BY DEF ICalls
  <2>3. Unlocked(todo')
    BY <2>1, <2>2 DEF Call, Interrupt, Return
  <2>4. QED
    BY <2>3, CalmShapes
<1>4. Held = taken /\ Held' = taken
  BY <1>1, <1>2, <1>3, CalmHolds, CalmFacts DEF Held, Hushed, fwVars
<1>5. IWritten' /\ IPlaying' /\ IScan'
  BY <1>1, <1>4 DEF IWritten, IPlaying, IScan, PosDue, VolDue, Now, fwVars,
                    tableVars, stateVars, bitVars, scanVars
<1>6. IProgram'
  BY <1>3, CalmFacts DEF IProgram
<1>7. IEnds' /\ IPending'
  BY <1>1, <1>4 DEF IEnds, EndsAreReal, IPending, Now, fwVars, bitVars
<1>8. QED
  BY <1>5, <1>6, <1>7

\* What is due stays due while the queue is drained, and when it is empty the
\* armed voices start with it.
LEMMA DrainStep == ASSUME IInv, Drain PROVE VInv'
<1> USE DEF IInv, VInv
<1> DEFINE e == Head(queue)
<1>1. /\ queue # <<>> /\ queue' = Tail(queue) /\ at.stage = "idle"
      /\ pos' = IF e.field = "pos" THEN [pos EXCEPT ![e.of[1]] = e.of] ELSE pos
      /\ vol' = IF e.field = "vol" THEN [vol EXCEPT ![e.of[1]] = e.of] ELSE vol
      /\ playing' = IF queue' = <<>> THEN playing \cup starting ELSE playing
      /\ starting' = IF queue' = <<>> THEN {} ELSE starting
      /\ UNCHANGED <<taken, gen, ended, todo, data, pending, at, cur, cancelled,
                     finished>>
  BY DEF Drain, Arm, Drained, NotCalls, fwVars, cpuVars, tableVars, scanVars
<1>2. queue \in Seq(Entries) /\ e \in Entries
  BY <1>1, HeadTailProperties DEF MixerTypeOK, Entries
<1>3. /\ Len(queue') = Len(queue) - 1 /\ Len(queue) \in Nat \ {0}
      /\ e = queue[1]
      /\ \A i \in 1..Len(queue') :
            i + 1 \in 1..Len(queue) /\ queue'[i] = queue[i + 1]
  BY <1>1, <1>2, HeadTailProperties
<1>4. \A h \in HandleSet :
         (PosDue(h) => PosDue(h)') /\ (VolDue(h) => VolDue(h)')
  <2>1. SUFFICES ASSUME NEW h \in HandleSet
                 PROVE  (PosDue(h) => PosDue(h)') /\ (VolDue(h) => VolDue(h)')
    OBVIOUS
  <2>2. pos'[h[1]] = IF e.field = "pos" /\ e.of[1] = h[1] THEN e.of
                      ELSE pos[h[1]]
    BY <1>1, <1>2, Pairs DEF MixerTypeOK, Entries
  <2>3. vol'[h[1]] = IF e.field = "vol" /\ e.of[1] = h[1] THEN e.of
                      ELSE vol[h[1]]
    BY <1>1, <1>2, Pairs DEF MixerTypeOK, Entries
  <2>4. QED
    BY <1>1, <1>2, <2>2, <2>3, DueDrained DEF PosDue, VolDue
<1>5. Held' = Held /\ playing' \cup starting' = playing \cup starting
  BY <1>1 DEF Held, Hushed
<1>6. IWritten'
  <2>1. \A v \in Held \cup playing \cup starting :
           Now(v) \in HandleSet /\ Now(v)' = Now(v)
    BY <1>1, Pairs DEF MixerTypeOK, Held, Now
  <2>2. QED
    BY <1>1, <1>4, <1>5, <2>1 DEF IWritten
<1>7. IPlaying'
  <2>1. CASE queue' = <<>>
    BY <1>6, <2>1, DrainedPlays
  <2>2. CASE queue' # <<>>
    <3>1. 1 \in 1..Len(queue)
      BY <1>3
    <3>2. \A v \in playing : e.of[1] # v
      BY <1>3, <3>1 DEF IPlaying
    <3>3. \A v \in playing : pos'[v] = pos[v] /\ vol'[v] = vol[v]
      BY <1>1, <1>2, <3>2 DEF MixerTypeOK
    <3>4. QED
      BY <1>1, <1>3, <2>2, <3>3 DEF IPlaying, Now
  <2>3. QED
    BY <2>1, <2>2
<1>8. IProgram'
  BY <1>1, <1>4, <1>5 DEF IProgram, Now
<1>9. IScan' /\ IEnds' /\ IPending'
  BY <1>1, <1>5 DEF IScan, IEnds, EndsAreReal, IPending, Now
<1>10. QED
  BY <1>6, <1>7, <1>8, <1>9

\* The scan reads what a voice that plays holds.
LEMMA ScanStep == ASSUME IInv, Begin \/ Look \/ Mix \/ Dropped PROVE VInv'
<1> USE DEF IInv, VInv
<1>1. UNCHANGED <<taken, gen, ended, todo, data, pos, vol, queue, playing,
                  starting, pending, finished>>
  BY DEF Begin, Look, Mix, Dropped, NotCalls, fwVars, cpuVars, tableVars,
         stateVars, bitVars
<1>2. IWritten' /\ IPlaying' /\ IProgram' /\ IEnds' /\ IPending'
  BY <1>1 DEF IWritten, IPlaying, IProgram, IEnds, EndsAreReal, IPending, Now,
              Held, Hushed, PosDue, VolDue
<1>3. NextVoice => at'.stage \in {"idle", "look"}
  BY DEF NextVoice, Idle
<1>4. IScan'
  <2>1. CASE Begin
    BY <2>1 DEF Begin, IScan
  <2>2. CASE Look
    <3>1. CASE at.voice \in playing
      BY <1>1, <2>2, <3>1 DEF Look, Ahead, IScan, IPlaying, Now, MixerTypeOK
    <3>2. CASE at.voice \notin playing
      BY <1>3, <2>2, <3>2 DEF Look, IScan
    <3>3. QED
      BY <3>1, <3>2
  <2>3. CASE Mix
    BY <1>1, <1>3, <2>3 DEF Mix, Ahead, IScan, Now, MixerTypeOK
  <2>4. CASE Dropped
    BY <1>3, <2>4 DEF Dropped, IScan
  <2>5. QED
    BY <2>1, <2>2, <2>3, <2>4
<1>5. QED
  BY <1>2, <1>4

\* A sample moves the position on, of the note that it was of.
LEMMA AdvanceStep == ASSUME IInv, Advance PROVE VInv'
<1> USE DEF IInv, VInv
<1> DEFINE v == at.voice
<1>1. /\ pos' = [pos EXCEPT ![v] = cur.of] /\ at'.stage \in {"idle", "look"}
      /\ v \in playing /\ cur.of = Now(v)
      /\ UNCHANGED <<taken, gen, ended, todo, data, vol, queue, playing,
                     starting, pending, finished>>
  BY DEF Advance, NextVoice, Idle, NotCalls, fwVars, cpuVars, tableVars, IScan
<1>2. pos' = pos
  BY <1>1 DEF IPlaying, MixerTypeOK
<1>3. QED
  BY <1>1, <1>2 DEF IWritten, IPlaying, IProgram, IScan, IEnds, EndsAreReal,
                    IPending, Now, Held, Hushed, PosDue, VolDue

\* The end of a note is the end of the note that the voice played.
LEMMA VoiceEndStep == ASSUME IInv, VoiceEnd PROVE VInv'
<1> USE DEF IInv, VInv
<1> DEFINE v == at.voice
<1>1. /\ v \in playing /\ cur.of = Now(v) /\ at'.stage \in {"idle", "look"}
      /\ playing' = playing \ {v} /\ pending' = pending \cup {v}
      /\ finished' = finished \cup {Now(v)}
      /\ UNCHANGED <<taken, gen, ended, todo, data, pos, vol, queue, starting>>
  BY DEF VoiceEnd, NextVoice, Idle, NotCalls, fwVars, cpuVars, tableVars,
         stateVars, IScan
<1>2. Held' = Held
  BY <1>1 DEF Held, Hushed
<1>3. IWritten' /\ IPlaying' /\ IScan' /\ IEnds' /\ IPending'
  BY <1>1, <1>2 DEF IWritten, IPlaying, IScan, IEnds, EndsAreReal, IPending,
                    Now, PosDue, VolDue
<1>4. IProgram'
  BY <1>1 DEF IProgram, Now, PosDue, VolDue
<1>5. QED
  BY <1>3, <1>4

-----------------------------------------------------------------------------
\* After of_mixer_init the invariant holds.
LEMMA InvInit == Init => IInv
<1> SUFFICES ASSUME Init PROVE IInv
  OBVIOUS
<1>1. 0 \in Voices /\ None \in HandleSet
  BY MixerAssumption DEF Voices, HandleSet, None
<1>2. MixerTypeOK
  BY <1>1 DEF Init, MixerTypeOK, Idle, Nothing
<1>3. ICalls
  BY DEF Init, ICalls, Unlocked
<1>4. IWritten /\ IPlaying /\ IScan /\ IPending
  BY DEF Init, IWritten, IPlaying, IScan, IPending, Held, Idle
<1>5. IProgram
  BY CalmShapes, CalmFacts DEF Init, IProgram
<1>6. IEnds
  BY DEF Init, IEnds, EndsAreReal, ToSet, IsInjective
<1>7. QED
  BY <1>2, <1>3, <1>4, <1>5, <1>6 DEF IInv

\* Every step of the firmware and of the mixer keeps the invariant.
LEMMA InvStep == IInv /\ [Next]_vars => IInv'
<1> SUFFICES ASSUME IInv, [Next]_vars PROVE IInv'
  OBVIOUS
<1>1. MixerTypeOK' /\ ICalls'
  BY TypeStep, ShapeStep DEF IInv
<1>2. CASE CallStep
  <2>1. ICalls
    BY DEF IInv
  <2>2. \A p : \A v \in Choice(p) : v \in Voices
    BY ChoiceIsVoice
  <2>3. /\ \A h \in HandleSet : h[1] \in Voices
        /\ \A a \in LoopArgs : a.h \in HandleSet
    BY Pairs DEF LoopArgs
  <2>4. Common /\ (Reported \/ Head(todo).op # "copy")
    BY <1>2, <2>1, CallStepCases
  <2>5. VInv'
    BY <1>2, <2>1, <2>2, <2>3, <2>4, CallStepCases, CollectStep, PassStep,
       TakeStep, ReleaseStep, SilenceStep, ForgetStep, OnStep, ReportStep,
       DataStep, StateStep
  <2>6. QED
    BY <1>1, <2>5 DEF VInv, IInv
<1>3. CASE UNCHANGED vars
  BY <1>3, <1>1 DEF vars, fwVars, cpuVars, tableVars, stateVars, bitVars,
     scanVars, IInv, IWritten, IPlaying, IProgram, IScan, IEnds, EndsAreReal,
     IPending, Now, Held, Hushed, PosDue, VolDue
<1>4. CASE Next /\ ~CallStep
  BY <1>1, <1>4, ControlStep, DrainStep, ScanStep, AdvanceStep, VoiceEndStep
  DEF Next, VInv, IInv
<1>5. QED
  BY <1>2, <1>3, <1>4

\* The invariant, for every number of voices and whatever the calls.
THEOREM Invariance == Spec => []IInv
BY InvInit, InvStep, PTL DEF Spec

\* An end that of_mixer_poll_ended_h will report is that of a note that was
\* played to its end, and is there once.
THEOREM EndsAreRealHolds == Spec => []EndsAreReal
<1>1. IInv => EndsAreReal
  BY DEF IInv, IEnds
<1>2. QED
  BY <1>1, Invariance, PTL

\* Voices, handles and queue entries are what their registers can hold.
THEOREM TypesHold == Spec => []MixerTypeOK
<1>1. IInv => MixerTypeOK
  BY DEF IInv
<1>2. QED
  BY <1>1, Invariance, PTL

\* The sample that audio_mixer.v adds to the sum is of one note in all its
\* parts, the last that mixer.c programmed the voice for.
THEOREM SoundIsWholeHolds == Spec => SoundIsWhole
<1> DEFINE Whole ==
      at.stage = "fetch" /\ at'.stage = "commit" =>
          LET v == at.voice
              h == <<v, gen[v]>>
          IN  cur.of = h /\ data[v] = h /\ vol[v] = h
<1>1. ASSUME IInv, [Next]_vars PROVE [Whole]_vars
  <2>1. SUFFICES ASSUME at.stage = "fetch", at'.stage = "commit" PROVE Whole
    OBVIOUS
  <2>2. Mix /\ ~cancelled
    <3>1. at' # at
      BY <2>1
    <3>2. ~CallStep
      BY <3>1 DEF CallStep, scanVars
    <3>3. NextVoice => at'.stage # "commit"
      BY DEF NextVoice, Idle
    <3>4. QED
      BY <1>1, <2>1, <3>1, <3>2, <3>3
      DEF Next, Call, Interrupt, Return, Drain, Begin, Look, Mix, Advance,
          VoiceEnd, Dropped, scanVars, vars
  <2>3. at.voice \in playing /\ cur.of = Now(at.voice)
    BY <1>1, <2>1, <2>2 DEF IInv, IScan
  <2>4. QED
    BY <1>1, <2>3 DEF IInv, IWritten, IPlaying, Now
<1>2. QED
  BY <1>1, Invariance, PTL DEF Spec, SoundIsWhole

\* A voice is taken from a note that has not ended by its handle, by
\* of_mixer_stop_all or by a note of a higher priority only.
THEOREM OwnersDecideHolds == Spec => OwnersDecide
<1> DEFINE Loses(v) == gen'[v] # gen[v] \/ v \notin taken'
           Decided(v) ==
             LET s == Head(todo) IN
             \/ <<v, gen[v]>> \in finished
             \/ s.op = "pick" /\ s.arg.prio > prio[v]
             \/ s.op \in {"retrigger", "stop"} /\ s.arg = <<v, gen[v]>>
             \/ s.op \in {"hush", "forget"}
<1>1. ASSUME IInv, Next, NEW v \in taken, Loses(v) PROVE Decided(v)
  <2>1. v \in Voices /\ gen \in [Voices -> Nat]
    BY <1>1 DEF IInv, MixerTypeOK
  <2>2. CallStep
    BY <1>1 DEF Next, Call, Interrupt, Return, Drain, Begin, Look, Mix, Advance,
                VoiceEnd, Dropped, NotCalls, fwVars
  <2>3. ASSUME NEW next \in Collected, Collect(next) PROVE Decided(v)
    <3>1. v \in pending /\ Held = taken
      BY <1>1, <2>3, CalmHolds DEF Collect, Reap
    <3>2. QED
      BY <1>1, <3>1 DEF IInv, IPending, Now
  <2>4. ASSUME NEW p \in Plays, todo = <<Step("pick", p)>>,
               NEW w \in Choice(p), Take(w)
        PROVE  Decided(v)
    <3>1. v = w
      BY <1>1, <2>1, <2>4, ChoiceIsVoice DEF Take, Renew, Free
    <3>2. Free = {} /\ v \in Weaker(p)
      BY <1>1, <2>4, <3>1 DEF Choice, First, Final, Lowest, Free
    <3>3. prio[v] < p.prio
      BY <3>2 DEF Weaker
    <3>4. QED
      BY <2>4, <3>3 DEF Step
  <2>5. ASSUME NEW h \in HandleSet, todo = <<Step("retrigger", h)>>,
               Valid(h), Take(h[1])
        PROVE  Decided(v)
    <3>1. v = h[1]
      BY <1>1, <2>1, <2>5, Pairs DEF Take, Renew
    <3>2. QED
      BY <2>5, <3>1, Pairs DEF Valid, Step
  <2>6. ASSUME NEW h \in HandleSet, todo = <<Step("stop", h)>>, Release(h)
        PROVE  Decided(v)
    <3>1. v = h[1] /\ Valid(h)
      BY <1>1, <2>6 DEF Release
    <3>2. QED
      BY <2>6, <3>1, Pairs DEF Valid, Step
  <2>7. ASSUME NEW w \in Voices, Silence(w) PROVE Decided(v)
    BY <2>7 DEF Silence, Step
  <2>8. CASE Forgotten
    BY <2>8 DEF Forgotten, Step
  <2>9. ~Pass /\ ~Reported
    BY <1>1 DEF Pass, Reported, Copy
  <2>10. \A S, next : ~Acknowledge(S, next)
    BY <1>1 DEF Acknowledge
  <2>11. \A h : ~Relooped(h) /\ ~WriteData(h) /\ ~WriteState(h) /\ ~Start(h)
    BY <1>1 DEF Relooped, WriteData, WriteState, Start
  <2>12. ICalls
    BY <1>1 DEF IInv
  <2>13. QED
    BY <2>2, <2>3, <2>4, <2>5, <2>6, <2>7, <2>8, <2>9, <2>10, <2>11, <2>12,
       CallStepCases
<1>2. ASSUME IInv, [Next]_vars
      PROVE  [\A v \in taken : Loses(v) => Decided(v)]_vars
  BY <1>1, <1>2
<1>3. QED
  BY <1>2, Invariance, PTL DEF Spec, OwnersDecide

-----------------------------------------------------------------------------
(***************************************************************************)
(* Voices and sounds, when no note runs out while its loop is being set.   *)
(***************************************************************************)

\* A call that sets a loop collects the ends first.
LEMMA CallsDoNotLoop ==
  ASSUME NEW c \in Calls
  PROVE  /\ \A a : c # <<Step("loop", a)>>
         /\ \A S, next : c # <<Step("clear", S), next>>
<1>1. Head(c).op \in {"claim", "retrigger", "stop", "quiet", "reap"}
  BY DEF Calls, Step
<1>2. QED
  BY <1>1 DEF Step

\* A call that is not at a collection or a loop keeps what is known of both.
LEMMA LoopSafeKept ==
  ASSUME LoopSafe, saved' = saved,
         (pending \cap taken)' \subseteq pending \cap taken,
         \A a : todo' # <<Step("loop", a)>>,
         \A S, next : todo' # <<Step("clear", S), next>>
  PROVE  LoopSafe' /\ ClearSafe'
BY DEF LoopSafe, ClearSafe

\* Every step of a call keeps slots and sounds together.
LEMMA SlotsCallStep ==
  ASSUME IInv, Slots, ClearSafe, LoopSafe, CallStep, IInv'
  PROVE  Slots' /\ ClearSafe' /\ LoopSafe'
<1> USE DEF IInv, Slots
<1>1. Common /\ saved' = saved
  BY CallStepCases DEF Common
<1>2. ASSUME todo' = <<>>
      PROVE  /\ \A a : todo' # <<Step("loop", a)>>
             /\ \A S, next : todo' # <<Step("clear", S), next>>
             /\ Held' = taken'
  BY <1>2, CalmShapes, CalmFacts DEF Held, Hushed
<1>3. ASSUME NEW next \in Collected, Collect(next)
      PROVE  Slots' /\ ClearSafe' /\ LoopSafe'
  <2>1. Calm(todo') /\ Held = taken
    BY <1>3, CalmShapes, CalmHolds DEF Collect, Clear
  <2>2. Held' = taken'
    BY <2>1, CalmFacts DEF Held, Hushed
  <2>3. taken' = taken \ pending
        /\ UNCHANGED <<playing, starting, pending>>
    BY <1>3 DEF Collect, Reap, KeepBits
  <2>4. ClearSafe'
    BY <1>3, <2>3 DEF ClearSafe, Collect, Clear, Step
  <2>5. QED
    BY <2>1, <2>2, <2>3, <2>4 DEF LoopSafe
<1>4. ASSUME NEW S \in SUBSET Voices, NEW next \in Collected,
             Acknowledge(S, next)
      PROVE  Slots' /\ ClearSafe' /\ LoopSafe'
  <2>1. Calm(todo) /\ Calm(todo')
    BY <1>4, CalmShapes DEF Acknowledge
  <2>2. Held' = taken' /\ Held = taken
    BY <2>1, CalmFacts DEF Held, Hushed
  <2>3. pending' = pending \ S /\ UNCHANGED <<taken, playing, starting>>
    BY <1>4 DEF Acknowledge, KeepBits
  <2>4. S \cap taken = {}
    BY <1>4 DEF Acknowledge, ClearSafe
  <2>5. ClearSafe'
    BY <1>4 DEF ClearSafe, Acknowledge
  <2>6. LoopSafe'
    BY <1>1, <1>4, <2>3 DEF LoopSafe, Acknowledge
  <2>7. QED
    BY <2>2, <2>3, <2>4, <2>5, <2>6
<1>5. CASE Pass
  <2>1. /\ Calm(todo) /\ todo' \in {<<>>, <<Step("hush", 0)>>}
        /\ UNCHANGED <<pending, taken, playing, starting>>
    BY <1>5 DEF Pass, KeepBits
  <2>2. Held' = taken
    <3>1. \A w \in Voices : ~(w < 0)
      BY MixerAssumption DEF Voices
    <3>2. CASE todo' = <<Step("hush", 0)>>
      BY <2>1, <3>1, <3>2 DEF Held, Hushed, Step
    <3>3. QED
      BY <1>2, <2>1, <3>2
  <2>3. ClearSafe' /\ LoopSafe'
    BY <1>1, <2>1, LoopSafeKept DEF Step
  <2>4. QED
    BY <2>1, <2>2, <2>3, CalmHolds
<1>6. ASSUME NEW v \in Voices, Take(v)
      PROVE  Slots' /\ ClearSafe' /\ LoopSafe'
  <2>1. /\ Calm(todo) /\ todo' = Program(<<v, gen[v] + 1>>)
        /\ taken' = taken \ {v} /\ playing' = playing \ {v}
        /\ starting' = starting \ {v} /\ pending' = pending
    BY <1>6 DEF Take, Renew, Off
  <2>2. Held = taken /\ Held' = taken'
    BY <2>1, CalmHolds DEF Held, Hushed, Program, Step
  <2>3. ClearSafe' /\ LoopSafe'
    BY <1>1, <2>1, LoopSafeKept DEF Program, Step
  <2>4. QED
    BY <2>1, <2>2, <2>3
<1>7. ASSUME NEW h \in HandleSet, Release(h)
      PROVE  Slots' /\ ClearSafe' /\ LoopSafe'
  <2>1. /\ Calm(todo) /\ todo' = <<>>
        /\ taken' = taken \ {h[1]} /\ playing' = playing \ {h[1]}
        /\ starting' = starting \ {h[1]} /\ pending' = pending
    BY <1>7 DEF Release, Off
  <2>2. QED
    BY <1>1, <1>2, <2>1, CalmHolds, LoopSafeKept
<1>8. ASSUME NEW v \in Voices, Silence(v)
      PROVE  Slots' /\ ClearSafe' /\ LoopSafe'
  <2>1. /\ todo = <<Step("hush", v)>>
        /\ todo' = IF v = Top THEN <<Step("forget", {})>>
                   ELSE <<Step("hush", v + 1)>>
        /\ playing' = playing \ {v} /\ starting' = starting \ {v}
        /\ UNCHANGED <<taken, pending>>
    BY <1>8 DEF Silence, Hush, Off
  <2>2. Held' = Held \ {v}
    <3>1. \A w \in Voices : w \in Hushed <=> w < v
      BY <2>1 DEF Hushed, Step
    <3>2. \A w \in Voices : w \in Hushed' <=> w < v \/ w = v
      <4>1. CASE v = Top
        BY <2>1, <4>1, MixerAssumption DEF Hushed, Voices
      <4>2. CASE v # Top
        <5>1. /\ v + 1 \in Voices
              /\ \A w \in Voices : w < v + 1 <=> w < v \/ w = v
          BY <4>2, MixerAssumption DEF Voices
        <5>2. QED
          BY <2>1, <4>2, <5>1 DEF Hushed, Step
      <4>3. QED
        BY <4>1, <4>2
    <3>3. QED
      BY <2>1, <3>1, <3>2 DEF Held, MixerTypeOK
  <2>3. ClearSafe' /\ LoopSafe'
    BY <1>1, <2>1, LoopSafeKept DEF Step
  <2>4. QED
    BY <2>1, <2>2, <2>3
<1>9. CASE Forgotten
  <2>1. /\ todo = <<Step("forget", {})>> /\ todo' = <<>> /\ taken' = {}
        /\ UNCHANGED <<playing, starting, pending>>
    BY <1>9 DEF Forgotten, Forget, Quietly
  <2>2. Held = {}
    BY <2>1 DEF Held, Hushed, MixerTypeOK
  <2>3. QED
    BY <1>1, <1>2, <2>1, <2>2, LoopSafeKept
<1>10. ASSUME NEW a \in LoopArgs, todo = <<Step("loop", a)>>, Relooped(a.h)
       PROVE  Slots' /\ ClearSafe' /\ LoopSafe'
  <2> DEFINE v == a.h[1]
  <2>1. /\ Calm(todo) /\ todo' = <<>> /\ v \in taken
        /\ playing' \cup starting' = playing \cup starting \cup {v}
        /\ UNCHANGED <<taken, pending>>
    BY <1>10 DEF Relooped, On, Arm, Drained, Valid
  <2>2. v \notin pending
    BY <1>10, <2>1 DEF LoopSafe
  <2>3. QED
    BY <1>1, <1>2, <2>1, <2>2, CalmHolds, LoopSafeKept
<1>11. CASE Reported
  <2>1. /\ Calm(todo) /\ todo' = <<>>
        /\ UNCHANGED <<playing, starting, pending, taken>>
    BY <1>11 DEF Reported, Copy, Quietly, Calm, Step
  <2>2. QED
    BY <1>1, <1>2, <2>1, CalmHolds, LoopSafeKept
<1>12. ASSUME NEW h \in HandleSet, WriteData(h) \/ WriteState(h)
       PROVE  Slots' /\ ClearSafe' /\ LoopSafe'
  <2>1. /\ Held = taken /\ h[1] \notin taken \cup playing \cup starting
    BY <1>12, ProgrammedFacts DEF WriteData, WriteState
  <2>2. /\ todo' \in {AfterData(h), AfterPos(h), AfterVol(h)}
        /\ pending' = pending \/ pending' = pending \ {h[1]}
        /\ playing' = playing \/ playing' = playing \ {h[1]}
        /\ UNCHANGED <<starting, taken>>
    BY <1>12 DEF WriteData, WriteState, KeepBits, Push
  <2>3. Held' = taken
    BY <2>2 DEF Held, Hushed, AfterData, AfterPos, AfterVol, Step
  <2>4. /\ \A a : todo' # <<Step("loop", a)>>
        /\ \A S, next : todo' # <<Step("clear", S), next>>
    BY <2>2 DEF AfterData, AfterPos, AfterVol, Step
  <2>5. ClearSafe' /\ LoopSafe'
    BY <1>1, <2>2, <2>4, LoopSafeKept
  <2>6. QED
    BY <2>1, <2>2, <2>3, <2>5
<1>13. ASSUME NEW h \in HandleSet, Start(h)
       PROVE  Slots' /\ ClearSafe' /\ LoopSafe'
  <2>1. /\ Held = taken /\ h[1] \notin pending
    BY <1>13, ProgrammedFacts DEF Start, IProgram
  <2>2. /\ todo' = <<>> /\ taken' = taken \cup {h[1]} /\ pending' = pending
        /\ playing' \cup starting' = playing \cup starting \cup {h[1]}
    BY <1>13 DEF Start, On, Arm, Drained
  <2>3. QED
    BY <1>1, <1>2, <2>1, <2>2, LoopSafeKept
<1>14. \A p : \A v \in Choice(p) : v \in Voices
  BY ChoiceIsVoice
<1>15. \A h \in HandleSet : h[1] \in Voices
  BY Pairs
<1>16. QED
  BY <1>3, <1>4, <1>5, <1>6, <1>7, <1>8, <1>9, <1>10, <1>11, <1>12, <1>13,
     <1>14, <1>15, CallStepCases

\* So does every step, if no note runs out while its loop is being set.
LEMMA SlotsStep ==
  ASSUME ~LateLoops, IInv, Slots, ClearSafe, LoopSafe, [Next]_vars, IInv'
  PROVE  Slots' /\ ClearSafe' /\ LoopSafe'
<1> USE DEF IInv, Slots
<1>1. CASE CallStep
  BY <1>1, SlotsCallStep
<1>2. ASSUME \/ \E c \in MainCalls : Call(c)
             \/ \E c \in TimerCalls : Interrupt(c)
             \/ Return
      PROVE  Slots' /\ ClearSafe' /\ LoopSafe'
  <2>1. /\ Calm(todo) /\ Calm(todo')
        /\ UNCHANGED <<taken, pending, playing, starting>>
    <3>1. \A c \in MainCalls \cup TimerCalls : Unlocked(c)
      BY CallsAssumption, CallsAreUnlocked
    <3>2. Unlocked(todo')
      BY <1>2, <3>1 DEF Call, Interrupt, Return, ICalls
    <3>3. Calm(todo)
      BY <1>2, CalmShapes DEF Call, Interrupt, Return, Open, Calm
    <3>4. QED
      BY <1>2, <3>2, <3>3, CalmShapes
      DEF Call, Interrupt, Return, fwVars, bitVars
  <2>2. Slots'
    BY <2>1, CalmHolds, CalmFacts DEF Held, Hushed
  <2>3. \A c \in MainCalls \cup TimerCalls :
           /\ \A a : c # <<Step("loop", a)>>
           /\ \A S, next : c # <<Step("clear", S), next>>
    BY CallsAssumption, CallsDoNotLoop
  <2>4. \A S, next : saved # <<Step("clear", S), next>>
    BY DEF ICalls, Unlocked, Step
  <2>5. ClearSafe'
    BY <1>2, <2>3, <2>4 DEF ClearSafe, Call, Interrupt, Return
  <2>6. LoopSafe'
    BY <1>2, <2>1, <2>3, <2>4 DEF LoopSafe, Call, Interrupt, Return
  <2>7. QED
    BY <2>2, <2>5, <2>6
<1>3. CASE Drain
  BY <1>3 DEF Drain, Arm, Held, Hushed, ClearSafe, LoopSafe, NotCalls, fwVars,
              cpuVars
<1>4. CASE Begin \/ Look \/ Mix \/ Advance \/ Dropped \/ UNCHANGED vars
  BY <1>4 DEF Begin, Look, Mix, Advance, Dropped, Held, Hushed, ClearSafe,
              LoopSafe, NotCalls, fwVars, cpuVars, bitVars, vars
<1>5. CASE VoiceEnd
  <2> DEFINE v == at.voice
  <2>1. /\ v \in playing /\ v \notin starting
        /\ \A s \in ToSet(todo) \cup ToSet(saved) :
              s.op = "loop" => s.arg.h[1] # v
        /\ playing' = playing \ {v} /\ pending' = pending \cup {v}
        /\ UNCHANGED <<taken, starting, todo, saved>>
    BY <1>5 DEF VoiceEnd, InTime, IScan, NotCalls, fwVars, cpuVars
  <2>2. Slots' /\ ClearSafe'
    BY <2>1 DEF Held, Hushed, ClearSafe
  <2>3. ASSUME NEW a,
               \/ todo = <<Step("loop", a)>> \/ saved = <<Step("loop", a)>>
               \/ \E S : todo = <<Step("clear", S), Step("loop", a)>>
        PROVE  a.h[1] # v
    <3>1. Step("loop", a) \in ToSet(todo) \cup ToSet(saved)
      BY <2>3 DEF ToSet
    <3>2. QED
      BY <2>1, <3>1 DEF Step
  <2>4. QED
    BY <2>1, <2>2, <2>3 DEF LoopSafe
<1>6. QED
  BY <1>1, <1>2, <1>3, <1>4, <1>5 DEF Next

\* Between two calls a voice is taken exactly as long as it sounds or its end
\* waits to be collected, when setting a loop takes less time than is left of a
\* sample.
THEOREM SlotsMatchSoundHolds ==
  ASSUME ~LateLoops PROVE Spec => []SlotsMatchSound
<1> DEFINE J == IInv /\ ISlots
<1>1. Init => J
  BY InvInit DEF Init, ISlots, Slots, ClearSafe, LoopSafe, Held
<1>2. J /\ [Next]_vars => J'
  BY InvStep, SlotsStep DEF ISlots
<1>3. J => SlotsMatchSound
  <2>1. todo = <<>> => Held = taken
    BY CalmShapes, CalmHolds
  <2>2. QED
    BY <2>1 DEF ISlots, Slots, SlotsMatchSound
<1>4. QED
  BY <1>1, <1>2, <1>3, PTL DEF Spec
=============================================================================

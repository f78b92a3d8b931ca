--------------------------- MODULE DataSlotProofs ---------------------------
(***************************************************************************)
(* Proofs about the data-slot command path, for every set of commands and  *)
(* every set of parameters.                                                *)
(***************************************************************************)
EXTENDS DataSlot, TLAPS

\* The commands waiting for the bridge, the one the host is executing, and the
\* time until the Ready-To-Run that follows a reset is over.
Pending   == queue \ {"rtr"}
Executing == tstate # "idle" /\ tcmd.cmd # "rtr"
RtrPhase  == "rtr" \in queue \/ (tstate # "idle" /\ tcmd.cmd = "rtr")

\* ACK is on its way to the engine only while the host executes a command.
IAck == ack /\ ~ackS => tstate = "wait" /\ status = "bu" /\ tcmd.cmd # "rtr"

\* Ready-To-Run comes first: nothing has been acknowledged or done before it.
IRtr ==
    RtrPhase => /\ ~ackS /\ ~done /\ ~doneSafe /\ ~doneS /\ ~doneLat
                /\ cmdActive => Pending # {}

\* At most one command waits, it is the last one accepted, and its line is up.
IPending ==
    Pending # {} => /\ Pending = {cmd} /\ line = {cmd} /\ bparam = target
                    /\ cmdActive /\ ~Executing /\ ~ackS

\* The command the host executes is the last one accepted, and its line is up
\* until the engine has seen its ACK.
IExec ==
    Executing => /\ tcmd = Current /\ cmdActive /\ Pending = {}
                 /\ IF ackS THEN ack ELSE line = {cmd}
                 /\ tstate = "wait" => ~done

\* Until the command is done, what the engine sees of DONE is an old level that
\* it has not seen fall.
IStale == Pending # {} \/ Executing => ~doneSafe /\ (doneS => ~doneSeenLow)

\* An active command that neither waits nor executes has been finished.
IFinished ==
    cmdActive /\ Pending = {} /\ ~Executing => tcmd = Current /\ status = "ok"

\* A DONE past the filter is still up, and one the engine can capture means that
\* the data has drained.
IDrain ==
    /\ doneSafe => done /\ ~wrBusy
    /\ cmdActive /\ doneS /\ doneSeenLow => ~wrBusy

IDone ==
    doneLat => /\ ~cmdActive /\ ~wrBusy
               /\ tcmd = Current /\ status = "ok" /\ errLat = err

\* What the command path keeps true beyond the types.
ICommand ==
    IAck /\ IRtr /\ IPending /\ IExec /\ IStale /\ IFinished /\ IDrain /\ IDone

IInv == DSTypeOK /\ ICommand

-----------------------------------------------------------------------------
(***************************************************************************)
(* The type invariant, in two parts: the flags and the rest.               *)
(***************************************************************************)

FlagsOK ==
    /\ cmdActive \in BOOLEAN /\ ackLat \in BOOLEAN /\ ackSeenLow \in BOOLEAN
    /\ doneLat \in BOOLEAN /\ doneSeenLow \in BOOLEAN /\ errLat \in BOOLEAN
    /\ irqPend \in BOOLEAN
    /\ ackS \in BOOLEAN /\ doneS \in BOOLEAN /\ doneSafe \in BOOLEAN
    /\ ack \in BOOLEAN /\ done \in BOOLEAN /\ err \in BOOLEAN
    /\ sent \in BOOLEAN /\ wrBusy \in BOOLEAN

DataOK ==
    /\ line \subseteq Cmds /\ cmd \in Cmds \cup {"none"} /\ target \in Params
    /\ bparam \in Params /\ queue \subseteq Cmds \cup {"rtr"}
    /\ tstate \in {"idle", "op", "wait"} /\ status \in {"cm", "bu", "ok"}
    /\ tcmd \in [cmd : Cmds \cup {"rtr", "none"}, par : Params]

\* The initial registers are typed.
LEMMA TypeInit == DSInit => DSTypeOK
<1>1. DSInit => FlagsOK
  BY Zenon DEF DSInit, FlagsOK
<1>2. DSInit => DataOK
  BY ParamsAssumption DEF DSInit, DataOK
<1>3. QED
  BY <1>1, <1>2, Zenon DEF DSTypeOK, FlagsOK, DataOK

\* Every event keeps the types of the registers.
LEMMA TypeStep == DSTypeOK /\ [DSNext]_dsVars => DSTypeOK'
<1> SUFFICES ASSUME DSTypeOK, [DSNext]_dsVars
             PROVE  FlagsOK' /\ DataOK'
  BY Zenon DEF DSTypeOK, FlagsOK, DataOK
<1>a. FlagsOK /\ DataOK
  BY Zenon DEF DSTypeOK, FlagsOK, DataOK
<1> USE DEF engine, cross, bridge, host
<1>1. ASSUME NEW c \in Cmds, NEW p \in Params, Accept(c, p)
      PROVE  FlagsOK' /\ DataOK'
  <2>1. FlagsOK'
    BY <1>a, <1>1, Zenon DEF FlagsOK, Accept, RequestEdge
  <2>2. DataOK'
    BY <1>a, <1>1 DEF DataOK, Accept, RequestEdge
  <2>3. QED
    BY <2>1, <2>2
<1>2. CASE ClearIrq
  <2>1. irqPend' \in BOOLEAN
    BY <1>2, Zenon DEF ClearIrq, W1C
  <2>2. FlagsOK'
    BY <1>a, <1>2, <2>1, SMT DEF FlagsOK, ClearIrq, W1C
  <2>3. DataOK'
    BY <1>a, <1>2 DEF DataOK, ClearIrq, W1C
  <2>4. QED
    BY <2>2, <2>3
<1>3. CASE SyncAck
  <2>1. FlagsOK'
    BY <1>a, <1>3, SMT DEF FlagsOK, SyncAck, Latch
  <2>2. DataOK'
    BY <1>a, <1>3 DEF DataOK, SyncAck, Latch
  <2>3. QED
    BY <2>1, <2>2
<1>4. CASE SyncDone
  <2>1. FlagsOK'
    BY <1>a, <1>4, SMT DEF FlagsOK, SyncDone, Latch
  <2>2. DataOK'
    BY <1>a, <1>4 DEF DataOK, SyncDone, Latch
  <2>3. QED
    BY <2>1, <2>2
<1>5. CASE QuietReached
  <2>1. doneSafe' \in BOOLEAN
    BY <1>5, Zenon DEF QuietReached
  <2>2. FlagsOK'
    BY <1>a, <1>5, <2>1, SMT DEF FlagsOK, QuietReached
  <2>3. DataOK'
    BY <1>a, <1>5 DEF DataOK, QuietReached
  <2>4. QED
    BY <2>2, <2>3
<1>6. ASSUME NEW c \in Cmds \cup {"rtr"}, Pop(c)
      PROVE  FlagsOK' /\ DataOK'
  <2>1. ack' \in BOOLEAN
    BY <1>6, Zenon DEF Pop
  <2>2. FlagsOK'
    BY <1>a, <1>6, <2>1, SMT DEF FlagsOK, Pop
  <2>3. DataOK'
    BY <1>a, <1>6 DEF DataOK, Pop
  <2>4. QED
    BY <2>2, <2>3
<1>7. CASE DropAck
  <2>1. ack' \in BOOLEAN
    BY <1>7, Zenon DEF DropAck
  <2>2. FlagsOK'
    BY <1>a, <1>7, <2>1, SMT DEF FlagsOK, DropAck
  <2>3. DataOK'
    BY <1>a, <1>7 DEF DataOK, DropAck
  <2>4. QED
    BY <2>2, <2>3
<1>8. CASE Present
  <2>1. sent' \in BOOLEAN /\ done' \in BOOLEAN /\ err' \in BOOLEAN
    BY <1>a, <1>8, Zenon DEF FlagsOK, Present
  <2>2. FlagsOK'
    BY <1>a, <1>8, <2>1, SMT DEF FlagsOK, Present
  <2>3. DataOK'
    BY <1>a, <1>8 DEF DataOK, Present
  <2>4. QED
    BY <2>2, <2>3
<1>9. CASE HostBusy
  <2>1. ack' \in BOOLEAN
    BY <1>9, Zenon DEF HostBusy
  <2>2. FlagsOK'
    BY <1>a, <1>9, <2>1, SMT DEF FlagsOK, HostBusy
  <2>3. DataOK'
    BY <1>a, <1>9 DEF DataOK, HostBusy
  <2>4. QED
    BY <2>2, <2>3
<1>10. CASE HostData
  <2>1. sent' \in BOOLEAN /\ wrBusy' \in BOOLEAN
    BY <1>10, Zenon DEF HostData
  <2>2. FlagsOK'
    BY <1>a, <1>10, <2>1, SMT DEF FlagsOK, HostData
  <2>3. DataOK'
    BY <1>a, <1>10 DEF DataOK, HostData
  <2>4. QED
    BY <2>2, <2>3
<1>11. CASE Drain
  <2>1. wrBusy' \in BOOLEAN
    BY <1>11, Zenon DEF Drain
  <2>2. FlagsOK'
    BY <1>a, <1>11, <2>1, SMT DEF FlagsOK, Drain
  <2>3. DataOK'
    BY <1>a, <1>11 DEF DataOK, Drain
  <2>4. QED
    BY <2>2, <2>3
<1>12. ASSUME NEW e \in BOOLEAN, HostOk(e)
       PROVE  FlagsOK' /\ DataOK'
  <2>1. done' \in BOOLEAN /\ err' \in BOOLEAN
    BY <1>a, <1>12, Zenon DEF FlagsOK, HostOk
  <2>2. FlagsOK'
    BY <1>a, <1>12, <2>1, SMT DEF FlagsOK, HostOk
  <2>3. DataOK'
    BY <1>a, <1>12 DEF DataOK, HostOk
  <2>4. QED
    BY <2>2, <2>3
<1>13. CASE Reset
  <2>1. FlagsOK'
    BY <1>a, <1>13, Zenon DEF FlagsOK, Reset, ResetQueue
  <2>2. DataOK'
    BY <1>a, <1>13, ParamsAssumption DEF DataOK, Reset, ResetQueue
  <2>3. QED
    BY <2>1, <2>2
<1>14. CASE UNCHANGED dsVars
  <2>1. FlagsOK'
    BY <1>a, <1>14, SMT DEF FlagsOK, dsVars
  <2>2. DataOK'
    BY <1>a, <1>14 DEF DataOK, dsVars
  <2>3. QED
    BY <2>1, <2>2
<1>15. QED
  BY <1>1, <1>2, <1>3, <1>4, <1>5, <1>6, <1>7, <1>8, <1>9, <1>10, <1>11,
     <1>12, <1>13, <1>14 DEF DSNext, Hardware, Host

\* Every register has its type, in every state of the command path.
THEOREM DSTypeCorrect == DSSpec => []DSTypeOK
BY TypeInit, TypeStep, PTL DEF DSSpec

-----------------------------------------------------------------------------
(***************************************************************************)
(* The command path: its invariant under CleanNext, and its               *)
(* theorems for the three commands whose lines the dispatch guard covers.  *)
(***************************************************************************)

\* Nothing has been accepted out of reset.
LEMMA CommandInit == DSInit => ICommand
BY SMT DEF DSInit, ICommand, IAck, IRtr, IPending, IExec, IStale, IFinished,
           IDrain, IDone, Pending, Executing, RtrPhase

\* The events when firmware sees to more than the guard: a command is accepted
\* with no line up, and a getfile finds its parameters in the clk_74a copy.
CleanNext ==
    \/ \E c \in Cmds, p \in Params :
          line = {} /\ (c = "getfile" => bparam = p) /\ Accept(c, p)
    \/ ClearIrq \/ Hardware \/ Host

\* Every such event, and a reset, keeps the invariant.
LEMMA CommandStep ==
    IInv /\ DSTypeOK' /\ [CleanNext \/ Reset]_dsVars => ICommand'
<1> SUFFICES ASSUME IInv, DSTypeOK', [CleanNext \/ Reset]_dsVars
             PROVE  ICommand'
  OBVIOUS
<1>a. FlagsOK /\ DataOK /\ FlagsOK' /\ DataOK' /\ ICommand
  BY Zenon DEF IInv, DSTypeOK, FlagsOK, DataOK
<1>b. Cmds \subseteq {"read", "write", "openfile", "getfile"}
  BY CmdsAssumption DEF AllCmds
<1> USE <1>a, <1>b
    DEF engine, cross, bridge, host, Current, FlagsOK, DataOK, Pending,
        Executing, RtrPhase, ICommand, IAck, IRtr, IPending, IExec, IStale,
        IFinished, IDrain, IDone
<1>1. ASSUME NEW c \in Cmds, NEW p \in Params, Accept(c, p),
             line = {}, c = "getfile" => bparam = p
      PROVE  ICommand'
  BY <1>1, SMTT(60) DEF Accept, RequestEdge, Accepts
<1>2. CASE ClearIrq
  BY <1>2, SMTT(60) DEF ClearIrq, W1C
<1>3. CASE SyncAck
  BY <1>3, SMTT(60) DEF SyncAck, Latch
<1>4. CASE SyncDone
  BY <1>4, SMTT(60) DEF SyncDone, Latch
<1>5. CASE QuietReached
  BY <1>5, SMTT(60) DEF QuietReached, PromptBridge, WrIdle
<1>6. ASSUME NEW c \in Cmds \cup {"rtr"}, Pop(c)
      PROVE  ICommand'
  BY <1>6, SMTT(60) DEF Pop, Before
<1>7. CASE DropAck
  BY <1>7, SMTT(60) DEF DropAck
<1>8. CASE Present
  BY <1>8, SMTT(60) DEF Present
<1>9. CASE HostBusy
  BY <1>9, SMTT(60) DEF HostBusy
<1>10. CASE HostData
  BY <1>10, SMTT(60) DEF HostData
<1>11. CASE Drain
  BY <1>11, SMTT(60) DEF Drain
<1>12. ASSUME NEW e \in BOOLEAN, HostOk(e)
       PROVE  ICommand'
  BY <1>12, SMTT(60) DEF HostOk, SpacedHost
<1>13. CASE Reset
  BY <1>13, SMTT(60) DEF Reset, ResetQueue
<1>14. CASE UNCHANGED dsVars
  BY <1>14, SMTT(60) DEF dsVars
<1>15. QED
  BY <1>1, <1>2, <1>3, <1>4, <1>5, <1>6, <1>7, <1>8, <1>9, <1>10, <1>11,
     <1>12, <1>13, <1>14 DEF CleanNext, Hardware, Host

\* Where the guard covers every line, it is all that is needed.
LEMMA GuardSuffices ==
    ASSUME "getfile" \notin Cmds, DSTypeOK, [DSNext]_dsVars
    PROVE  [CleanNext \/ Reset]_dsVars
<1>1. ASSUME NEW c \in Cmds, NEW p \in Params, Accept(c, p)
      PROVE  line = {} /\ c # "getfile"
  BY <1>1, CmdsAssumption, SMT DEF AllCmds, DSTypeOK, Accept, Accepts
<1>2. QED
  BY <1>1 DEF DSNext, CleanNext

\* The inductive invariant holds in every state.
LEMMA CommandInvariant ==
    ASSUME "getfile" \notin Cmds
    PROVE  DSSpec => []IInv
<1>1. DSInit => IInv
  BY TypeInit, CommandInit DEF IInv
<1>2. IInv /\ [DSNext]_dsVars => IInv'
  BY TypeStep, CommandStep, GuardSuffices DEF IInv
<1>3. QED
  BY <1>1, <1>2, PTL DEF DSSpec

\* The host never executes a command other than the one the engine accepted
\* last: the dispatch guard of DS_COMMAND admits none behind another's back.
THEOREM HostExecutesCurrent ==
    ASSUME "getfile" \notin Cmds
    PROVE  DSSpec => []ExecutesCurrent
<1>1. IInv => ExecutesCurrent
  BY DEF IInv, ICommand, IExec, ExecutesCurrent, Executing
<1>2. QED
  BY <1>1, CommandInvariant, PTL

\* A DONE that DS_STATUS reports belongs to the last command accepted, and so do
\* its error bits: no stale level of an earlier command is ever latched.
THEOREM NoStaleDone ==
    ASSUME "getfile" \notin Cmds
    PROVE  DSSpec => []DoneIsOurs
<1>1. IInv => DoneIsOurs
  BY DEF IInv, ICommand, IDone, DoneIsOurs
<1>2. QED
  BY <1>1, CommandInvariant, PTL

\* When DS_STATUS reports DONE the bridge has drained to memory: what the quiet
\* filter of core_top.v is there for.
THEOREM DoneMeansDrained ==
    ASSUME "getfile" \notin Cmds
    PROVE  DSSpec => []DoneAfterDrain
<1>1. IInv => DoneAfterDrain
  BY DEF IInv, ICommand, IDone, DoneAfterDrain
<1>2. QED
  BY <1>1, CommandInvariant, PTL

\* Once the filter has passed DONE on, DONE stays up and the bridge idle until
\* the next request restarts the filter: its branches that take DONE back
\* (core_top.v) are never taken.
THEOREM FilterKeepsDone ==
    ASSUME "getfile" \notin Cmds
    PROVE  DSSpec => [](doneSafe => done /\ WrIdle)
<1>1. IInv => (doneSafe => done /\ WrIdle)
  BY DEF IInv, ICommand, IDrain, WrIdle
<1>2. QED
  BY <1>1, CommandInvariant, PTL

\* No step replaces a command whose request line is up, save a reset.
THEOREM LinesGuarded ==
    ASSUME "getfile" \notin Cmds
    PROVE  DSSpec => GuardCoversLines
<1>1. ASSUME DSTypeOK, [DSNext]_dsVars, line # {}
      PROVE  UNCHANGED <<cmd, target>> \/ cmd' = "none"
  <2>1. ~Accepts
    BY <1>1, CmdsAssumption DEF AllCmds, DSTypeOK, Accepts
  <2>2. QED
    BY <1>1, <2>1, SMT
       DEF DSNext, Hardware, Host, Accept, ClearIrq, W1C, SyncAck, SyncDone,
           Latch, QuietReached, Pop, DropAck, Present, HostBusy,
           HostData, Drain, HostOk, Reset, dsVars, engine
<1>2. QED
  BY <1>1, DSTypeCorrect, PTL DEF DSSpec, GuardCoversLines
=============================================================================

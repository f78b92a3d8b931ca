-------------------------- MODULE PocketFileProofs --------------------------
(***************************************************************************)
(* Proofs about the Pocket's file layer on the data-slot command path, for *)
(* any requests and any nesting of holds: the gate serialises, CRAM0 is    *)
(* owned as needed, and what a read returns is what it asked for.          *)
(***************************************************************************)
EXTENDS PocketFile, DataSlotProofs

Ops == {"none", "async", "getname", "read", "primer", "getfile"}
Issuing == {"areq", "gate", "quiet", "issued", "getfile", "wait"}
Past == {"quiet", "issued", "wait", "getfile"}

\* Where a call is tells what it is doing, and for which request.
IOp ==
    /\ op \in [kind : Ops, req : Params \cup {None}, pre : BOOLEAN]
    /\ pc = "areq" => op.kind = "async"
    /\ pc = "gate" => op.kind \in SyncKinds
    /\ pc = "quiet" => op.kind \in {"read", "primer"}
    /\ pc = "issued" => op.kind \in {"async", "read", "primer", "getfile"}
    /\ pc = "getfile" => op.kind = "getfile"
    /\ pc = "wait" => op.kind \in {"read", "primer", "getfile"}
    /\ pc \in Issuing =>
        /\ op.req \in IF op.kind = "async" THEN AsyncReqs ELSE SyncReqs
        /\ "read" \in Cmds
        /\ op.kind \in {"getname", "primer", "getfile"} => "getfile" \in Cmds

\* An async read is gone through its states in order, and one at a time.
IAsync ==
    /\ async.active => async.req \in AsyncReqs /\ completed = 0
    /\ async.copying => async.active
    /\ ~async.copying => async.slice = 0
    /\ pc = "areq" => ~async.active
    /\ pc = "issued" /\ op.kind = "async" => InFlight /\ async.req = op.req
    /\ GateSerialises

IFirm == TypeOK /\ IOp /\ IAsync

\* CRAM0 is owned as the async read and the blocking operation need it.
IOwner ==
    /\ OwnershipFollowsAsync
    /\ pc = "gate" /\ op.kind # "getname" => ~async.copying /\ mode = "bridge"
    /\ pc \in Past => mode = "bridge"
    /\ pc = "nv" => hold >= 1 /\ (hold = 1 => ~async.copying)

\* What the engine keeps true while no command is issued over another.
IWitness ==
    /\ ackSeenLow
    /\ line \in {{}, {cmd}}
    /\ irqPend => doneLat
    /\ doneLat => ackLat
    /\ cmdActive => /\ ackS => line = {}
                    /\ line = {} => ackLat
                    /\ Pending = {} /\ ~Executing => line = {}
    /\ ~cmdActive => line = {} /\ ~wrBusy
    /\ Executing /\ tstate = "wait" /\ status = "bu" => ack

\* The engine's command, in progress or done, is c for p.
Sole(c, p) == cmd = c /\ target = p /\ (cmdActive \/ doneLat)

\* The engine's command is the one that firmware waits for.
Reading == pc \in {"issued", "wait"} /\ op.kind \in {"read", "primer"}
Naming == pc \in {"issued", "wait"} /\ op.kind = "getfile"
ICommands ==
    /\ InFlight => Sole("read", async.req)
    /\ Reading => Sole("read", op.req)
    /\ Naming => Sole("getfile", op.req) \/ (doneLat /\ errLat)
    /\ pc = "issued" /\ op.kind = "getfile" => op.pre
    /\ pc = "getfile" => doneLat /\ (~errLat => ~ackS)
    /\ pc \in Past /\ op.kind \in {"primer", "getfile"} /\ pc # "quiet" =>
        bparam = op.req
    /\ cmdActive => InFlight \/ pc \in {"issued", "wait"}

\* Data that the host has moved is on its way to its window, or there.
Landed == fifo = target \/ win[Window(target)] = target
Delivered ==
    \/ Executing /\ tstate = "wait" /\ sent
    \/ cmdActive /\ Pending = {} /\ ~Executing /\ ~err
    \/ doneLat /\ ~errLat
IData ==
    /\ fifo # None => wrBusy /\ fifo = target
    /\ (InFlight \/ Reading) /\ Delivered => Landed
    /\ Naming \/ pc = "getfile" => win["scratch"] \in {None, op.req}
    /\ async.copying => /\ win["bounce"] = async.req
                        /\ async.req \notin DirectReqs
                        /\ async.slice = 1 => async.data = async.req

-----------------------------------------------------------------------------
(***************************************************************************)
(* Types, the gate and the steps of a call.                                *)
(***************************************************************************)

\* TypeOK without the command path's registers.
RestOK ==
    /\ mode \in {"bridge", "cpu"} /\ fifo \in Params \cup {None}
    /\ win \in [Windows -> Params \cup {None}]
    /\ resp \in [reg : BOOLEAN, bridge : BOOLEAN]
    /\ async \in [active : BOOLEAN, req : AsyncReqs \cup {None},
                  copying : BOOLEAN, slice : 0..1,
                  data : Params \cup {None, Junk}]
    /\ completed \in 0..1
    /\ pc \in {"app", "areq", "gate", "quiet", "issued", "getfile", "wait",
               "nv"}
    /\ hold \in 0..MaxHold /\ timer \in BOOLEAN

LEMMA TypesSplit == TypeOK <=> DSTypeOK /\ RestOK
BY DEF TypeOK, RestOK

\* Clearing a pending bit that is not set is no step.
LEMMA ClearIsStep == ASSUME DSTypeOK, W1C PROVE [ClearIrq]_dsVars
<1>1. CASE irqPend
  BY <1>1 DEF ClearIrq
<1>2. CASE ~irqPend
  <2>1. irqPend' = irqPend
    BY <1>2 DEF W1C, DSTypeOK
  <2>2. QED
    BY <2>1 DEF W1C, dsVars, engine, cross, bridge, host
<1>3. QED
  BY <1>1, <1>2

\* The steps in which a command is accepted.
FwAccept ==
    \/ AsyncIssue /\ Ready /\ WrIdle /\ Accept("read", op.req)
    \/ (Retry \/ SyncIssue) /\ Accept(OpCmd, op.req)
    \/ GetFileIssue /\ Accept("getfile", op.req)

\* What a call issues is a command of the engine.
LEMMA AcceptFits ==
  ASSUME IFirm, FwAccept
  PROVE  /\ op.req \in Params
         /\ \E c \in Cmds : Accept(c, op.req)
<1>1. pc \in {"areq", "quiet", "issued", "getfile"}
  BY DEF FwAccept, AsyncIssue, Retry, SyncIssue, GetFileIssue
<1>2. op.req \in Params /\ OpCmd \in Cmds /\ "read" \in Cmds
      /\ (pc = "getfile" => "getfile" \in Cmds)
  BY <1>1, RequestAssumption DEF IFirm, IOp, OpCmd, Issuing
<1>3. QED
  BY <1>2 DEF FwAccept, GetFileIssue

\* A step is one of the command path, or none of its.
LEMMA PathStep ==
  ASSUME IFirm, [Next]_vars
  PROVE  FwAccept \/ [ClearIrq \/ Hardware \/ Host]_dsVars
<1>1. DSTypeOK
  BY TypesSplit DEF IFirm
<1>2. CASE HardwareStep
  BY <1>2 DEF HardwareStep, MuxDrain, Host
<1>3. CASE HostStep
  BY <1>3 DEF HostStep, MuxHostData, Host
<1>4. CASE DataSlotIrq
  BY <1>1, <1>4, ClearIsStep DEF DataSlotIrq, IrqService
<1>5. CASE Tick
  BY <1>1, <1>5, ClearIsStep DEF Tick, CopySlice, IrqService, AgeOut
<1>6. CASE SystemCall
  <2>1. CASE \E r \in AsyncReqs : ReadAsync(r)
    BY <2>1 DEF ReadAsync
  <2>2. CASE \E k \in SyncKinds, r \in SyncReqs : SyncBegin(k, r)
    BY <2>2 DEF SyncBegin
  <2>3. CASE Poll
    BY <1>1, <2>3, ClearIsStep DEF Poll
  <2>4. CASE SetTimer \/ SaveOpen \/ SaveClose \/ NvBegin
    BY <2>4 DEF SetTimer, SaveOpen, SaveClose, NvBegin, SaveBegin, SaveEnd
  <2>5. QED
    BY <1>6, <2>1, <2>2, <2>3, <2>4 DEF SystemCall
<1>7. CASE CallStep
  <2>1. CASE AsyncIssue
    BY <1>1, <2>1, ClearIsStep DEF AsyncIssue, FwAccept
  <2>2. CASE Retry \/ SyncIssue
    BY <2>2 DEF Retry, SyncIssue, FwAccept, Issue
  <2>3. CASE GetFileIssue
    BY <2>3 DEF GetFileIssue, FwAccept, Issue
  <2>4. CASE SyncReturn
    BY <1>1, <2>4, ClearIsStep DEF SyncReturn
  <2>5. CASE Proceed \/ Gate \/ SyncTimeout \/ NvEnd
    BY <2>5 DEF Proceed, Gate, SyncTimeout, NvEnd, SaveEnd
  <2>6. QED
    BY <1>7, <2>1, <2>2, <2>3, <2>4, <2>5 DEF CallStep
<1>8. CASE UNCHANGED vars
  BY <1>8 DEF vars
<1>9. QED
  BY <1>2, <1>3, <1>4, <1>5, <1>6, <1>7, <1>8 DEF Next

LEMMA PathIsDataSlot == ASSUME IFirm, [Next]_vars PROVE [DSNext]_dsVars
BY PathStep, AcceptFits DEF DSNext


\* What the firmware's states keep true of themselves.
Firm == RestOK /\ IOp /\ IAsync

LEMMA FirmSplit == IFirm <=> DSTypeOK /\ Firm
BY TypesSplit DEF IFirm, Firm

LEMMA Emptied ==
  /\ NoAsync.active = FALSE /\ NoAsync.copying = FALSE /\ NoAsync.slice = 0
  /\ NoAsync \in [active : BOOLEAN, req : AsyncReqs \cup {None},
                  copying : BOOLEAN, slice : 0..1,
                  data : Params \cup {None, Junk}]
  /\ NoOp \in [kind : Ops, req : Params \cup {None}, pre : BOOLEAN]
BY DEF NoAsync, NoOp, Ops

\* Between system calls the async read moves on, and nothing else: it ends, its
\* copy is put off, or half of it is done.
Moves ==
    \/ UNCHANGED <<async, completed>>
    \/ /\ async.active /\ async' = NoAsync
       /\ completed' \in {completed, completed + 1}
    \/ /\ InFlight /\ async' = [async EXCEPT !.copying = TRUE]
       /\ UNCHANGED completed /\ mode' = "cpu"
    \/ /\ async.copying /\ UNCHANGED completed
       /\ \E d \in Params \cup {None, Junk} :
            async' = [async EXCEPT !.slice = 1, !.data = d]
    \/ /\ ~async.active /\ completed' = completed - 1 /\ completed > 0
       /\ UNCHANGED async

LEMMA MovesKeep ==
  ASSUME Firm, Moves, pc = "app", pc' = "app", UNCHANGED op
  PROVE  /\ async' \in [active : BOOLEAN, req : AsyncReqs \cup {None},
                        copying : BOOLEAN, slice : 0..1,
                        data : Params \cup {None, Junk}]
         /\ completed' \in 0..1 /\ IOp' /\ IAsync'
<1>1. /\ async \in [active : BOOLEAN, req : AsyncReqs \cup {None},
                    copying : BOOLEAN, slice : 0..1,
                    data : Params \cup {None, Junk}]
      /\ completed \in 0..1 /\ IAsync /\ IOp
  BY DEF Firm, RestOK
<1>2. IOp'
  BY <1>1 DEF IOp, Issuing
<1>3. GateSerialises' /\ ~(pc' = "issued") /\ ~(pc' = "areq")
  BY DEF GateSerialises
<1>4. CASE UNCHANGED <<async, completed>>
  BY <1>1, <1>2, <1>3, <1>4 DEF IAsync
<1>5. CASE /\ async.active /\ async' = NoAsync
           /\ completed' \in {completed, completed + 1}
  BY <1>1, <1>2, <1>3, <1>5, Emptied DEF IAsync
<1>6. CASE /\ InFlight /\ async' = [async EXCEPT !.copying = TRUE]
           /\ UNCHANGED completed
  BY <1>1, <1>2, <1>3, <1>6 DEF IAsync, InFlight
<1>7. CASE /\ async.copying /\ UNCHANGED completed
           /\ \E d \in Params \cup {None, Junk} :
                async' = [async EXCEPT !.slice = 1, !.data = d]
  <2>1. PICK d \in Params \cup {None, Junk} :
          async' = [async EXCEPT !.slice = 1, !.data = d]
    BY <1>7
  <2>2. /\ async'.active = async.active /\ async'.req = async.req
        /\ async'.copying = async.copying /\ async'.slice = 1
        /\ async'.data = d
    BY <1>1, <2>1
  <2>3. async' \in [active : BOOLEAN, req : AsyncReqs \cup {None},
                    copying : BOOLEAN, slice : 0..1,
                    data : Params \cup {None, Junk}]
    <3>1. async' = [active |-> async.active, req |-> async.req,
                    copying |-> async.copying, slice |-> 1, data |-> d]
      BY <1>1, <2>1
    <3>2. /\ async.active \in BOOLEAN /\ async.req \in AsyncReqs \cup {None}
          /\ async.copying \in BOOLEAN /\ 1 \in 0..1
      BY <1>1
    <3>3. QED
      BY <3>1, <3>2
  <2>4. IAsync'
    BY <1>1, <1>3, <1>7, <2>2 DEF IAsync
  <2>5. QED
    BY <1>1, <1>2, <1>7, <2>3, <2>4
<1>8. CASE /\ ~async.active /\ completed' = completed - 1 /\ completed > 0
           /\ UNCHANGED async
  BY <1>1, <1>2, <1>3, <1>8 DEF IAsync
<1>9. QED
  BY <1>4, <1>5, <1>6, <1>7, <1>8 DEF Moves

\* A load returns what is in the window, or nothing of use.
LEMMA Loads ==
  ASSUME Firm, NEW w \in Windows
  PROVE  Load(w) \in Params \cup {None, Junk}
BY DEF Firm, RestOK, Load

LEMMA CompleteMoves ==
  ASSUME Firm, Complete, InFlight
  PROVE  Moves /\ mode' = "cpu" /\ UNCHANGED <<fifo, win, resp>>
<1>1. mode' = "cpu" /\ UNCHANGED <<fifo, win, resp>>
  BY DEF Complete, HandToCpu
<1>2. CASE ~errLat /\ async.req \notin DirectReqs /\ timer
  BY <1>1, <1>2 DEF Complete, Moves
<1>3. CASE ~(~errLat /\ async.req \notin DirectReqs /\ timer)
  BY <1>1, <1>3 DEF Complete, Moves, Finalize, InFlight
<1>4. QED
  BY <1>1, <1>2, <1>3

\* What the interrupt, the tick and a poll change.
LEMMA AppMoves ==
  ASSUME Firm, DataSlotIrq \/ Tick \/ Poll
  PROVE  /\ Moves /\ pc = "app" /\ UNCHANGED <<pc, op, hold, timer, syncRes>>
         /\ UNCHANGED <<fifo, win, resp>>
         /\ \/ UNCHANGED mode
            \/ InFlight /\ mode' = "cpu" /\ (async'.active => async'.copying)
<1>1. ASSUME Complete, InFlight
      PROVE  Moves /\ UNCHANGED <<fifo, win, resp>> /\ mode' = "cpu"
             /\ (async'.active => async'.copying)
  <2>1. async'.active => async'.copying
    BY <1>1, Emptied DEF Complete, Finalize, Firm, RestOK
  <2>2. QED
    BY <1>1, <2>1, CompleteMoves
<1>2. ASSUME CopyRest, completed' \in {completed, completed + 1}
      PROVE  Moves
  BY <1>2 DEF CopyRest, Finalize, Moves, Firm, IAsync
<1>3. CASE DataSlotIrq
  BY <1>1, <1>3 DEF DataSlotIrq, IrqService, Moves, muxVars
<1>4. CASE Tick
  <2>1. CASE CopySlice
    <3>1. UNCHANGED muxVars
      BY <2>1 DEF CopySlice
    <3>2. Moves
      <4>1. CASE async.slice = 1
        BY <1>2, <2>1, <4>1 DEF CopySlice
      <4>2. CASE async.slice # 1
        <5>1. Load("bounce") \in Params \cup {None, Junk}
          BY Loads DEF Windows
        <5>2. QED
          BY <2>1, <4>2, <5>1 DEF CopySlice, Moves
      <4>3. QED
        BY <4>1, <4>2
    <3>3. QED
      BY <1>4, <3>1, <3>2 DEF Tick, muxVars
  <2>2. CASE InFlight /\ IrqService
    BY <1>1, <1>4, <2>2 DEF Tick, IrqService, muxVars
  <2>3. CASE InFlight /\ Complete
    BY <1>1, <1>4, <2>3 DEF Tick
  <2>4. CASE InFlight /\ AgeOut
    BY <1>4, <2>4 DEF Tick, AgeOut, Finalize, Moves, InFlight, muxVars
  <2>5. QED
    BY <1>4, <2>1, <2>2, <2>3, <2>4 DEF Tick
<1>5. CASE Poll
  <2>1. CASE CopyRest /\ completed' = completed /\ UNCHANGED muxVars
    BY <1>2, <1>5, <2>1 DEF Poll, muxVars
  <2>2. CASE /\ ~async.copying /\ completed > 0 /\ completed' = completed - 1
             /\ UNCHANGED <<muxVars, async, asyncRes>>
    <3>1. ~async.active
      BY <2>2 DEF Firm, IAsync
    <3>2. QED
      BY <1>5, <2>2, <3>1 DEF Poll, Moves, muxVars
  <2>3. CASE /\ InFlight /\ completed = 0 /\ HandToCpu /\ UNCHANGED completed
             /\ IF errLat THEN Finalize("err", None)
                ELSE Finalize("ok", LoadAfter(Window(async.req)))
    <3>1. async' = NoAsync
      BY <2>3 DEF Finalize
    <3>2. QED
      BY <1>5, <2>3, <3>1, Emptied DEF Poll, Moves, HandToCpu, InFlight
  <2>4. QED
    BY <1>5, <2>1, <2>2, <2>3 DEF Poll
<1>6. QED
  BY <1>3, <1>4, <1>5

\* Hardware and host leave the firmware alone.
LEMMA HardwareFirm ==
  ASSUME IFirm, HardwareStep \/ HostStep
  PROVE  /\ UNCHANGED <<fwVars, mode, resp>>
         /\ \/ UNCHANGED <<fifo, win>>
            \/ MuxHostData
            \/ MuxDrain
         /\ Firm'
<1>1. UNCHANGED <<fwVars, mode, resp>>
  BY DEF HardwareStep, HostStep, MuxDrain, MuxHostData, muxVars
<1>2. UNCHANGED <<fifo, win>> \/ MuxHostData \/ MuxDrain
  BY DEF HardwareStep, HostStep, muxVars
<1>3. Firm
  BY FirmSplit
<1>4. fifo' \in Params \cup {None} /\ win' \in [Windows -> Params \cup {None}]
  <2>1. tcmd.par \in Params /\ fifo \in Params \cup {None}
        /\ win \in [Windows -> Params \cup {None}]
    BY <1>3, FirmSplit DEF Firm, RestOK, DSTypeOK
  <2>2. CASE UNCHANGED <<fifo, win>>
    BY <2>1, <2>2
  <2>3. CASE MuxHostData
    BY <2>1, <2>3 DEF MuxHostData
  <2>4. CASE MuxDrain
    BY <2>1, <2>4 DEF MuxDrain, Window, Windows
  <2>5. QED
    BY <1>2, <2>2, <2>3, <2>4
<1>5. RestOK'
  BY <1>1, <1>3, <1>4 DEF Firm, RestOK, fwVars
<1>6. IOp' /\ IAsync'
  BY <1>1, <1>3 DEF Firm, IOp, IAsync, InFlight, GateSerialises, fwVars
<1>7. QED
  BY <1>1, <1>2, <1>5, <1>6 DEF Firm

LEMMA AppFirm ==
  ASSUME Firm, DataSlotIrq \/ Tick \/ Poll PROVE Firm'
<1>1. /\ Moves /\ pc = "app" /\ UNCHANGED <<pc, op, hold, timer, syncRes>>
      /\ UNCHANGED <<fifo, win, resp>> /\ mode' \in {mode, "cpu"}
  BY AppMoves
<1>2. /\ async' \in [active : BOOLEAN, req : AsyncReqs \cup {None},
                     copying : BOOLEAN, slice : 0..1,
                     data : Params \cup {None, Junk}]
      /\ completed' \in 0..1 /\ IOp' /\ IAsync'
  BY <1>1, MovesKeep
<1>3. QED
  BY <1>1, <1>2 DEF Firm, RestOK

\* A pending copy is delivered, or there is none.
Settled ==
    \/ async.copying /\ async' = NoAsync /\ completed' = completed + 1
    \/ ~async.copying /\ UNCHANGED <<async, completed>>

LEMMA SettledGives ==
  ASSUME Firm, Settled
  PROVE  /\ async' \in [active : BOOLEAN, req : AsyncReqs \cup {None},
                        copying : BOOLEAN, slice : 0..1,
                        data : Params \cup {None, Junk}]
         /\ completed' \in 0..1
         /\ async'.active => async'.req \in AsyncReqs /\ completed' = 0
         /\ ~async'.copying /\ async'.slice = 0
         /\ async'.active <=> InFlight
BY Emptied DEF Firm, RestOK, IAsync, Settled, InFlight

\* Calls begin.
LEMMA BeginFirm ==
  ASSUME Firm,
         \/ \E r \in AsyncReqs : ReadAsync(r)
         \/ \E k \in SyncKinds, r \in SyncReqs : SyncBegin(k, r)
  PROVE  Firm'
<1>1. ASSUME NEW r \in AsyncReqs, ReadAsync(r) PROVE Firm'
  <2>1. /\ op' = [kind |-> "async", req |-> r, pre |-> FALSE] /\ pc' = "areq"
        /\ "read" \in Cmds /\ UNCHANGED <<mode, fifo, win, resp, hold, timer>>
    BY <1>1 DEF ReadAsync, muxVars
  <2>2. Settled /\ ~async'.active
    <3>1. CASE CopyRest /\ completed' = completed + 1
      BY <3>1, Emptied DEF CopyRest, Finalize, Settled
    <3>2. CASE ~async.active /\ UNCHANGED <<async, completed, asyncRes>>
      BY <3>2 DEF Settled, Firm, IAsync
    <3>3. QED
      BY <1>1, <3>1, <3>2 DEF ReadAsync
  <2>3. RestOK'
    BY <2>1, <2>2, SettledGives DEF Firm, RestOK
  <2>4. IOp'
    BY <2>1, RequestAssumption DEF IOp, Ops
  <2>5. IAsync'
    BY <2>1, <2>2, SettledGives DEF IAsync, GateSerialises
  <2>6. QED
    BY <2>3, <2>4, <2>5 DEF Firm
<1>2. ASSUME NEW k \in SyncKinds, NEW r \in SyncReqs, SyncBegin(k, r)
      PROVE  Firm'
  <2>1. /\ op' = [kind |-> k, req |-> r, pre |-> FALSE] /\ pc' = "gate"
        /\ mode' \in {mode, "bridge"} /\ UNCHANGED <<async, completed>>
        /\ UNCHANGED <<fifo, win, resp, hold, timer>>
    BY <1>2 DEF SyncBegin
  <2>2. RestOK'
    BY <2>1 DEF Firm, RestOK
  <2>3. IOp'
    BY <2>1, RequestAssumption, KindsAssumption DEF IOp, Ops
  <2>4. IAsync'
    BY <2>1 DEF Firm, IAsync, GateSerialises
  <2>5. QED
    BY <2>2, <2>3, <2>4 DEF Firm
<1>3. QED
  BY <1>1, <1>2

LEMMA SaveFirm ==
  ASSUME Firm, SetTimer \/ SaveOpen \/ SaveClose \/ NvBegin \/ NvEnd
  PROVE  Firm'
<1>1. /\ pc' \in {"app", "nv"} /\ UNCHANGED <<op, async, completed>>
      /\ UNCHANGED <<fifo, win, resp>>
  BY DEF SetTimer, SaveOpen, SaveClose, NvBegin, NvEnd, SaveBegin, SaveEnd,
         muxVars, Firm, RestOK
<1>2. mode' \in {mode, "cpu", "bridge"} /\ timer' \in BOOLEAN
      /\ hold' \in 0..MaxHold
  <2>1. hold \in 0..MaxHold /\ MaxHold \in Nat /\ timer \in BOOLEAN
    BY ConfigAssumption DEF Firm, RestOK
  <2>2. CASE SetTimer
    BY <2>1, <2>2 DEF SetTimer, muxVars
  <2>3. CASE SaveBegin
    BY <2>1, <2>3 DEF SaveBegin
  <2>4. CASE SaveEnd
    <3>1. hold' \in {0, hold - 1} /\ (hold = 0 => hold' = 0)
      BY <2>4 DEF SaveEnd
    <3>2. mode' \in {"bridge", mode} /\ timer' = timer
      BY <2>4 DEF SaveEnd
    <3>3. QED
      BY <2>1, <3>1, <3>2
  <2>5. QED
    BY <2>2, <2>3, <2>4 DEF SaveOpen, SaveClose, NvBegin, NvEnd
<1>3. RestOK'
  BY <1>1, <1>2 DEF Firm, RestOK
<1>4. IOp' /\ IAsync'
  BY <1>1 DEF Firm, IOp, IAsync, Issuing, GateSerialises
<1>5. QED
  BY <1>3, <1>4 DEF Firm

\* The issue of an async read.
LEMMA AsyncIssueFirm ==
  ASSUME Firm, ackLat \in BOOLEAN, AsyncIssue PROVE Firm'
<1>1. /\ pc = "areq" /\ op.kind = "async" /\ op.req \in AsyncReqs
      /\ "read" \in Cmds /\ ~async.active /\ ~async.copying
      /\ op \in [kind : Ops, req : Params \cup {None}, pre : BOOLEAN]
  BY DEF AsyncIssue, Firm, IOp, IAsync, Issuing
<1>2. CASE Ready /\ WrIdle
  <2>1. /\ mode' = "bridge" /\ completed' = 0 /\ pc' = "issued"
        /\ op' = [op EXCEPT !.pre = ackLat]
        /\ async' = [NoAsync EXCEPT !.active = TRUE, !.req = op.req]
        /\ CopyResp("read") /\ UNCHANGED <<fifo, win, hold, timer>>
    BY <1>2 DEF AsyncIssue, ResetCount, Probe
  <2>2. resp' \in [reg : BOOLEAN, bridge : BOOLEAN]
    BY <2>1 DEF CopyResp, Firm, RestOK
  <2>3. /\ async'.active = TRUE /\ async'.copying = FALSE
        /\ async'.req = op.req /\ async'.slice = 0
        /\ async' \in [active : BOOLEAN, req : AsyncReqs \cup {None},
                       copying : BOOLEAN, slice : 0..1,
                       data : Params \cup {None, Junk}]
    <3>1. async' = [active |-> TRUE, req |-> op.req, copying |-> FALSE,
                    slice |-> 0, data |-> None]
      BY <2>1 DEF NoAsync
    <3>2. 0 \in 0..1 /\ None \in Params \cup {None, Junk}
      OBVIOUS
    <3>3. QED
      BY <1>1, <3>1, <3>2
  <2>4. ackLat \in BOOLEAN
    OBVIOUS
  <2>5. /\ op'.kind = "async" /\ op'.req = op.req
        /\ op' \in [kind : Ops, req : Params \cup {None}, pre : BOOLEAN]
    BY <1>1, <2>1, <2>4
  <2>6. RestOK'
    BY <2>1, <2>2, <2>3 DEF Firm, RestOK
  <2>7. IOp'
    BY <1>1, <2>1, <2>5 DEF IOp
  <2>8. IAsync'
    BY <1>1, <2>1, <2>3, <2>5 DEF IAsync, InFlight, GateSerialises
  <2>9. QED
    BY <2>6, <2>7, <2>8 DEF Firm
<1>3. CASE ~(Ready /\ WrIdle)
  <2>1. pc' = "app" /\ UNCHANGED <<mode, resp, async, completed, op>>
        /\ UNCHANGED <<fifo, win, hold, timer>>
    BY <1>3 DEF AsyncIssue
  <2>2. QED
    BY <1>1, <2>1 DEF Firm, RestOK, IOp, IAsync, Issuing, GateSerialises
<1>4. QED
  BY <1>2, <1>3

\* The other steps of a call, which leave an async read in flight alone.
LEMMA ProceedFirm ==
  ASSUME Firm, Proceed \/ Retry PROVE Firm'
<1>1. /\ pc = "issued" /\ UNCHANGED <<async, completed, op>>
      /\ UNCHANGED <<mode, fifo, win, hold, timer>>
      /\ pc' = IF op.kind = "async" THEN "app" ELSE "wait"
  BY DEF Proceed, Retry, muxVars, AfterIssue
<1>2. resp' \in [reg : BOOLEAN, bridge : BOOLEAN]
  BY DEF Proceed, Retry, muxVars, CopyResp, Firm, RestOK
<1>3. RestOK'
  BY <1>1, <1>2 DEF Firm, RestOK
<1>4. IOp'
  BY <1>1 DEF Firm, IOp, Issuing
<1>5. IAsync'
  BY <1>1 DEF Firm, IAsync, GateSerialises
<1>6. QED
  BY <1>3, <1>4, <1>5 DEF Firm

LEMMA GateFirm == ASSUME Firm, Gate PROVE Firm'
<1>1. /\ pc = "gate" /\ op.kind \in {"read", "getname"} /\ "read" \in Cmds
      /\ op \in [kind : Ops, req : Params \cup {None}, pre : BOOLEAN]
      /\ op.req \in SyncReqs /\ (op.kind = "getname" => "getfile" \in Cmds)
      /\ UNCHANGED <<fifo, resp, hold, timer>>
  BY KindsAssumption DEF Gate, Firm, IOp, Issuing, muxVars
<1>2. CASE GateBusy
  <2>1. /\ UNCHANGED <<mode, win, async, completed>>
        /\ pc' = "app" /\ op' = NoOp
    BY <1>2 DEF Gate, Return, muxVars
  <2>2. QED
    BY <1>1, <2>1, Emptied
       DEF Firm, RestOK, IOp, IAsync, Issuing, GateSerialises
<1>3. CASE ~GateBusy
  <2>1. /\ pc' = "quiet"
        /\ IF op.kind = "getname"
           THEN /\ op' = [op EXCEPT !.kind = "primer"] /\ mode' = "bridge"
                /\ win' = [win EXCEPT !["scratch"] = None]
           ELSE UNCHANGED <<op, mode, win>>
    BY <1>3 DEF Gate
  <2>2. Settled
    <3>1. CASE async.copying
      BY <1>3, <3>1 DEF Gate, CopyRest, Finalize, Settled
    <3>2. CASE ~async.copying
      BY <1>3, <3>2 DEF Gate, Settled
    <3>3. QED
      BY <3>1, <3>2
  <2>3. ~async'.active
    BY <1>3, <2>2, SettledGives DEF GateBusy
  <2>4. /\ op' \in [kind : Ops, req : Params \cup {None}, pre : BOOLEAN]
        /\ op'.req = op.req /\ op'.kind \in {"read", "primer"}
        /\ op'.kind = "primer" => op.kind = "getname"
    BY <1>1, <2>1 DEF Ops
  <2>5. /\ mode' \in {"bridge", "cpu"}
        /\ win' \in [Windows -> Params \cup {None}]
    BY <2>1 DEF Firm, RestOK, Windows
  <2>6. RestOK'
    BY <1>1, <2>1, <2>2, <2>5, SettledGives DEF Firm, RestOK
  <2>7. IOp'
    BY <1>1, <2>1, <2>4 DEF IOp
  <2>8. IAsync'
    BY <2>1, <2>2, <2>3, SettledGives DEF IAsync, GateSerialises
  <2>9. QED
    BY <2>6, <2>7, <2>8 DEF Firm
<1>4. QED
  BY <1>2, <1>3

LEMMA IssueFirm ==
  ASSUME Firm, ackLat \in BOOLEAN, SyncIssue \/ GetFileIssue PROVE Firm'
<1>1. /\ pc \in {"quiet", "getfile"} /\ pc' = "issued"
      /\ op' = [op EXCEPT !.pre = ackLat]
      /\ UNCHANGED <<mode, fifo, win, async, completed, hold, timer>>
  BY DEF SyncIssue, GetFileIssue, Probe
<1>2. resp' \in [reg : BOOLEAN, bridge : BOOLEAN]
  BY DEF SyncIssue, GetFileIssue, CopyResp, Firm, RestOK
<1>3. /\ op' \in [kind : Ops, req : Params \cup {None}, pre : BOOLEAN]
      /\ op'.req = op.req /\ op'.kind = op.kind
  BY <1>1 DEF Firm, IOp
<1>4. RestOK'
  BY <1>1, <1>2 DEF Firm, RestOK
<1>5. IOp'
  BY <1>1, <1>3 DEF Firm, IOp, Issuing
<1>6. op.kind # "async" /\ ~async.active
  BY <1>1 DEF Firm, IOp, IAsync, GateSerialises
<1>7. IAsync'
  BY <1>1, <1>3, <1>6 DEF Firm, IAsync, GateSerialises
<1>8. QED
  BY <1>4, <1>5, <1>7 DEF Firm

LEMMA ReturnFirm == ASSUME Firm, SyncReturn \/ SyncTimeout PROVE Firm'
<1>1. /\ pc \in {"quiet", "wait"} /\ ~async.active
      /\ UNCHANGED <<async, completed, hold, timer>>
      /\ op \in [kind : Ops, req : Params \cup {None}, pre : BOOLEAN]
      /\ op.req \in SyncReqs /\ "read" \in Cmds
      /\ op.kind = "primer" => "getfile" \in Cmds
  BY DEF SyncReturn, SyncTimeout, LimitedWaits, Firm, IOp, IAsync, Issuing,
         GateSerialises
<1>2. \/ GetFile
      \/ /\ pc' = "app" /\ op' = NoOp /\ UNCHANGED <<fifo, win, resp>>
         /\ mode' \in {mode, "cpu"}
  BY DEF SyncReturn, SyncTimeout, Return, HandToCpu, muxVars
<1>3. op.kind = "primer" \/ ~GetFile
  <2>1. op.kind # "primer" => pc' = "app"
    BY DEF SyncReturn, SyncTimeout, Return
  <2>2. QED
    BY <2>1 DEF GetFile
<1>4. CASE GetFile
  <2>1. /\ pc' = "getfile" /\ op' = [op EXCEPT !.kind = "getfile"]
        /\ mode' = "bridge" /\ win' = [win EXCEPT !["scratch"] = None]
        /\ UNCHANGED <<fifo, resp>> /\ "getfile" \in Cmds
    BY <1>1, <1>3, <1>4 DEF GetFile
  <2>2. /\ op' \in [kind : Ops, req : Params \cup {None}, pre : BOOLEAN]
        /\ op'.req = op.req /\ op'.kind = "getfile"
    BY <1>1, <2>1 DEF Ops
  <2>3. RestOK'
    BY <1>1, <2>1 DEF Firm, RestOK, Windows
  <2>4. IOp'
    BY <1>1, <2>1, <2>2 DEF IOp
  <2>5. IAsync'
    BY <1>1, <2>1, <2>2 DEF Firm, IAsync, GateSerialises
  <2>6. QED
    BY <2>3, <2>4, <2>5 DEF Firm
<1>5. CASE /\ pc' = "app" /\ op' = NoOp /\ UNCHANGED <<fifo, win, resp>>
           /\ mode' \in {mode, "cpu"}
  BY <1>1, <1>5, Emptied
     DEF Firm, RestOK, IOp, IAsync, Issuing, GateSerialises
<1>6. QED
  BY <1>2, <1>4, <1>5

LEMMA FirmInit == Init => IFirm
<1> SUFFICES ASSUME Init PROVE IFirm
  OBVIOUS
<1>1. DSTypeOK
  BY TypeInit DEF Init
<1>2. RestOK
  BY ConfigAssumption, Emptied DEF Init, RestOK
<1>3. IOp /\ IAsync
  BY Emptied DEF Init, IOp, IAsync, Issuing, GateSerialises
<1>4. QED
  BY <1>1, <1>2, <1>3, FirmSplit DEF Firm

LEMMA FirmStep == IFirm /\ [Next]_vars => IFirm'
<1> SUFFICES ASSUME IFirm, [Next]_vars PROVE IFirm'
  OBVIOUS
<1>1. DSTypeOK /\ Firm /\ ackLat \in BOOLEAN
  BY FirmSplit DEF DSTypeOK
<1>2. DSTypeOK'
  BY <1>1, PathIsDataSlot, TypeStep
<1>3. Firm'
  <2>1. CASE HardwareStep \/ HostStep
    BY <2>1, HardwareFirm
  <2>2. CASE DataSlotIrq \/ Tick \/ Poll
    BY <1>1, <2>2, AppFirm
  <2>3. CASE SystemCall
    BY <1>1, <2>3, AppFirm, BeginFirm, SaveFirm DEF SystemCall
  <2>4. CASE CallStep
    BY <1>1, <2>4, AsyncIssueFirm, ProceedFirm, GateFirm, IssueFirm,
       ReturnFirm, SaveFirm DEF CallStep
  <2>5. CASE UNCHANGED vars
    BY <1>1, <2>5 DEF vars, fwVars, muxVars, Firm, RestOK, IOp, IAsync,
       InFlight, GateSerialises
  <2>6. QED
    BY <2>1, <2>2, <2>3, <2>4, <2>5 DEF Next
<1>4. IFirm <=> DSTypeOK /\ Firm
  BY FirmSplit
<1>5. (DSTypeOK /\ Firm => IFirm)'
  BY DEF IFirm, TypeOK, Firm, RestOK
<1>6. QED
  BY <1>2, <1>3, <1>5

\* Types, the steps of a call and those of an async read, of every execution.
THEOREM TypesHold == Spec => []TypeOK
<1>1. IFirm => TypeOK
  BY DEF IFirm
<1>2. QED
  BY <1>1, FirmInit, FirmStep, PTL DEF Spec

\* GateSerialises: a blocking operation is past its gate only while no async
\* read is in flight, also when the host is late or silent and whichever of
\* the overlaps callers produce.
THEOREM GateSerialisesHolds == Spec => []GateSerialises
<1>1. IFirm => GateSerialises
  BY DEF IFirm, IAsync
<1>2. QED
  BY <1>1, FirmInit, FirmStep, PTL DEF Spec

-----------------------------------------------------------------------------
(***************************************************************************)
(* The ownership of CRAM0.                                                 *)
(***************************************************************************)

LEMMA OwnerInit == Init => IOwner
BY DEF Init, IOwner, OwnershipFollowsAsync, NoAsync, Past

LEMMA OwnerStep ==
  ASSUME Overlaps \subseteq {"slow-host"}, IFirm, IOwner, [Next]_vars
  PROVE  IOwner'
<1>1. Firm /\ Firm'
  BY FirmStep, FirmSplit, PTL
<1>2. /\ OwnershipFollowsAsync
      /\ pc = "gate" /\ op.kind # "getname" => ~async.copying /\ mode = "bridge"
      /\ pc \in Past => mode = "bridge"
      /\ pc = "nv" => hold >= 1 /\ (hold = 1 => ~async.copying)
  BY DEF IOwner
<1>3. CASE HardwareStep \/ HostStep \/ UNCHANGED vars
  <2>1. UNCHANGED <<async, pc, op, hold, mode>>
    BY <1>3, HardwareFirm DEF vars, fwVars, muxVars
  <2>2. QED
    BY <2>1 DEF IOwner, OwnershipFollowsAsync
<1>4. CASE DataSlotIrq \/ Tick \/ Poll
  <2>1. /\ Moves /\ pc' = "app"
        /\ \/ UNCHANGED mode
           \/ InFlight /\ mode' = "cpu" /\ (async'.active => async'.copying)
    BY <1>1, <1>4, AppMoves
  <2>2. OwnershipFollowsAsync'
    <3>1. CASE InFlight /\ mode' = "cpu" /\ (async'.active => async'.copying)
      BY <3>1 DEF OwnershipFollowsAsync
    <3>2. CASE UNCHANGED mode
      <4>1. CASE async' = async
        BY <1>2, <3>2, <4>1 DEF OwnershipFollowsAsync
      <4>2. CASE async' = NoAsync
        BY <4>2, Emptied DEF OwnershipFollowsAsync
      <4>3. CASE async' = [async EXCEPT !.copying = TRUE] /\ mode' = "cpu"
        BY <1>1, <4>3 DEF OwnershipFollowsAsync, Firm, RestOK
      <4>4. CASE /\ async.copying
                 /\ \E d \in Params \cup {None, Junk} :
                      async' = [async EXCEPT !.slice = 1, !.data = d]
        <5>1. async'.copying = async.copying /\ async'.active = async.active
          BY <1>1, <4>4 DEF Firm, RestOK
        <5>2. QED
          BY <1>2, <3>2, <5>1 DEF OwnershipFollowsAsync
      <4>5. QED
        BY <2>1, <4>1, <4>2, <4>3, <4>4 DEF Moves
    <3>3. QED
      BY <2>1, <3>1, <3>2
  <2>3. QED
    BY <2>1, <2>2 DEF IOwner, Past
<1>5. ASSUME NEW r \in AsyncReqs, ReadAsync(r) PROVE IOwner'
  <2>1. pc' = "areq"
    BY <1>5 DEF ReadAsync
  <2>2. QED
    BY <1>1, <2>1 DEF Firm, IAsync, IOwner, OwnershipFollowsAsync, Past
<1>6. ASSUME NEW k \in SyncKinds, NEW r \in SyncReqs, SyncBegin(k, r)
      PROVE  IOwner'
  <2>1. /\ pc' = "gate" /\ op'.kind = k /\ UNCHANGED async
        /\ async.copying => k = "getname"
        /\ mode' = IF k = "getname" THEN mode ELSE "bridge"
    BY <1>6 DEF SyncBegin
  <2>2. QED
    BY <1>1, <1>2, <2>1 DEF IOwner, OwnershipFollowsAsync, Past
<1>7. CASE SetTimer
  BY <1>2, <1>7 DEF SetTimer, muxVars, IOwner, OwnershipFollowsAsync, Past
<1>8. CASE SaveOpen \/ NvBegin
  <2>1. /\ ~InFlight /\ mode' = "cpu" /\ hold' = hold + 1 /\ UNCHANGED async
        /\ hold \in Nat
    BY <1>1, <1>8 DEF SaveOpen, NvBegin, SaveBegin, Firm, RestOK
  <2>2. OwnershipFollowsAsync'
    BY <1>1, <2>1 DEF OwnershipFollowsAsync, InFlight, Firm, IAsync
  <2>3. pc' = "app" \/ (pc' = "nv" /\ (hold = 0 => ~async.copying))
    BY <1>8 DEF SaveOpen, NvBegin, ReleaseOk
  <2>4. QED
    BY <2>1, <2>2, <2>3 DEF IOwner, Past
<1>9. CASE SaveClose \/ NvEnd
  <2>1. /\ pc' = "app" /\ UNCHANGED async
        /\ mode' = IF hold <= 1 THEN "bridge" ELSE mode
    BY <1>9 DEF SaveClose, NvEnd, SaveEnd
  <2>2. hold <= 1 => ~async.copying
    BY <1>1, <1>2, <1>9 DEF SaveClose, NvEnd, ReleaseOk, Firm, RestOK
  <2>3. OwnershipFollowsAsync'
    BY <1>2, <2>1, <2>2 DEF OwnershipFollowsAsync
  <2>4. QED
    BY <2>1, <2>3 DEF IOwner, Past
<1>10. CASE AsyncIssue
  <2>1. CASE Ready /\ WrIdle
    <3>1. /\ mode' = "bridge" /\ pc' = "issued"
          /\ async' = [NoAsync EXCEPT !.active = TRUE, !.req = op.req]
      BY <1>10, <2>1 DEF AsyncIssue
    <3>2. async'.copying = FALSE
      BY <3>1 DEF NoAsync
    <3>3. QED
      BY <3>1, <3>2 DEF IOwner, OwnershipFollowsAsync
  <2>2. CASE ~(Ready /\ WrIdle)
    <3>1. pc' = "app" /\ UNCHANGED <<mode, async>>
      BY <1>10, <2>2 DEF AsyncIssue
    <3>2. QED
      BY <1>2, <3>1 DEF IOwner, OwnershipFollowsAsync, Past
  <2>3. QED
    BY <2>1, <2>2
<1>11. CASE Proceed \/ Retry \/ SyncIssue \/ GetFileIssue
  <2>1. /\ pc \in Past /\ pc' \in {"app", "issued", "wait"}
        /\ UNCHANGED <<mode, async>>
    BY <1>11
       DEF Proceed, Retry, SyncIssue, GetFileIssue, Past, AfterIssue, muxVars
  <2>2. QED
    BY <1>2, <2>1 DEF IOwner, OwnershipFollowsAsync, Past
<1>12. CASE Gate
  <2>1. CASE GateBusy
    <3>1. pc' = "app" /\ UNCHANGED <<mode, async>>
      BY <1>12, <2>1 DEF Gate, Return, muxVars
    <3>2. QED
      BY <1>2, <3>1 DEF IOwner, OwnershipFollowsAsync, Past
  <2>2. CASE ~GateBusy
    <3>1. /\ pc = "gate" /\ pc' = "quiet"
          /\ mode' = IF op.kind = "getname" THEN "bridge" ELSE mode
      BY <1>12, <2>2 DEF Gate
    <3>2. op'.kind # "async" /\ ~async'.active
      BY <1>1, <3>1 DEF Firm, IOp, IAsync, GateSerialises
    <3>3. QED
      BY <1>2, <3>1, <3>2 DEF IOwner, OwnershipFollowsAsync, Past
  <2>3. QED
    BY <2>1, <2>2
<1>13. CASE SyncReturn \/ SyncTimeout
  <2>1. ~async'.active
    <3>1. pc \in {"quiet", "wait"} /\ UNCHANGED async
      BY <1>13 DEF SyncReturn, SyncTimeout, LimitedWaits
    <3>2. QED
      BY <1>1, <3>1 DEF Firm, IOp, IAsync, GateSerialises
  <2>2. pc' = "app" \/ (pc' = "getfile" /\ mode' = "bridge")
    BY <1>13 DEF SyncReturn, SyncTimeout, Return, GetFile
  <2>3. QED
    BY <2>1, <2>2 DEF IOwner, OwnershipFollowsAsync, Past
<1>14. QED
  BY <1>3, <1>4, <1>5, <1>6, <1>7, <1>8, <1>9, <1>10, <1>11, <1>12, <1>13
     DEF Next, SystemCall, CallStep

\* OwnershipFollowsAsync: the bridge owns CRAM0 during an async DMA and the CPU
\* during the copy after it, if callers keep blocking reads and save windows
\* apart from them; the host may be late or silent.
THEOREM OwnershipFollowsAsyncHolds ==
  ASSUME Overlaps \subseteq {"slow-host"}
  PROVE  Spec => []OwnershipFollowsAsync
<1>1. IFirm /\ IOwner /\ [Next]_vars => (IFirm /\ IOwner)'
  BY FirmStep, OwnerStep
<1>2. IOwner => OwnershipFollowsAsync
  BY DEF IOwner
<1>3. QED
  BY <1>1, <1>2, FirmInit, OwnerInit, PTL DEF Spec

-----------------------------------------------------------------------------
(***************************************************************************)
(* The engine while no command is issued over another.                     *)
(***************************************************************************)

LEMMA WitnessInit == DSInit => IWitness
BY DEF DSInit, IWitness, Pending, Executing

LEMMA WitnessStep ==
  ASSUME IInv, IWitness, DSTypeOK', [CleanNext]_dsVars
  PROVE  IWitness'
<1>a. FlagsOK /\ DataOK /\ FlagsOK' /\ DataOK' /\ ICommand
  BY Zenon DEF IInv, DSTypeOK, FlagsOK, DataOK
<1>b. Cmds \subseteq {"read", "write", "openfile", "getfile"}
  BY CmdsAssumption DEF AllCmds
<1> USE <1>a, <1>b
    DEF engine, cross, bridge, host, Current, FlagsOK, DataOK, Pending,
        Executing, RtrPhase, ICommand, IAck, IRtr, IPending, IExec, IStale,
        IFinished, IDrain, IDone, IWitness
<1>1. ASSUME NEW c \in Cmds, NEW p \in Params, Accept(c, p), line = {}
      PROVE  IWitness'
  <2>1. /\ cmdActive' /\ ~doneLat' /\ ~irqPend' /\ line' = {c} /\ cmd' = c
        /\ ackSeenLow' /\ ~ackS' /\ queue' = queue \cup {c}
        /\ UNCHANGED <<tstate, status, tcmd, ack>>
    BY <1>1 DEF Accept, RequestEdge, Accepts
  <2>2. Pending' # {}
    BY <1>1, <2>1
  <2>3. QED
    BY <2>1, <2>2
<1>2. CASE ClearIrq
  BY <1>2, SMTT(60) DEF ClearIrq, W1C
<1>3. CASE SyncAck
  <2>1. ackSeenLow' /\ (doneLat' => ackLat') /\ (irqPend' => doneLat')
    BY <1>3 DEF SyncAck, Latch
  <2>2. line' \in {{}, {cmd'}}
    BY <1>3 DEF SyncAck, Latch
  <2>3. cmdActive' => /\ ackS' => line' = {}
                      /\ line' = {} => ackLat'
    BY <1>3 DEF SyncAck, Latch
  <2>4. cmdActive' /\ Pending' = {} /\ ~Executing' => line' = {}
    BY <1>3 DEF SyncAck, Latch
  <2>5. ~cmdActive' => line' = {} /\ ~wrBusy'
    BY <1>3 DEF SyncAck, Latch
  <2>6. Executing' /\ tstate' = "wait" /\ status' = "bu" => ack'
    BY <1>3 DEF SyncAck
  <2>7. QED
    BY <2>1, <2>2, <2>3, <2>4, <2>5, <2>6
<1>4. CASE SyncDone
  <2>1. ackSeenLow' /\ (doneLat' => ackLat') /\ (irqPend' => doneLat')
    BY <1>4 DEF SyncDone, Latch
  <2>2. line' \in {{}, {cmd'}}
    BY <1>4 DEF SyncDone, Latch
  <2>3. cmdActive' => /\ ackS' => line' = {}
                      /\ line' = {} => ackLat'
    BY <1>4 DEF SyncDone, Latch
  <2>4. cmdActive' /\ Pending' = {} /\ ~Executing' => line' = {}
    BY <1>4 DEF SyncDone, Latch
  <2>5. ~cmdActive' => line' = {} /\ ~wrBusy'
    BY <1>4 DEF SyncDone, Latch
  <2>6. Executing' /\ tstate' = "wait" /\ status' = "bu" => ack'
    BY <1>4 DEF SyncDone
  <2>7. QED
    BY <2>1, <2>2, <2>3, <2>4, <2>5, <2>6
<1>5. CASE QuietReached
  BY <1>5, SMTT(60) DEF QuietReached, PromptBridge, WrIdle
<1>6. ASSUME NEW c \in Cmds \cup {"rtr"}, Pop(c)
      PROVE  IWitness'
  BY <1>6, SMTT(60) DEF Pop, Before
<1>7. CASE DropAck
  BY <1>7, SMTT(60) DEF DropAck
<1>8. CASE Present
  BY <1>8, SMTT(60) DEF Present
<1>9. CASE HostBusy
  BY <1>9, SMTT(60) DEF HostBusy
<1>10. CASE HostData
  BY <1>10, SMTT(60) DEF HostData
<1>11. CASE Drain
  BY <1>11, SMTT(60) DEF Drain
<1>12. ASSUME NEW e \in BOOLEAN, HostOk(e)
       PROVE  IWitness'
  BY <1>12, SMTT(60) DEF HostOk, SpacedHost
<1>13. CASE UNCHANGED dsVars
  BY <1>13, SMTT(60) DEF dsVars
<1>14. QED
  BY <1>1, <1>2, <1>3, <1>4, <1>5, <1>6, <1>7, <1>8, <1>9, <1>10, <1>11,
     <1>12, <1>13 DEF CleanNext, Hardware, Host

\* The command path and what firmware knows of it.
Contract == IFirm /\ IOwner /\ ICommand /\ IWitness /\ ICommands /\ IData

\* When no one waits for a command, the command path is idle.
LEMMA NobodyWaits ==
  ASSUME Contract, ~InFlight, pc \notin {"issued", "wait"}
  PROVE  /\ ~cmdActive /\ line = {} /\ Pending = {} /\ ~Executing
         /\ ~wrBusy /\ fifo = None
<1>1. ~cmdActive
  BY DEF Contract, ICommands
<1>2. line = {} /\ ~wrBusy
  BY <1>1 DEF Contract, IWitness
<1>3. Pending = {} /\ ~Executing
  BY <1>1 DEF Contract, ICommand, IPending, IExec
<1>4. fifo = None
  BY <1>2 DEF Contract, IData
<1>5. QED
  BY <1>1, <1>2, <1>3, <1>4

\* The states in which firmware issues a command.
LEMMA IssueIsIdle ==
  ASSUME Contract, pc \in {"areq", "quiet", "getfile"}
  PROVE  ~InFlight
BY DEF Contract, IFirm, IAsync, IOp, GateSerialises, InFlight

\* The retry of a command that was accepted is ignored.
LEMMA RetryIgnored ==
  ASSUME Contract, pc = "issued", ~Evidence
  PROVE  ~Accepts
<1>1. op.kind # "getfile" /\ ~ackLat
  BY DEF Contract, ICommands, Evidence
<1>2. cmd = "read" /\ cmdActive
  <2>1. op.kind \in {"async", "read", "primer"}
    BY <1>1 DEF Contract, IFirm, IOp
  <2>2. op.kind = "async" => InFlight
    BY DEF Contract, IFirm, IAsync
  <2>3. cmd = "read" /\ (cmdActive \/ doneLat)
    BY <2>1, <2>2 DEF Contract, ICommands, Reading, Sole
  <2>4. QED
    BY <1>1, <2>3 DEF Contract, IWitness
<1>3. line = {"read"}
  BY <1>1, <1>2 DEF Contract, IWitness
<1>4. QED
  BY <1>3 DEF Accepts

\* Firmware issues a command only when the one before it has ended, and a
\* getfile after a read has put its parameters across.
LEMMA AcceptIsClean ==
  ASSUME Contract, FwAccept
  PROVE  /\ pc \in {"areq", "quiet", "getfile"} /\ ~InFlight /\ line = {}
         /\ pc = "getfile" => bparam = op.req
<1>1. ~(Retry /\ Accept(OpCmd, op.req))
  BY RetryIgnored DEF Retry, Accept
<1>2. pc \in {"areq", "quiet", "getfile"}
  BY <1>1 DEF FwAccept, AsyncIssue, SyncIssue, GetFileIssue
<1>3. ~InFlight
  BY <1>2, IssueIsIdle
<1>4. line = {}
  BY <1>2, <1>3, NobodyWaits
<1>5. pc = "getfile" => bparam = op.req
  BY DEF Contract, IFirm, IOp, ICommands, Past
<1>6. QED
  BY <1>2, <1>3, <1>4, <1>5

LEMMA CleanStep ==
  ASSUME Contract, [Next]_vars
  PROVE  [CleanNext]_dsVars
<1>1. IFirm
  BY DEF Contract
<1>2. CASE FwAccept
  <2>1. /\ pc \in {"areq", "quiet", "getfile"} /\ line = {}
        /\ pc = "getfile" => bparam = op.req
    BY <1>2, AcceptIsClean
  <2>2. /\ op.req \in Params /\ "read" \in Cmds
        /\ pc = "getfile" => "getfile" \in Cmds
    BY <1>1, <2>1, RequestAssumption DEF IFirm, IOp, Issuing
  <2>3. Accept("read", op.req) \/ (pc = "getfile" /\ Accept("getfile", op.req))
    <3>1. CASE AsyncIssue \/ GetFileIssue
      BY <1>2, <2>1, <3>1
         DEF FwAccept, AsyncIssue, GetFileIssue, Retry, SyncIssue
    <3>2. CASE SyncIssue
      <4>1. OpCmd = "read"
        BY <1>1, <3>2 DEF SyncIssue, IFirm, IOp, OpCmd
      <4>2. QED
        BY <1>2, <3>2, <4>1
           DEF FwAccept, AsyncIssue, GetFileIssue, Retry, SyncIssue
    <3>3. QED
      BY <1>2, <2>1, <3>1, <3>2 DEF FwAccept, Retry
  <2>4. QED
    BY <2>1, <2>2, <2>3 DEF CleanNext
<1>3. CASE [ClearIrq \/ Hardware \/ Host]_dsVars
  BY <1>3 DEF CleanNext
<1>4. QED
  BY <1>1, <1>2, <1>3, PathStep

\* The command path keeps its invariants.
LEMMA ContractPath ==
  ASSUME Contract, [Next]_vars
  PROVE  IFirm' /\ ICommand' /\ IWitness'
<1>1. [CleanNext]_dsVars /\ [CleanNext \/ Reset]_dsVars
  BY CleanStep
<1>2. IFirm' /\ DSTypeOK' /\ DSTypeOK
  BY FirmStep, FirmSplit, PTL DEF Contract
<1>3. IInv
  BY <1>2 DEF IInv, Contract
<1>4. ICommand' /\ IWitness'
  BY <1>1, <1>2, <1>3, CommandStep, WitnessStep DEF Contract
<1>5. QED
  BY <1>2, <1>4

-----------------------------------------------------------------------------
(***************************************************************************)
(* The steps of hardware and host.                                         *)
(***************************************************************************)

\* A command goes from in progress to done, and its data is not taken back.
LEMMA EngineMoves ==
  ASSUME Contract, [ClearIrq \/ Hardware \/ Host]_dsVars
  PROVE  /\ UNCHANGED <<cmd, target, bparam>> /\ (cmdActive' => cmdActive)
         /\ cmdActive \/ doneLat => cmdActive' \/ doneLat'
         /\ doneLat => doneLat' /\ errLat' = errLat /\ (~ackS => ~ackS')
<1>1. DSTypeOK /\ ICommand /\ IWitness
  BY FirmSplit DEF Contract
<1>2. FlagsOK /\ IAck /\ IDone
  BY <1>1, Zenon DEF DSTypeOK, FlagsOK, ICommand
<1> USE <1>2 DEF FlagsOK, engine, cross, bridge, host, IAck, IDone
<1>3. CASE SyncAck
  BY <1>3 DEF SyncAck, Latch
<1>4. CASE SyncDone
  BY <1>4 DEF SyncDone, Latch
<1>5. CASE ClearIrq \/ UNCHANGED dsVars
  BY <1>5 DEF ClearIrq, W1C, dsVars
<1>6. CASE QuietReached \/ DropAck \/ Present
  BY <1>6 DEF QuietReached, DropAck, Present
<1>7. ASSUME NEW c \in Cmds \cup {"rtr"}, Pop(c)
      PROVE  UNCHANGED <<engine, ackS, bparam>>
  BY <1>7 DEF Pop
<1>8. CASE HostBusy \/ HostData \/ Drain
  BY <1>8 DEF HostBusy, HostData, Drain
<1>9. ASSUME NEW e \in BOOLEAN, HostOk(e)
      PROVE  UNCHANGED <<engine, ackS, bparam>>
  BY <1>9 DEF HostOk
<1>10. QED
  BY <1>3, <1>4, <1>5, <1>6, <1>7, <1>8, <1>9 DEF Hardware, Host

\* Nothing but the host's own move makes a command's data delivered.
LEMMA DeliveryGrows ==
  ASSUME Contract, [ClearIrq \/ Hardware \/ Host]_dsVars, ~HostData
  PROVE  Delivered' => Delivered
<1>1. DSTypeOK /\ ICommand /\ IWitness
  BY FirmSplit DEF Contract
<1>2. FlagsOK /\ IAck /\ IDone /\ IRtr /\ IStale /\ IExec
  BY <1>1, Zenon DEF DSTypeOK, FlagsOK, ICommand
<1>3. Cmds \subseteq AllCmds
  BY CmdsAssumption
<1> USE <1>2, <1>3
    DEF FlagsOK, engine, cross, bridge, host, IDone, IRtr, IStale, IExec,
        Delivered, Pending, Executing, RtrPhase, AllCmds
<1>4. CASE SyncAck
  BY <1>4 DEF SyncAck, Latch
<1>5. CASE SyncDone
  BY <1>5 DEF SyncDone, Latch
<1>6. CASE ClearIrq \/ UNCHANGED dsVars
  BY <1>6 DEF ClearIrq, W1C, dsVars
<1>7. CASE QuietReached \/ DropAck
  BY <1>7 DEF QuietReached, DropAck
<1>8. CASE Present
  BY <1>8 DEF Present
<1>9. ASSUME NEW c \in Cmds \cup {"rtr"}, Pop(c)
      PROVE  Delivered' => Delivered
  BY <1>9 DEF Pop
<1>10. CASE HostBusy \/ Drain
  BY <1>10 DEF HostBusy, Drain
<1>11. ASSUME NEW e \in BOOLEAN, HostOk(e)
       PROVE  Delivered' => Delivered
  BY <1>11 DEF HostOk
<1>12. QED
  BY <1>4, <1>5, <1>6, <1>7, <1>8, <1>9, <1>10, <1>11 DEF Hardware, Host

\* What hardware and host do to the window a command's data goes to.
LEMMA DataMoves ==
  ASSUME Contract, HardwareStep \/ HostStep
  PROVE  /\ UNCHANGED <<fwVars, mode>>
         /\ [ClearIrq \/ Hardware \/ Host]_dsVars
         /\ \/ UNCHANGED <<fifo, win, wrBusy>> /\ ~HostData
            \/ /\ HostData /\ wrBusy' /\ UNCHANGED win
               /\ Executing /\ tcmd = Current /\ cmdActive
               /\ cmd = "read" => fifo' = target
               /\ fifo' \in {fifo, target}
            \/ /\ ~HostData /\ wrBusy /\ ~wrBusy' /\ fifo' = None
               /\ win' = IF fifo = None THEN win
                         ELSE [win EXCEPT ![Window(fifo)] = fifo]
<1>1. UNCHANGED <<fwVars, mode>> /\ [ClearIrq \/ Hardware \/ Host]_dsVars
  BY DEF HardwareStep, HostStep, MuxDrain, MuxHostData, muxVars, Host
<1>2. CASE MuxHostData
  <2>1. Executing /\ HostData /\ wrBusy' /\ UNCHANGED win /\ ~sent
    BY <1>2 DEF MuxHostData, HostData, Executing
  <2>2. tcmd = Current /\ cmdActive
    BY <2>1 DEF Contract, ICommand, IExec
  <2>3. mode = "bridge"
    <3>1. InFlight \/ pc \in {"issued", "wait"}
      BY <2>2 DEF Contract, ICommands
    <3>2. QED
      BY <3>1 DEF Contract, IOwner, Past, OwnershipFollowsAsync, InFlight
  <2>4. QED
    BY <1>1, <1>2, <2>1, <2>2, <2>3 DEF MuxHostData, Current
<1>3. CASE MuxDrain
  BY <1>1, <1>3 DEF MuxDrain, Drain, HostData
<1>4. CASE ~MuxHostData /\ ~MuxDrain
  <2>1. UNCHANGED <<fifo, win, wrBusy>>
    <3>1. UNCHANGED <<fifo, win>>
      BY <1>4 DEF HardwareStep, HostStep, muxVars
    <3>2. UNCHANGED wrBusy
      BY <1>4 DEF HardwareStep, HostStep, Hardware, SyncAck, SyncDone,
         QuietReached, Pop, DropAck, Present, HostBusy, HostOk, host
    <3>3. QED
      BY <3>1, <3>2
  <2>2. ~HostData
    <3>1. UNCHANGED sent \/ sent' = FALSE
      BY <1>4 DEF HardwareStep, HostStep, Hardware, SyncAck, SyncDone,
         QuietReached, Pop, DropAck, Present, HostBusy, HostOk, host
    <3>2. QED
      BY <3>1 DEF HostData
  <2>3. QED
    BY <1>1, <2>1, <2>2
<1>5. QED
  BY <1>2, <1>3, <1>4

\* Window(p) for the requests firmware waits for.
LEMMA WindowsOf ==
  /\ \A p \in Params : Window(p) \in Windows
  /\ \A p \in SyncReqs : Window(p) = "scratch"
  /\ \A p \in AsyncReqs \ DirectReqs : Window(p) = "bounce"
BY RequestAssumption DEF Window, Windows

LEMMA HardwareCommands ==
  ASSUME Contract, HardwareStep \/ HostStep
  PROVE  ICommands'
<1>1. UNCHANGED fwVars /\ [ClearIrq \/ Hardware \/ Host]_dsVars
  BY DataMoves
<1>2. /\ UNCHANGED <<cmd, target, bparam>> /\ (cmdActive' => cmdActive)
      /\ cmdActive \/ doneLat => cmdActive' \/ doneLat'
      /\ doneLat => doneLat' /\ errLat' = errLat /\ (~ackS => ~ackS')
  BY <1>1, EngineMoves
<1>3. UNCHANGED <<async, pc, op>>
  BY <1>1 DEF fwVars
<1>4. ICommands
  BY DEF Contract
<1>5. QED
  BY <1>2, <1>3, <1>4
     DEF ICommands, InFlight, Reading, Naming, Past, Sole

LEMMA HardwareData ==
  ASSUME Contract, HardwareStep \/ HostStep
  PROVE  IData'
<1>1. /\ UNCHANGED <<fwVars, mode>>
      /\ [ClearIrq \/ Hardware \/ Host]_dsVars
      /\ \/ UNCHANGED <<fifo, win, wrBusy>> /\ ~HostData
         \/ /\ HostData /\ wrBusy' /\ UNCHANGED win
            /\ Executing /\ tcmd = Current /\ cmdActive
            /\ cmd = "read" => fifo' = target
            /\ fifo' \in {fifo, target}
         \/ /\ ~HostData /\ wrBusy /\ ~wrBusy' /\ fifo' = None
            /\ win' = IF fifo = None THEN win
                      ELSE [win EXCEPT ![Window(fifo)] = fifo]
  BY DataMoves
<1>2. UNCHANGED <<cmd, target, bparam>>
  BY <1>1, EngineMoves
<1>3. UNCHANGED <<async, pc, op>>
  BY <1>1 DEF fwVars
<1>4. /\ fifo # None => wrBusy /\ fifo = target
      /\ (InFlight \/ Reading) /\ Delivered => Landed
      /\ Naming \/ pc = "getfile" => win["scratch"] \in {None, op.req}
      /\ async.copying => /\ win["bounce"] = async.req
                          /\ async.req \notin DirectReqs
                          /\ async.slice = 1 => async.data = async.req
  BY DEF Contract, IData
<1>5. /\ target \in Params /\ None \notin Params
      /\ win \in [Windows -> Params \cup {None}]
  BY RequestAssumption DEF Contract, IFirm, TypeOK, DSTypeOK
<1>6. CASE UNCHANGED <<fifo, win, wrBusy>> /\ ~HostData
  <2>1. Delivered' => Delivered
    BY <1>1, <1>6, DeliveryGrows
  <2>2. Landed' <=> Landed
    BY <1>2, <1>6 DEF Landed
  <2>3. QED
    BY <1>2, <1>3, <1>4, <1>6, <2>1, <2>2
       DEF IData, InFlight, Reading, Naming
<1>7. CASE /\ HostData /\ wrBusy' /\ UNCHANGED win
           /\ Executing /\ tcmd = Current /\ cmdActive
           /\ cmd = "read" => fifo' = target
           /\ fifo' \in {fifo, target}
  <2>1. fifo' # None => wrBusy' /\ fifo' = target'
    BY <1>2, <1>4, <1>7
  <2>2. InFlight \/ Reading => Landed'
    <3>1. InFlight \/ Reading => cmd = "read"
      BY DEF Contract, ICommands, Sole
    <3>2. QED
      BY <1>2, <1>7, <3>1 DEF Landed
  <2>3. QED
    BY <1>3, <1>4, <1>7, <2>1, <2>2 DEF IData, InFlight, Reading, Naming
<1>8. CASE /\ ~HostData /\ wrBusy /\ ~wrBusy' /\ fifo' = None
           /\ win' = IF fifo = None THEN win
                     ELSE [win EXCEPT ![Window(fifo)] = fifo]
  <2>1. Delivered' => Delivered
    BY <1>1, <1>8, DeliveryGrows
  <2>2. Landed => Landed'
    BY <1>2, <1>4, <1>5, <1>8, WindowsOf DEF Landed
  <2>3. Naming \/ pc = "getfile" => win'["scratch"] \in {None, op.req}
    <3>1. CASE fifo = None
      BY <1>4, <1>8, <3>1
    <3>2. CASE fifo # None
      <4>1. cmdActive /\ fifo = target
        BY <1>4, <1>8, <3>2 DEF Contract, IWitness
      <4>2. ~doneLat
        BY <4>1 DEF Contract, ICommand, IDone
      <4>3. pc # "getfile" /\ (Naming => target = op.req)
        BY <4>2 DEF Contract, ICommands, Sole
      <4>4. Naming => op.req \in SyncReqs
        BY DEF Naming, Contract, IFirm, IOp, Issuing
      <4>5. QED
        BY <1>5, <1>8, <3>2, <4>1, <4>3, <4>4, WindowsOf DEF Windows
    <3>3. QED
      BY <3>1, <3>2
  <2>4. async.copying => UNCHANGED win
    <3>1. async.copying => ~InFlight /\ pc \notin {"issued", "wait"}
      BY DEF InFlight, Contract, IFirm, IOp, IAsync, GateSerialises
    <3>2. async.copying => ~wrBusy
      BY <3>1, NobodyWaits
    <3>3. QED
      BY <1>8, <3>2
  <2>5. QED
    BY <1>3, <1>4, <1>8, <2>1, <2>2, <2>3, <2>4
       DEF IData, InFlight, Reading, Naming
<1>9. QED
  BY <1>1, <1>6, <1>7, <1>8

-----------------------------------------------------------------------------
(***************************************************************************)
(* The steps of firmware.                                                  *)
(***************************************************************************)

\* The command path stays as it is, but for the pending interrupt.
Calm == UNCHANGED <<cmd, target, cmdActive, doneLat, errLat, ackS, ackLat,
                    bparam, queue, tstate, tcmd, err, sent, wrBusy>>

LEMMA CalmSteps ==
  ASSUME W1C \/ UNCHANGED dsVars
  PROVE  Calm /\ (Delivered' <=> Delivered)
BY DEF W1C, dsVars, engine, cross, bridge, host, Calm, Delivered, Pending,
       Executing

\* The data of a command that is done has landed.
LEMMA DoneHasLanded ==
  ASSUME Contract, InFlight \/ Reading, doneLat, ~errLat
  PROVE  win[Window(target)] = target
<1>1. fifo = target \/ win[Window(target)] = target
  BY DEF Contract, IData, Delivered, Landed
<1>2. ~wrBusy
  BY DEF Contract, ICommand, IDone
<1>3. fifo = None
  BY <1>2 DEF Contract, IData
<1>4. target # None
  BY RequestAssumption DEF Contract, IFirm, TypeOK, DSTypeOK
<1>5. QED
  BY <1>1, <1>3, <1>4

\* What becomes of an async read: nothing, its copy is put off, it is delivered,
\* or half of it is copied.
AsyncMove ==
    \/ UNCHANGED <<async, asyncRes>>
    \/ /\ InFlight /\ doneLat /\ ~errLat /\ async.req \notin DirectReqs
       /\ async' = [async EXCEPT !.copying = TRUE] /\ UNCHANGED asyncRes
    \/ /\ async.active /\ (InFlight => doneLat) /\ async' = NoAsync
       /\ asyncRes' \in Abstract!Outcomes(async.req)
    \/ /\ async.copying /\ UNCHANGED asyncRes
       /\ async' = [async EXCEPT !.slice = 1, !.data = async.req]

\* A read whose command is done is delivered with its own data.
LEMMA CompletionIsOwn ==
  ASSUME Contract, InFlight, doneLat, HandToCpu,
         IF errLat THEN Finalize("err", None)
                   ELSE Finalize("ok", LoadAfter(Window(async.req)))
  PROVE  AsyncMove
<1>1. async.active /\ async' = NoAsync
  BY DEF InFlight, Finalize
<1>2. asyncRes' \in Abstract!Outcomes(async.req)
  <2>1. CASE errLat
    BY <2>1 DEF Finalize, Abstract!Outcomes
  <2>2. CASE ~errLat
    <3>1. target = async.req
      BY DEF Contract, ICommands, Sole
    <3>2. LoadAfter(Window(async.req)) = async.req
      BY <2>2, <3>1, DoneHasLanded DEF HandToCpu, LoadAfter
    <3>3. QED
      BY <2>2, <3>2 DEF Finalize, Abstract!Outcomes
  <2>3. QED
    BY <2>1, <2>2
<1>3. QED
  BY <1>1, <1>2 DEF AsyncMove

\* A pending copy is delivered with its own data.
LEMMA CopyIsOwn ==
  ASSUME Contract, async.copying
  PROVE  /\ Load("bounce") = async.req /\ ~InFlight
         /\ CopyRest => AsyncMove
<1>1. async.active
  BY DEF Contract, IFirm, IAsync
<1>2. mode = "cpu"
  BY <1>1 DEF Contract, IOwner, OwnershipFollowsAsync
<1>3. Load("bounce") = async.req
  BY <1>2 DEF Load, Contract, IData
<1>4. Copied(Load("bounce")) = async.req
  <2>1. async.slice \in 0..1
    BY DEF Contract, IFirm, TypeOK
  <2>2. QED
    BY <1>3, <2>1 DEF Copied, Contract, IData
<1>5. QED
  BY <1>1, <1>3, <1>4
     DEF CopyRest, Finalize, AsyncMove, InFlight, Abstract!Outcomes

LEMMA AppAsync ==
  ASSUME Overlaps = {}, Contract, DataSlotIrq \/ Tick \/ Poll
  PROVE  /\ AsyncMove /\ Calm /\ (Delivered' <=> Delivered)
         /\ UNCHANGED <<fifo, win, pc, op, syncRes>> /\ pc = "app"
<1>1. /\ UNCHANGED <<fifo, win, pc, op, syncRes>> /\ pc = "app"
      /\ W1C \/ UNCHANGED dsVars
  <2>1. Firm
    BY FirmSplit DEF Contract
  <2>2. W1C \/ UNCHANGED dsVars
    BY DEF DataSlotIrq, Tick, Poll, IrqService, CopySlice, AgeOut
  <2>3. QED
    BY <2>1, <2>2, AppMoves
<1>2. irqPend => doneLat
  BY DEF Contract, IWitness
<1>3. ASSUME InFlight, doneLat, Complete
      PROVE  AsyncMove
  <2>1. CASE ~errLat /\ async.req \notin DirectReqs /\ timer
    BY <1>3, <2>1 DEF Complete, AsyncMove
  <2>2. CASE ~(~errLat /\ async.req \notin DirectReqs /\ timer)
    BY <1>3, <2>2, CompletionIsOwn DEF Complete
  <2>3. QED
    BY <2>1, <2>2
<1>4. ASSUME IrqService
      PROVE  AsyncMove
  BY <1>2, <1>3, <1>4 DEF IrqService, AsyncMove
<1>5. AsyncMove
  <2>1. CASE DataSlotIrq
    BY <1>4, <2>1 DEF DataSlotIrq
  <2>2. CASE Tick
    <3>1. CASE CopySlice
      BY <3>1, CopyIsOwn DEF CopySlice, AsyncMove
    <3>2. CASE IrqService
      BY <1>4, <3>2
    <3>3. CASE InFlight /\ DoneQuiet /\ Complete
      BY <1>3, <3>3 DEF DoneQuiet
    <3>4. QED
      BY <2>2, <3>1, <3>2, <3>3 DEF Tick
  <2>3. CASE Poll
    <3>1. CASE CopyRest
      BY <3>1, CopyIsOwn DEF CopyRest
    <3>2. CASE UNCHANGED <<async, asyncRes>>
      BY <3>2 DEF AsyncMove
    <3>3. CASE /\ InFlight /\ (irqPend \/ DoneQuiet) /\ HandToCpu
               /\ IF errLat THEN Finalize("err", None)
                  ELSE Finalize("ok", LoadAfter(Window(async.req)))
      BY <1>2, <3>3, CompletionIsOwn DEF DoneQuiet
    <3>4. QED
      BY <2>3, <3>1, <3>2, <3>3 DEF Poll
  <2>4. QED
    BY <2>1, <2>2, <2>3
<1>6. QED
  BY <1>1, <1>5, CalmSteps

\* An async read moves only from a command that is done, to what it asked for.
LEMMA AsyncMoveKeeps ==
  ASSUME Contract, AsyncMove
  PROVE  /\ InFlight' => InFlight /\ async'.req = async.req
         /\ cmdActive /\ InFlight => InFlight'
         /\ async'.copying => /\ win["bounce"] = async'.req
                              /\ async'.req \notin DirectReqs
                              /\ async'.slice = 1 => async'.data = async'.req
<1>1. /\ async.copying => /\ win["bounce"] = async.req
                          /\ async.req \notin DirectReqs
                          /\ async.slice = 1 => async.data = async.req
      /\ doneLat => ~cmdActive
      /\ ~async.copying => async.slice = 0
      /\ async.active => async.req \in AsyncReqs
      /\ async \in [active : BOOLEAN, req : AsyncReqs \cup {None},
                    copying : BOOLEAN, slice : 0..1,
                    data : Params \cup {None, Junk}]
  BY DEF Contract, IData, ICommand, IDone, IFirm, IAsync, TypeOK
<1>2. CASE UNCHANGED async
  BY <1>1, <1>2 DEF InFlight
<1>3. CASE /\ InFlight /\ doneLat /\ ~errLat /\ async.req \notin DirectReqs
           /\ async' = [async EXCEPT !.copying = TRUE]
  <2>1. /\ async'.copying = TRUE /\ async'.req = async.req
        /\ async'.slice = 0
    BY <1>1, <1>3 DEF InFlight
  <2>2. win["bounce"] = async.req
    <3>1. target = async.req /\ async.req \in AsyncReqs \ DirectReqs
      BY <1>1, <1>3 DEF Contract, ICommands, Sole, InFlight
    <3>2. QED
      BY <1>3, <3>1, DoneHasLanded, WindowsOf
  <2>3. QED
    BY <1>1, <1>3, <2>1, <2>2 DEF InFlight
<1>4. CASE async.active /\ (InFlight => doneLat) /\ async' = NoAsync
  BY <1>1, <1>4, Emptied DEF InFlight
<1>5. CASE /\ async.copying
           /\ async' = [async EXCEPT !.slice = 1, !.data = async.req]
  <2>1. /\ async'.copying = async.copying /\ async'.req = async.req
        /\ async'.data = async.req
    BY <1>1, <1>5
  <2>2. QED
    BY <1>1, <1>5, <2>1 DEF InFlight
<1>6. QED
  BY <1>2, <1>3, <1>4, <1>5 DEF AsyncMove

\* A step that issues nothing and goes on to no other wait.
LEMMA CalmKeeps ==
  ASSUME Contract, Calm, Delivered' <=> Delivered, AsyncMove, UNCHANGED fifo,
         pc' # "getfile",
         win'["bounce"] = win["bounce"],
         pc' \in {"issued", "wait"} => /\ pc \in {"issued", "wait"}
                                       /\ UNCHANGED <<op, win>>
                                       /\ pc' = "wait",
         InFlight' => UNCHANGED win,
         cmdActive => InFlight' \/ pc' \in {"issued", "wait"}
  PROVE  ICommands' /\ IData'
<1>1. UNCHANGED <<cmd, target, cmdActive, doneLat, errLat, ackS, bparam, fifo,
                  wrBusy>>
  BY DEF Calm
<1>2. /\ InFlight' => InFlight /\ async'.req = async.req
      /\ async'.copying => /\ win["bounce"] = async'.req
                           /\ async'.req \notin DirectReqs
                           /\ async'.slice = 1 => async'.data = async'.req
  BY AsyncMoveKeeps
<1>3. /\ Reading' => Reading /\ UNCHANGED <<op, win>>
      /\ Naming' => Naming /\ UNCHANGED <<op, win>>
  BY DEF Reading, Naming
<1>4. ICommands'
  <2>1. ICommands /\ ~(pc' \in {"issued", "getfile"})
    BY DEF Contract
  <2>2. InFlight' => Sole("read", async.req)'
    BY <1>1, <1>2, <2>1 DEF ICommands, Sole
  <2>3. Reading' => Sole("read", op.req)'
    BY <1>1, <1>3, <2>1 DEF ICommands, Sole
  <2>4. Naming' => Sole("getfile", op.req)' \/ (doneLat' /\ errLat')
    BY <1>1, <1>3, <2>1 DEF ICommands, Sole
  <2>5. pc' \in Past /\ op'.kind \in {"primer", "getfile"} /\ pc' # "quiet"
          => bparam' = op'.req
    BY <1>1, <2>1 DEF ICommands, Past
  <2>6. QED
    BY <1>1, <2>1, <2>2, <2>3, <2>4, <2>5 DEF ICommands
<1>5. IData'
  <2>1. IData
    BY DEF Contract
  <2>2. (InFlight' \/ Reading') /\ Delivered' => Landed'
    <3>1. (InFlight' \/ Reading') => (InFlight \/ Reading) /\ UNCHANGED win
      BY <1>2, <1>3
    <3>2. UNCHANGED win => (Landed' <=> Landed)
      BY <1>1 DEF Landed
    <3>3. QED
      BY <2>1, <3>1, <3>2 DEF IData
  <2>3. Naming' \/ pc' = "getfile" => win'["scratch"] \in {None, op'.req}
    BY <1>3, <2>1 DEF IData
  <2>4. fifo' # None => wrBusy' /\ fifo' = target'
    BY <1>1, <2>1 DEF IData
  <2>5. QED
    BY <1>2, <2>2, <2>3, <2>4 DEF IData
<1>6. QED
  BY <1>4, <1>5

LEMMA CallsContract ==
  ASSUME Overlaps = {}, Contract, SystemCall \/ DataSlotIrq \/ Tick \/ NvEnd
  PROVE  ICommands' /\ IData' /\ AsyncMove /\ UNCHANGED syncRes
<1>1. cmdActive => InFlight \/ pc \in {"issued", "wait"}
  BY DEF Contract, ICommands
<1>2. CASE DataSlotIrq \/ Tick \/ Poll
  <2>1. /\ AsyncMove /\ Calm /\ (Delivered' <=> Delivered)
        /\ UNCHANGED <<fifo, win, pc, op, syncRes>> /\ pc = "app"
    BY <1>2, AppAsync
  <2>2. cmdActive /\ InFlight => InFlight'
    BY <2>1, AsyncMoveKeeps
  <2>3. QED
    BY <1>1, <2>1, <2>2, CalmKeeps
<1>3. ASSUME NEW r \in AsyncReqs, ReadAsync(r)
      PROVE  ICommands' /\ IData' /\ AsyncMove /\ UNCHANGED syncRes
  <2>1. /\ UNCHANGED <<fifo, win, syncRes>> /\ pc = "app" /\ pc' = "areq"
        /\ UNCHANGED dsVars
    BY <1>3 DEF ReadAsync, muxVars
  <2>2. ~InFlight
    BY <1>3, CopyIsOwn DEF ReadAsync, CopyRest, InFlight
  <2>3. AsyncMove
    BY <1>3, CopyIsOwn DEF ReadAsync, CopyRest, AsyncMove
  <2>4. QED
    BY <1>1, <2>1, <2>2, <2>3, CalmSteps, CalmKeeps
<1>4. CASE \/ \E k \in SyncKinds, r \in SyncReqs : SyncBegin(k, r)
           \/ SetTimer \/ SaveOpen \/ SaveClose \/ NvBegin \/ NvEnd
  <2>1. /\ UNCHANGED <<fifo, win, syncRes, async, asyncRes, dsVars>>
        /\ pc \in {"app", "nv"} /\ pc' \in {"app", "gate", "nv"}
    BY <1>4 DEF SyncBegin, SetTimer, SaveOpen, SaveClose, NvBegin, NvEnd,
       SaveBegin, SaveEnd, muxVars
  <2>2. AsyncMove /\ (InFlight' <=> InFlight)
    BY <2>1 DEF AsyncMove, InFlight
  <2>3. QED
    BY <1>1, <2>1, <2>2, CalmSteps, CalmKeeps
<1>5. QED
  BY <1>2, <1>3, <1>4 DEF SystemCall

\* A command that is accepted is the one firmware waits for.
LEMMA AcceptContract ==
  ASSUME Contract, pc \in {"areq", "quiet", "getfile"}, NEW c,
         c = IF pc = "getfile" THEN "getfile" ELSE "read",
         Accept(c, op.req), UNCHANGED <<fifo, win>>, pc' = "issued", Probe,
         IF pc = "areq"
         THEN async' = [NoAsync EXCEPT !.active = TRUE, !.req = op.req]
         ELSE UNCHANGED async
  PROVE  ICommands' /\ IData'
<1>1. /\ ~InFlight /\ line = {} /\ Pending = {} /\ ~Executing
      /\ ~wrBusy /\ fifo = None
  BY IssueIsIdle, NobodyWaits
<1>2. /\ op'.req = op.req /\ op'.kind = op.kind /\ op'.pre = ackLat
      /\ op.kind = "async" <=> pc = "areq"
      /\ op.kind = "getfile" <=> pc = "getfile"
  BY DEF Probe, Contract, IFirm, IOp
<1>3. /\ cmd' = c /\ target' = op.req /\ cmdActive' = TRUE /\ ~doneLat'
      /\ queue' = queue \cup {c} /\ UNCHANGED <<tstate, tcmd, wrBusy, host>>
      /\ bparam' = IF c = "getfile" THEN bparam ELSE op.req
  BY <1>1 DEF Accept, RequestEdge, host
<1>4. c \in {"read", "getfile"} /\ c # "rtr"
  OBVIOUS
<1>5. ~async'.copying /\ (InFlight' => pc = "areq" /\ async'.req = op.req)
  <2>1. CASE pc = "areq"
    BY <2>1 DEF NoAsync
  <2>2. CASE pc # "areq"
    <3>1. ~async.active
      BY <1>2, <2>2 DEF Contract, IFirm, IAsync, GateSerialises
    <3>2. ~async.copying
      BY <3>1 DEF Contract, IFirm, IAsync
    <3>3. QED
      BY <2>2, <3>1, <3>2 DEF InFlight
  <2>3. QED
    BY <2>1, <2>2
<1>6. ICommands'
  <2>1. InFlight' => Sole("read", async.req)'
    BY <1>3, <1>5 DEF Sole
  <2>2. Reading' => Sole("read", op.req)'
    BY <1>2, <1>3 DEF Sole, Reading
  <2>3. Naming' => Sole("getfile", op.req)'
    BY <1>2, <1>3 DEF Sole, Naming
  <2>4. op'.kind = "getfile" => op'.pre
    BY <1>2 DEF Contract, ICommands, IWitness
  <2>5. op'.kind \in {"primer", "getfile"} => bparam' = op'.req
    BY <1>2, <1>3 DEF Contract, ICommands, Past
  <2>6. QED
    BY <2>1, <2>2, <2>3, <2>4, <2>5 DEF ICommands
<1>7. IData'
  <2>1. Pending' # {} /\ ~Executing'
    BY <1>1, <1>3, <1>4 DEF Pending, Executing
  <2>2. ~Delivered'
    BY <1>3, <2>1 DEF Delivered, Executing
  <2>3. Naming' => win'["scratch"] \in {None, op'.req}
    BY <1>2 DEF Naming, Contract, IData
  <2>4. QED
    BY <1>1, <1>5, <2>2, <2>3 DEF IData
<1>8. QED
  BY <1>6, <1>7

LEMMA IssuesContract ==
  ASSUME Contract, AsyncIssue \/ SyncIssue \/ GetFileIssue
  PROVE  /\ ICommands' /\ IData' /\ UNCHANGED syncRes
         /\ AsyncMove \/ (/\ ~async.active /\ async'.active
                          /\ async'.req = op.req /\ op.req \in AsyncReqs
                          /\ UNCHANGED asyncRes)
<1>1. /\ ~InFlight /\ line = {} /\ ~cmdActive
      /\ pc \in {"areq", "quiet", "getfile"}
  <2>1. pc \in {"areq", "quiet", "getfile"}
    BY DEF AsyncIssue, SyncIssue, GetFileIssue
  <2>2. QED
    BY <2>1, IssueIsIdle, NobodyWaits
<1>2. Accepts <=> Ready
  BY <1>1 DEF Accepts, Ready
<1>3. UNCHANGED <<fifo, win, syncRes, asyncRes>>
  BY DEF AsyncIssue, SyncIssue, GetFileIssue
<1>4. CASE AsyncIssue /\ Ready /\ WrIdle
  <2>1. /\ pc = "areq" /\ pc' = "issued" /\ Probe /\ Accept("read", op.req)
        /\ async' = [NoAsync EXCEPT !.active = TRUE, !.req = op.req]
    BY <1>2, <1>4 DEF AsyncIssue
  <2>2. /\ async'.active /\ async'.req = op.req /\ ~async.active
        /\ op.req \in AsyncReqs
    BY <2>1 DEF NoAsync, Contract, IFirm, IAsync, IOp, Issuing
  <2>3. ICommands' /\ IData'
    BY <1>3, <2>1, AcceptContract
  <2>4. QED
    BY <1>3, <2>2, <2>3
<1>5. CASE AsyncIssue /\ ~(Ready /\ WrIdle)
  <2>1. pc' = "app" /\ UNCHANGED <<dsVars, async>>
    BY <1>5 DEF AsyncIssue
  <2>2. AsyncMove
    BY <1>3, <2>1 DEF AsyncMove
  <2>3. QED
    BY <1>1, <1>3, <2>1, <2>2, CalmSteps, CalmKeeps
<1>6. CASE SyncIssue
  <2>1. /\ pc = "quiet" /\ pc' = "issued" /\ Probe /\ UNCHANGED async
        /\ Ready /\ Issue(OpCmd, op.req)
    BY <1>6 DEF SyncIssue
  <2>2. OpCmd = "read"
    BY <2>1 DEF OpCmd, Contract, IFirm, IOp
  <2>3. Accept("read", op.req)
    BY <1>2, <2>1, <2>2 DEF Issue
  <2>4. ICommands' /\ IData'
    BY <1>3, <2>1, <2>3, AcceptContract
  <2>5. QED
    BY <1>3, <2>1, <2>4 DEF AsyncMove
<1>7. CASE GetFileIssue
  <2>1. /\ pc = "getfile" /\ pc' = "issued" /\ Probe /\ UNCHANGED async
        /\ Issue("getfile", op.req)
    BY <1>7 DEF GetFileIssue
  <2>2. CASE Ready
    <3>1. Accept("getfile", op.req)
      BY <1>2, <2>1, <2>2 DEF Issue
    <3>2. ICommands' /\ IData'
      BY <1>3, <2>1, <3>1, AcceptContract
    <3>3. QED
      BY <1>3, <2>1, <3>2 DEF AsyncMove
  <2>3. CASE ~Ready
    <3>1. UNCHANGED dsVars
      BY <1>2, <2>1, <2>3 DEF Issue, Accept
    <3>2. /\ UNCHANGED <<cmd, target, cmdActive, doneLat, errLat, ackS, bparam,
                         wrBusy>>
          /\ Delivered' <=> Delivered
      BY <3>1, CalmSteps DEF Calm
    <3>3. doneLat /\ errLat /\ ackLat
      BY <2>1, <2>3 DEF Ready, Contract, ICommands, IWitness
    <3>4. /\ op'.req = op.req /\ op'.kind = "getfile" /\ op'.pre = ackLat
          /\ op.kind = "getfile"
      BY <2>1 DEF Probe, Contract, IFirm, IOp
    <3>5. ~InFlight' /\ ~Reading'
      BY <1>1, <2>1, <3>4 DEF InFlight, Reading
    <3>6. ICommands'
      BY <2>1, <3>2, <3>3, <3>4, <3>5 DEF Contract, ICommands, Past
    <3>7. IData'
      BY <1>3, <2>1, <3>2, <3>4, <3>5 DEF Contract, IData
    <3>8. QED
      BY <1>3, <2>1, <3>6, <3>7 DEF AsyncMove
  <2>4. QED
    BY <2>2, <2>3
<1>8. QED
  BY <1>4, <1>5, <1>6, <1>7

LEMMA ProceedContract ==
  ASSUME Contract, Proceed \/ Retry
  PROVE  ICommands' /\ IData' /\ AsyncMove /\ UNCHANGED syncRes
<1>1. /\ pc = "issued" /\ pc' = AfterIssue
      /\ UNCHANGED <<fifo, win, async, asyncRes, op, syncRes>>
  BY DEF Proceed, Retry, muxVars
<1>2. UNCHANGED dsVars
  BY RetryIgnored DEF Proceed, Retry, Issue, Accept
<1>3. AsyncMove /\ (InFlight' <=> InFlight)
  BY <1>1 DEF AsyncMove, InFlight
<1>4. pc' = "wait" \/ (pc' = "app" /\ InFlight)
  BY <1>1 DEF AfterIssue, Contract, IFirm, IAsync
<1>5. QED
  BY <1>1, <1>2, <1>3, <1>4, CalmSteps, CalmKeeps

LEMMA GateContract ==
  ASSUME Contract, Gate
  PROVE  ICommands' /\ IData' /\ AsyncMove
         /\ (UNCHANGED syncRes \/ syncRes'.rc = "busy")
<1>1. /\ pc = "gate" /\ UNCHANGED <<dsVars, fifo>> /\ pc' \in {"app", "quiet"}
      /\ win'["bounce"] = win["bounce"]
      /\ (UNCHANGED syncRes \/ syncRes'.rc = "busy")
  BY DEF Gate, Return, muxVars, Contract, IFirm, TypeOK, Windows
<1>2. AsyncMove
  BY CopyIsOwn DEF Gate, AsyncMove
<1>3. ~InFlight' \/ (UNCHANGED <<win, async>> /\ pc' = "app")
  <2>1. CASE InFlight
    BY <2>1 DEF Gate, GateBusy, Return, muxVars
  <2>2. CASE ~InFlight
    BY <1>2, <2>2, AsyncMoveKeeps
  <2>3. QED
    BY <2>1, <2>2
<1>4. cmdActive => InFlight
  BY <1>1 DEF Contract, ICommands
<1>5. InFlight => InFlight'
  BY DEF Gate, GateBusy, InFlight
<1>6. QED
  BY <1>1, <1>2, <1>3, <1>4, <1>5, CalmSteps, CalmKeeps

LEMMA ReturnContract ==
  ASSUME Contract, SyncDataIntact, SyncReturn
  PROVE  ICommands' /\ IData' /\ AsyncMove /\ SyncDataIntact'
<1>1. /\ pc = "wait" /\ doneLat /\ UNCHANGED <<async, asyncRes, fifo>>
      /\ Calm /\ (Delivered' <=> Delivered) /\ (errLat \/ ~ackS)
  BY CalmSteps
     DEF SyncReturn, GetFile, Return, muxVars, HandToCpu, Ready
<1>2. AsyncMove
  BY <1>1 DEF AsyncMove
<1>3. ~cmdActive
  BY <1>1 DEF Contract, ICommand, IDone
<1>4. /\ op.kind \in {"read", "primer", "getfile"} /\ ~async.active
      /\ op.req \in SyncReqs /\ op.req # None
  BY <1>1, RequestAssumption
     DEF Contract, IFirm, IAsync, IOp, Issuing, GateSerialises
<1>5. CASE op.kind = "primer"
  <2>1. /\ pc' = "getfile" /\ op' = [op EXCEPT !.kind = "getfile"]
        /\ win' = [win EXCEPT !["scratch"] = None] /\ UNCHANGED syncRes
    BY <1>5 DEF SyncReturn, GetFile
  <2>2. op'.kind = "getfile" /\ op'.req = op.req
    BY <2>1 DEF Contract, IFirm, IOp
  <2>3. ~InFlight' /\ ~Reading' /\ ~Naming' /\ ~async'.copying
    BY <1>1, <1>4, <2>1
       DEF InFlight, Reading, Naming, Contract, IFirm, IAsync
  <2>4. UNCHANGED <<cmdActive, doneLat, errLat, ackS, bparam, target, wrBusy>>
    BY <1>1 DEF Calm
  <2>5. ICommands'
    BY <1>1, <1>3, <1>5, <2>1, <2>2, <2>3, <2>4
       DEF Contract, ICommands, Past
  <2>6. win'["scratch"] = None
    BY <2>1 DEF Contract, IFirm, TypeOK, Windows
  <2>7. IData'
    BY <1>1, <2>2, <2>3, <2>4, <2>6 DEF Contract, IData
  <2>8. QED
    BY <1>2, <2>1, <2>5, <2>7 DEF SyncDataIntact
<1>6. CASE op.kind # "primer"
  <2>1. pc' = "app" /\ UNCHANGED win
    BY <1>6 DEF SyncReturn, Return, muxVars, HandToCpu
  <2>2. ICommands' /\ IData'
    BY <1>1, <1>2, <1>3, <2>1, CalmKeeps
  <2>3. SyncDataIntact'
    <3>1. CASE errLat
      BY <1>6, <3>1 DEF SyncReturn, Return, SyncDataIntact
    <3>2. CASE ~errLat
      <4>1. syncRes' = [req |-> op.req, rc |-> SyncCode(win["scratch"]),
                        data |-> win["scratch"]]
        BY <1>6, <3>2 DEF SyncReturn, Return, HandToCpu, LoadAfter
      <4>2. CASE op.kind = "read"
        <5>1. Reading /\ target = op.req
          BY <1>1, <4>2 DEF Reading, Contract, ICommands, Sole
        <5>2. win["scratch"] = op.req
          BY <1>1, <1>4, <3>2, <5>1, DoneHasLanded, WindowsOf
        <5>3. QED
          BY <4>1, <5>2 DEF SyncDataIntact
      <4>3. CASE op.kind = "getfile"
        <5>1. win["scratch"] \in {None, op.req}
          BY <1>1, <4>3 DEF Naming, Contract, IData
        <5>2. QED
          BY <4>1, <4>3, <5>1 DEF SyncDataIntact, SyncCode
      <4>4. QED
        BY <1>4, <1>6, <4>2, <4>3
    <3>3. QED
      BY <3>1, <3>2
  <2>4. QED
    BY <1>2, <2>2, <2>3
<1>7. QED
  BY <1>5, <1>6

\* The step of every action.
LEMMA ContractStep ==
  ASSUME Overlaps = {}, Contract, SyncDataIntact, [Next]_vars
  PROVE  /\ Contract' /\ SyncDataIntact'
         /\ AsyncMove \/ (/\ ~async.active /\ async'.active
                          /\ async'.req \in AsyncReqs /\ UNCHANGED asyncRes)
<1>1. IFirm' /\ ICommand' /\ IWitness'
  BY ContractPath
<1>2. IOwner'
  BY OwnerStep DEF Contract
<1>3. UNCHANGED syncRes => SyncDataIntact'
  BY DEF SyncDataIntact
<1>4. /\ ICommands' /\ IData' /\ SyncDataIntact'
      /\ AsyncMove \/ (/\ ~async.active /\ async'.active
                       /\ async'.req \in AsyncReqs /\ UNCHANGED asyncRes)
  <2>1. CASE HardwareStep \/ HostStep
    <3>1. UNCHANGED fwVars
      BY <2>1, DataMoves
    <3>2. UNCHANGED <<async, asyncRes, syncRes>>
      BY <3>1 DEF fwVars
    <3>3. QED
      BY <1>3, <2>1, <3>2, HardwareCommands, HardwareData DEF AsyncMove
  <2>2. CASE SystemCall \/ DataSlotIrq \/ Tick \/ NvEnd
    BY <1>3, <2>2, CallsContract
  <2>3. CASE AsyncIssue \/ SyncIssue \/ GetFileIssue
    BY <1>3, <2>3, IssuesContract
  <2>4. CASE Proceed \/ Retry
    BY <1>3, <2>4, ProceedContract
  <2>5. CASE Gate
    BY <1>3, <2>5, GateContract DEF SyncDataIntact
  <2>6. CASE SyncReturn
    BY <2>6, ReturnContract
  <2>7. CASE SyncTimeout
    BY <2>7 DEF SyncTimeout
  <2>8. CASE UNCHANGED vars
    <3>1. /\ UNCHANGED <<dsVars, fifo, win, async, asyncRes, pc, op, syncRes>>
      BY <2>8 DEF vars, fwVars, muxVars
    <3>2. UNCHANGED <<cmd, target, cmdActive, doneLat, errLat, ackS, bparam,
                      wrBusy>> /\ (Delivered' <=> Delivered)
      BY <3>1, CalmSteps DEF Calm
    <3>3. ICommands' /\ IData'
      BY <3>1, <3>2 DEF Contract, ICommands, IData, InFlight, Reading, Naming,
         Sole, Past, Landed
    <3>4. QED
      BY <1>3, <3>1, <3>3 DEF AsyncMove
  <2>9. QED
    BY <2>1, <2>2, <2>3, <2>4, <2>5, <2>6, <2>7, <2>8
       DEF Next, CallStep
<1>5. QED
  BY <1>1, <1>2, <1>4 DEF Contract

LEMMA ContractInit == Init => Contract /\ SyncDataIntact
<1> SUFFICES ASSUME Init PROVE Contract /\ SyncDataIntact
  OBVIOUS
<1>1. IFirm /\ IOwner /\ ICommand /\ IWitness
  BY FirmInit, OwnerInit, CommandInit, WitnessInit DEF Init
<1>2. /\ ~InFlight /\ ~async.copying /\ ~Reading /\ ~Naming /\ pc = "app"
      /\ ~cmdActive /\ fifo = None
  BY DEF Init, DSInit, NoAsync, InFlight, Reading, Naming
<1>3. ICommands /\ IData
  BY <1>2 DEF ICommands, IData, Past
<1>4. SyncDataIntact
  BY DEF Init, NoResult, SyncDataIntact
<1>5. QED
  BY <1>1, <1>3, <1>4 DEF Contract

\* SyncDataIntact: a blocking read or name query that succeeds returns what it
\* asked for, whatever else is in flight, while the host answers within the
\* time limits and callers keep the window accesses apart.
THEOREM SyncDataIntactHolds ==
  ASSUME Overlaps = {}
  PROVE  Spec => []SyncDataIntact
<1>1. /\ Contract /\ SyncDataIntact /\ [Next]_vars
        => (Contract /\ SyncDataIntact)'
  BY ContractStep
<1>2. QED
  BY <1>1, ContractInit, PTL DEF Spec

\* AsyncContract: every async read is delivered once, and with its own data if
\* it succeeds: firmware, mux and command path together implement AsyncRead.
THEOREM AsyncContractHolds ==
  ASSUME Overlaps = {}
  PROVE  Spec => AsyncContract
<1>1. Init => Abstract!Init
  BY DEF Init, NoAsync, NoResult, Abstract!Init
<1>2. /\ Contract /\ SyncDataIntact /\ [Next]_vars
        => (Contract /\ SyncDataIntact)'
  BY ContractStep
<1>3. Contract /\ SyncDataIntact /\ [Next]_vars
        => [Abstract!Next]_<<IF async.active THEN async.req ELSE None,
                             asyncRes>>
  <2> SUFFICES ASSUME Contract, SyncDataIntact, [Next]_vars
               PROVE  [Abstract!Next]_<<IF async.active THEN async.req
                                        ELSE None, asyncRes>>
    OBVIOUS
  <2> DEFINE pending == IF async.active THEN async.req ELSE None
  <2>1. /\ async.active => async.req \in AsyncReqs
        /\ None \notin AsyncReqs
        /\ async \in [active : BOOLEAN, req : AsyncReqs \cup {None},
                      copying : BOOLEAN, slice : 0..1,
                      data : Params \cup {None, Junk}]
    BY RequestAssumption DEF Contract, IFirm, IAsync, TypeOK
  <2>2. CASE /\ ~async.active /\ async'.active
             /\ async'.req \in AsyncReqs /\ UNCHANGED asyncRes
    <3>1. pending = None /\ pending' = async'.req
      BY <2>2
    <3>2. \E r \in AsyncReqs : Abstract!Submit(r)
      BY <2>2, <3>1 DEF Abstract!Submit
    <3>3. QED
      BY <3>2 DEF Abstract!Next
  <2>3. CASE /\ async.active /\ async' = NoAsync
             /\ asyncRes' \in Abstract!Outcomes(async.req)
    <3>1. pending = async.req /\ pending' = None
      BY <2>3, Emptied
    <3>2. Abstract!Deliver
      BY <2>1, <2>3, <3>1 DEF Abstract!Deliver
    <3>3. QED
      BY <3>2 DEF Abstract!Next
  <2>4. CASE /\ async'.active = async.active /\ async'.req = async.req
             /\ UNCHANGED asyncRes
    BY <2>4
  <2>5. AsyncMove => \/ /\ async.active /\ async' = NoAsync
                        /\ asyncRes' \in Abstract!Outcomes(async.req)
                     \/ /\ async'.active = async.active
                        /\ async'.req = async.req /\ UNCHANGED asyncRes
    BY <2>1 DEF AsyncMove
  <2>6. QED
    BY <2>2, <2>3, <2>4, <2>5, ContractStep
<1>4. QED
  BY <1>1, <1>2, <1>3, ContractInit, PTL
     DEF Spec, AsyncContract, Abstract!Spec

\* What DS_STATUS reports is true of getfile too, whose line the dispatch guard
\* does not cover: firmware issues it when nothing is in progress, and behind a
\* read that has put its parameters across (of_file_get_name's primer).
THEOREM StatusHolds ==
  ASSUME Overlaps = {}
  PROVE  Spec => [](DoneIsOurs /\ ExecutesCurrent /\ DoneAfterDrain)
<1>1. /\ Contract /\ SyncDataIntact /\ [Next]_vars
        => (Contract /\ SyncDataIntact)'
  BY ContractStep
<1>2. Contract => DoneIsOurs /\ ExecutesCurrent /\ DoneAfterDrain
  BY DEF Contract, ICommand, IDone, IExec, DoneIsOurs, ExecutesCurrent,
         DoneAfterDrain, Executing
<1>3. QED
  BY <1>1, <1>2, ContractInit, PTL DEF Spec
=============================================================================

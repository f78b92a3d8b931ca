------------------------------ MODULE DataSlot ------------------------------
(***************************************************************************)
(* The Pocket data-slot command path: the DS register engine of            *)
(* axi_periph_slave.v (clk_cpu), the clock crossings and the DONE quiet    *)
(* filter of core_top.v, the target command machine of core_bridge_cmd.v   *)
(* (clk_74a), and the APF host that answers it (external).                 *)
(*                                                                         *)
(* One clock edge of a block is not one step: a step is an event that some *)
(* other party can see.  A three-flop synchroniser is one step (SyncAck,   *)
(* SyncDone) in which the receiving block also reacts; that of a request   *)
(* line is folded into the delay before the bridge pops its queue flag.    *)
(* Two timing facts of the hardware are written as guards and named where  *)
(* they are used: PromptBridge and SpacedHost.                             *)
(***************************************************************************)
CONSTANTS
    Cmds,      \* the DS_COMMAND codes firmware issues
    Params,    \* contents of the DS parameter registers (slot, offset, ...)
    Zero       \* their contents out of reset

AllCmds == {"read", "write", "openfile", "getfile"}

ASSUME CmdsAssumption == Cmds \subseteq AllCmds
ASSUME ParamsAssumption == Zero \in Params

VARIABLES
    line,         \* target_dataslot_{read,write,openfile,getfile} that are up
    cmd,          \* history: the code of the last accepted command
    target,       \* target_dataslot_id ... : its parameters (clk_cpu)
    cmdActive,    \* ds_cmd_active
    ackLat,       \* ds_ack_latched
    ackSeenLow,   \* ds_ack_seen_low
    doneLat,      \* ds_done_latched
    doneSeenLow,  \* ds_done_seen_low
    errLat,       \* ds_err_latched # 0
    irqPend,      \* dataslot_irq_pending
    ackS,         \* target_ack_s
    doneS,        \* target_done_s
    doneSafe,     \* target_dataslot_done_safe (core_top.v)
    bparam,       \* the clk_74a copy of the parameters
    queue,        \* the *_queue flags of core_bridge_cmd.v, "rtr" for setup
    tstate,       \* tstate: "idle", "op" (presenting) or "wait"
    tcmd,         \* target_0[15:0], target_20..2C: the command shown
    status,       \* target_0[31:16]: "cm", "bu" or "ok"
    ack, done, err,  \* target_dataslot_{ack,done,err} (clk_74a)
    sent,         \* the host has moved the data of the command it executes
    wrBusy        \* ~bridge_wr_idle: bridge data has not drained to memory

engine == <<line, cmd, target, cmdActive, ackLat, ackSeenLow, doneLat,
            doneSeenLow, errLat, irqPend>>
cross  == <<ackS, doneS, doneSafe>>
bridge == <<bparam, queue, tstate, tcmd, status, ack, done, err>>
host   == <<sent, wrBusy>>
dsVars == <<engine, cross, bridge, host>>

\* The command the engine accepted last, as the bridge should show it.
Current == [cmd |-> cmd, par |-> target]

DSInit ==
    /\ line = {} /\ cmd = "none" /\ target = Zero
    /\ cmdActive = FALSE /\ irqPend = FALSE
    /\ ackLat = FALSE /\ doneLat = FALSE /\ errLat = FALSE
    /\ ackSeenLow = TRUE /\ doneSeenLow = TRUE
    /\ ackS = FALSE /\ doneS = FALSE /\ doneSafe = FALSE
    /\ bparam = Zero /\ queue = {"rtr"} /\ tstate = "idle"
    /\ tcmd = [cmd |-> "none", par |-> Zero] /\ status = "ok"
    /\ ack = FALSE /\ done = FALSE /\ err = FALSE
    /\ sent = FALSE /\ wrBusy = FALSE

-----------------------------------------------------------------------------
(***************************************************************************)
(* Firmware's accesses to the DS registers.                                *)
(***************************************************************************)

\* DS_STATUS bit 5 and bit 6.
Ready  == ~ackS
WrIdle == ~wrBusy

\* Mutant: the guard forgets the request lines.
AcceptsAnyLine == ~ackS

\* The dispatch guard of DS_COMMAND.  The getfile line is not part of it.
Accepts == line \cap {"read", "write", "openfile"} = {} /\ ~ackS

\* Mutant: openfile, like getfile, does not copy its parameters.
RequestEdgeReadWrite(c, p) ==
    /\ queue' = queue \cup {c} /\ doneSafe' = FALSE
    /\ bparam' = IF c \in {"read", "write"} THEN p ELSE bparam

\* What the rising edge of a request line does on the other side: it raises
\* the queue flag, restarts the DONE quiet filter and, for every command but
\* getfile, copies the parameters into clk_74a.  A getfile line that is already
\* up has no edge.
RequestEdge(c, p) ==
    IF c \in line
    THEN UNCHANGED <<queue, bparam, doneSafe>>
    ELSE /\ queue' = queue \cup {c}
         /\ bparam' = IF c = "getfile" THEN bparam ELSE p
         /\ doneSafe' = FALSE

\* A DS_COMMAND write the guard lets through, with the cycle after it, in
\* which the seen-low flags first look at the synchronised inputs.
Accept(c, p) ==
    /\ Accepts
    /\ cmd' = c /\ target' = p /\ line' = {c}
    /\ cmdActive' = TRUE /\ irqPend' = FALSE
    /\ ackLat' = FALSE /\ doneLat' = FALSE /\ errLat' = FALSE
    /\ ackSeenLow' = ~ackS /\ doneSeenLow' = ~doneS
    /\ RequestEdge(c, p)
    /\ UNCHANGED <<ackS, doneS, tstate, tcmd, status, ack, done, err, host>>

\* A DS_COMMAND write: silently ignored when the guard is down.
Issue(c, p) ==
    \/ Accept(c, p)
    \/ ~Accepts /\ UNCHANGED dsVars

\* Writing DS_STATUS bit 7 (W1C).
W1C ==
    /\ irqPend' = FALSE
    /\ UNCHANGED <<line, cmd, target, cmdActive, ackLat, ackSeenLow, doneLat,
                   doneSeenLow, errLat, cross, bridge, host>>

ClearIrq == irqPend /\ W1C

-----------------------------------------------------------------------------
(***************************************************************************)
(* The engine and the clock crossings.                                     *)
(***************************************************************************)

\* Mutant: DONE is captured only while ACK is still up.
LatchNeedsAckUp(a, d) ==
    LET capture == cmdActive /\ doneSeenLow /\ d /\ a
    IN  /\ ackSeenLow' = (ackSeenLow \/ (cmdActive /\ ~a))
        /\ doneSeenLow' = (doneSeenLow \/ (cmdActive /\ ~d))
        /\ ackLat' = (ackLat \/ (cmdActive /\ ackSeenLow /\ a))
        /\ doneLat' = (doneLat \/ capture)
        /\ errLat' = IF capture THEN err ELSE errLat
        /\ cmdActive' = (cmdActive /\ ~capture)
        /\ irqPend' = (irqPend \/ capture)
        /\ line' = IF a \/ capture THEN {} ELSE line
        /\ UNCHANGED <<cmd, target>>

\* The engine's always block once the synchronised inputs read a and d: an ACK
\* or DONE counts only after it was seen low in this command's window.
Latch(a, d) ==
    LET ackNow  == ackLat \/ (cmdActive /\ ackSeenLow /\ a)
        capture == cmdActive /\ doneSeenLow /\ d /\ ackNow
    IN  /\ ackSeenLow' = (ackSeenLow \/ (cmdActive /\ ~a))
        /\ doneSeenLow' = (doneSeenLow \/ (cmdActive /\ ~d))
        /\ ackLat' = ackNow
        /\ doneLat' = (doneLat \/ capture)
        /\ errLat' = IF capture THEN err ELSE errLat
        /\ cmdActive' = (cmdActive /\ ~capture)
        /\ irqPend' = (irqPend \/ capture)
        /\ line' = IF a \/ capture THEN {} ELSE line
        /\ UNCHANGED <<cmd, target>>

SyncAck ==
    /\ ackS # ack
    /\ ackS' = ack
    /\ Latch(ack, doneS)
    /\ UNCHANGED <<doneS, doneSafe, bridge, host>>

SyncDone ==
    /\ doneS # doneSafe
    /\ doneS' = doneSafe
    /\ Latch(ackS, doneSafe)
    /\ UNCHANGED <<ackS, doneSafe, bridge, host>>

\* PromptBridge: an idle bridge pops its queue and presents the command within
\* the filter's 128 blanking cycles, so the quiet count never runs over a stale
\* DONE of the command before; and its 1023 quiet cycles outlast the three
\* synchroniser flops of ACK and of DONE itself.
PromptBridge ==
    /\ tstate # "op" /\ ~(tstate = "idle" /\ queue # {})
    /\ ackS = ack /\ doneS = doneSafe

\* Mutant: the filter does not look at bridge_wr_idle.
QuietReachedBusy ==
    /\ ~doneSafe /\ done /\ PromptBridge
    /\ doneSafe' = TRUE
    /\ UNCHANGED <<engine, ackS, doneS, bridge, host>>

\* The filter passes DONE on.  It would also take it back when DONE falls or the
\* bridge gets busy, but DONE falls only in a command whose request edge has
\* restarted the filter, and data moves only before DONE: FilterKeepsDone in
\* DataSlotProofs.
QuietReached ==
    /\ ~doneSafe /\ done /\ WrIdle /\ PromptBridge
    /\ doneSafe' = TRUE
    /\ UNCHANGED <<engine, ackS, doneS, bridge, host>>

-----------------------------------------------------------------------------
(***************************************************************************)
(* The target command machine.                                             *)
(***************************************************************************)

Before(c) ==
    CASE c = "rtr"     -> {}
      [] c = "read"    -> {"rtr"}
      [] c = "write"   -> {"rtr", "read"}
      [] c = "getfile" -> {"rtr", "read", "write"}
      [] OTHER         -> {"rtr", "read", "write", "getfile"}

\* TARG_ST_IDLE: ACK falls; the first queued command is latched for the host.
Pop(c) ==
    /\ tstate = "idle" /\ c \in queue /\ queue \cap Before(c) = {}
    /\ queue' = queue \ {c}
    /\ tcmd' = [cmd |-> c, par |-> bparam]
    /\ tstate' = "op" /\ ack' = FALSE
    /\ UNCHANGED <<bparam, status, done, err, engine, cross, host>>

DropAck ==
    /\ tstate = "idle" /\ ack
    /\ ack' = FALSE
    /\ UNCHANGED <<bparam, queue, tstate, tcmd, status, done, err, engine,
                   cross, host>>

\* TARG_ST_DATASLOTOP / TARG_ST_READYTORUN: 'cm' is written to target_0.
Present ==
    /\ tstate = "op"
    /\ tstate' = "wait" /\ status' = "cm" /\ sent' = FALSE
    /\ IF tcmd.cmd = "rtr" THEN UNCHANGED <<done, err>>
                           ELSE done' = FALSE /\ err' = FALSE
    /\ UNCHANGED <<bparam, queue, tcmd, ack, engine, cross, wrBusy>>

\* The host writes 'bu'; WAITRESULT_DSO raises ACK.
HostBusy ==
    /\ tstate = "wait" /\ status = "cm"
    /\ status' = "bu" /\ ack' = (tcmd.cmd # "rtr")
    /\ UNCHANGED <<bparam, queue, tstate, tcmd, done, err, engine, cross, host>>

\* The host moves the command's data over the bridge.
HostData ==
    /\ tstate = "wait" /\ status = "bu" /\ ~sent /\ tcmd.cmd # "rtr"
    /\ sent' = TRUE /\ wrBusy' = TRUE
    /\ UNCHANGED <<engine, cross, bridge>>

Drain ==
    /\ wrBusy /\ wrBusy' = FALSE
    /\ UNCHANGED <<sent, engine, cross, bridge>>

\* SpacedHost: the host's register writes are many cycles apart, so each ACK
\* level is synchronised before the next write.
SpacedHost == ackS = ack

\* The host writes 'ok' with result code e; an error needs no data.
HostOk(e) ==
    /\ tstate = "wait" /\ status = "bu" /\ SpacedHost
    /\ sent \/ e \/ tcmd.cmd = "rtr"
    /\ status' = "ok" /\ tstate' = "idle"
    /\ IF tcmd.cmd = "rtr" THEN UNCHANGED <<done, err>>
                           ELSE done' = TRUE /\ err' = e
    /\ UNCHANGED <<bparam, queue, tcmd, ack, engine, cross, host>>

\* Mutant: the queue flags are set by the reset that should clear them.
ResetQueueSet == AllCmds
ResetQueue == {"rtr"}

\* Reset-Enter, after shutdown_ack or its timeout: both sides start over and
\* the bridge owes the host a fresh Ready-To-Run.  The clk_74a parameter copy
\* and the host's own progress are not reset.
Reset ==
    /\ line' = {} /\ cmd' = "none" /\ target' = Zero
    /\ cmdActive' = FALSE /\ irqPend' = FALSE
    /\ ackLat' = FALSE /\ doneLat' = FALSE /\ errLat' = FALSE
    /\ ackSeenLow' = TRUE /\ doneSeenLow' = TRUE
    /\ ackS' = FALSE /\ doneS' = FALSE /\ doneSafe' = FALSE
    /\ queue' = ResetQueue /\ tstate' = "idle"
    /\ ack' = FALSE /\ done' = FALSE /\ err' = FALSE
    /\ UNCHANGED <<bparam, tcmd, status, host>>

-----------------------------------------------------------------------------
Hardware ==
    \/ SyncAck \/ SyncDone \/ QuietReached
    \/ \E c \in Cmds \cup {"rtr"} : Pop(c)
    \/ DropAck \/ Present

Host == HostBusy \/ HostData \/ Drain \/ \E e \in BOOLEAN : HostOk(e)

DSNext ==
    \/ \E c \in Cmds, p \in Params : Accept(c, p)
    \/ ClearIrq
    \/ Hardware \/ Host \/ Reset

DSSpec == DSInit /\ [][DSNext]_dsVars

\* Clocked logic always runs, and the host answers every command it is shown.
HardwareFairness ==
    /\ WF_dsVars(SyncAck) /\ WF_dsVars(SyncDone) /\ WF_dsVars(QuietReached)
    /\ WF_dsVars(DropAck) /\ WF_dsVars(Present)
    /\ \A c \in Cmds \cup {"rtr"} : WF_dsVars(Pop(c))

HostFairness ==
    /\ WF_dsVars(HostBusy) /\ WF_dsVars(HostData) /\ WF_dsVars(Drain)
    /\ WF_dsVars(HostOk(FALSE))

DSFairSpec == DSSpec /\ HardwareFairness /\ HostFairness

\* A command that is issued before the one before it has ended.
Impatient == \E c \in Cmds, p \in Params : cmdActive /\ Accept(c, p)

-----------------------------------------------------------------------------
(***************************************************************************)
(* Properties.                                                             *)
(***************************************************************************)

\* Every register of the engine, the crossing and the bridge has its type.
DSTypeOK ==
    /\ line \subseteq Cmds /\ cmd \in Cmds \cup {"none"} /\ target \in Params
    /\ cmdActive \in BOOLEAN /\ ackLat \in BOOLEAN /\ ackSeenLow \in BOOLEAN
    /\ doneLat \in BOOLEAN /\ doneSeenLow \in BOOLEAN /\ errLat \in BOOLEAN
    /\ irqPend \in BOOLEAN
    /\ ackS \in BOOLEAN /\ doneS \in BOOLEAN /\ doneSafe \in BOOLEAN
    /\ bparam \in Params /\ queue \subseteq Cmds \cup {"rtr"}
    /\ tstate \in {"idle", "op", "wait"} /\ status \in {"cm", "bu", "ok"}
    /\ tcmd \in [cmd : Cmds \cup {"rtr", "none"}, par : Params]
    /\ ack \in BOOLEAN /\ done \in BOOLEAN /\ err \in BOOLEAN
    /\ sent \in BOOLEAN /\ wrBusy \in BOOLEAN

\* When DS_STATUS reports DONE, the host has finished the very command the
\* engine accepted last, with the parameters staged for it, and the error bits
\* are that command's result code (axi_periph_slave.v, ACK/DONE latching).
DoneIsOurs == doneLat => tcmd = Current /\ status = "ok" /\ errLat = err

\* Whatever the host executes is the command the engine considers active: an
\* accepted command never runs behind another one's back (dispatch guard).
ExecutesCurrent ==
    tstate # "idle" /\ tcmd.cmd # "rtr" => tcmd = Current /\ cmdActive

\* When DONE is reported, nothing of the command's data is still on its way to
\* memory (core_top.v, done_safe and its quiet count).
DoneAfterDrain == doneLat => ~wrBusy

\* While its request line is up, a command is not replaced by another one: the
\* engine ignores DS_COMMAND "while the previous command's request lines or
\* target_ack_s are still up" (file.c, command dispatch).
GuardCoversLines ==
    [][line # {} => UNCHANGED <<cmd, target>> \/ cmd' = "none"]_dsVars

\* A command that firmware waits for is retired in the end, by DONE or by a
\* reset, however many it issued without waiting: no ordering of ACK, DONE and
\* their stale levels makes the engine "hang forever waiting for DONE"
\* (axi_periph_slave.v).
Retires == <>[][~Impatient]_dsVars => (cmdActive ~> ~cmdActive)
=============================================================================

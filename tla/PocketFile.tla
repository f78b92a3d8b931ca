----------------------------- MODULE PocketFile -----------------------------
(***************************************************************************)
(* Data-slot file I/O on the Pocket: the firmware of targets/pocket/file.c *)
(* and the CRAM0 users of save.c, on top of the command path of DataSlot   *)
(* and the CRAM0 ownership mux of core_top.v.                              *)
(*                                                                         *)
(* A system call runs with interrupts masked and is a sequence of steps    *)
(* between which only hardware moves (pc # "app").  The data-slot IRQ and  *)
(* the 1 kHz tick run between system calls and are atomic, as is the part  *)
(* of a call between two reads of DS_STATUS.  A request names its own data.*)
(***************************************************************************)
EXTENDS DataSlot, Naturals

CONSTANTS
    SyncReqs, AsyncReqs,   \* the parameter sets of blocking and async reads
    DirectReqs,            \* the async reads into app staging memory in CRAM0
    None, Junk,            \* no data; data no request asked for
    SwMixer,               \* of_mixer_use_sw: the kernel owns the 1 kHz timer
    MaxHold,               \* bound on cram0_cpu_hold_count
    SyncKinds,             \* the blocking operations the system calls
    Overlaps               \* the overlaps callers and the host may produce

\* "slow-host": a reply may come after a firmware time limit.  The others: a
\* blocking read during a pending bounce copy; a save-window access
\* during an async DMA; the release of CRAM0 during a pending bounce copy.
AllOverlaps ==
    {"slow-host", "sync-during-copy", "save-during-dma", "save-during-copy"}

ASSUME RequestAssumption ==
    /\ SyncReqs \cap AsyncReqs = {} /\ SyncReqs \cup AsyncReqs \subseteq Params
    /\ DirectReqs \subseteq AsyncReqs
    /\ None \notin Params /\ Junk \notin Params \cup {None}
ASSUME ConfigAssumption ==
    /\ Overlaps \subseteq AllOverlaps /\ SwMixer \in BOOLEAN /\ MaxHold \in Nat
\* What blocking operations issue.
ASSUME KindsAssumption ==
    /\ SyncKinds \subseteq {"read", "getname"}
    /\ SyncKinds # {} => "read" \in Cmds
    /\ "getname" \in SyncKinds => "getfile" \in Cmds

VARIABLES
    mode,       \* CRAM0_MODE: "bridge" or "cpu"
    fifo,       \* data of a host write accepted for CRAM0, not yet drained
    win,        \* CRAM0: sync scratch, async bounce, app staging
    resp,       \* GETFILE's response address: is it set in DS_RESP_ADDR,
                \* and in the clk_74a copy the bridge uses?
    async,      \* async_state
    completed,  \* async_state.completed_count
    asyncRes,   \* the last completion delivered to the application
    pc, op,     \* the system call in progress
    syncRes,    \* what the last blocking operation returned
    hold,       \* cram0_cpu_hold_count
    timer       \* TIMER_CTRL_ENABLE

fwVars == <<async, completed, asyncRes, pc, op, syncRes, hold, timer>>
muxVars == <<mode, fifo, win, resp>>
vars == <<dsVars, muxVars, fwVars>>

NoAsync == [active |-> FALSE, req |-> None, copying |-> FALSE, slice |-> 0,
            data |-> None]
NoOp == [kind |-> "none", req |-> None, pre |-> FALSE]
NoResult == [req |-> None, rc |-> "none", data |-> None]

Windows == {"scratch", "bounce", "stage"}

Window(r) == CASE r \in DirectReqs -> "stage"
               [] r \in AsyncReqs \ DirectReqs -> "bounce"
               [] OTHER -> "scratch"

Init ==
    /\ DSInit
    /\ mode = "bridge" /\ fifo = None
    /\ win = [w \in Windows |-> None]
    /\ resp = [reg |-> FALSE, bridge |-> FALSE]
    /\ async = NoAsync /\ completed = 0 /\ asyncRes = NoResult
    /\ pc = "app" /\ op = NoOp /\ syncRes = NoResult /\ hold = 0
    /\ timer = SwMixer

-----------------------------------------------------------------------------
(***************************************************************************)
(* The CRAM0 mux: it decides what becomes of the host's data and of a CPU  *)
(* load.                                                                   *)
(***************************************************************************)

\* A host write that arrives while the CPU owns CRAM0 is dropped, and so is a
\* response for address 0, which no memory answers; write commands only read.
MuxHostData ==
    /\ HostData
    /\ fifo' = IF /\ mode = "bridge"
                  /\ tcmd.cmd = "read" \/ (tcmd.cmd = "getfile" /\ resp.bridge)
               THEN tcmd.par ELSE fifo
    /\ UNCHANGED <<mode, win, resp, fwVars>>

\* The write FIFO drains only while the bridge owns CRAM0.
MuxDrain ==
    /\ Drain
    /\ fifo # None => mode = "bridge"
    /\ fifo' = None
    /\ win' = IF fifo = None THEN win ELSE [win EXCEPT ![Window(fifo)] = fifo]
    /\ UNCHANGED <<mode, resp, fwVars>>

HardwareStep == MuxDrain \/ (Hardware /\ UNCHANGED <<muxVars, fwVars>>)

HostStep ==
    \/ MuxHostData
    \/ (HostBusy \/ \E e \in BOOLEAN : HostOk(e)) /\ UNCHANGED <<muxVars,
                                                                 fwVars>>

\* A CPU load from a CRAM0 window: without ownership it is never answered, and
\* cram0_cdc's watchdog retires it with an error and poison.
Load(w) == IF mode = "cpu" THEN win[w] ELSE Junk

\* Mutant: the ownership flip is forgotten.
HandToCpuForgotten == UNCHANGED muxVars

\* CRAM0_MODE = CRAM0_MODE_CPU, and a load from the window after it.
HandToCpu == mode' = "cpu" /\ UNCHANGED <<fifo, win, resp>>
LoadAfter(w) == IF mode' = "cpu" THEN win[w] ELSE Junk

-----------------------------------------------------------------------------
(***************************************************************************)
(* async_state: completion, deferred bounce copy, interrupt, tick, poll.   *)
(***************************************************************************)

\* async_finalize: the application gets its completion.
Finalize(rc, data) ==
    /\ async' = NoAsync
    /\ asyncRes' = [req |-> async.req, rc |-> rc, data |-> data]

\* The destination's content once what was copied before is completed with d.
Copied(d) == IF async.slice = 0 \/ async.data = d THEN d ELSE Junk

\* async_copy_slice(0): finish the copy and deliver.
CopyRest == async.copying /\ Finalize("ok", Copied(Load("bounce")))

\* async_copy_slice(2048): the tick's bounded part; two make a chunk.
CopySlice ==
    /\ async.copying
    /\ IF async.slice = 1
       THEN CopyRest /\ completed' = completed + 1
       ELSE /\ async' = [async EXCEPT !.slice = 1, !.data = Load("bounce")]
            /\ UNCHANGED <<completed, asyncRes>>
    /\ UNCHANGED <<dsVars, muxVars>>

\* Mutant: the error bits of DS_STATUS are not looked at.
CompleteIgnoresError ==
    /\ HandToCpu
    /\ Finalize("ok", LoadAfter(Window(async.req)))
    /\ completed' = completed + 1

\* async_complete: CRAM0 goes to the CPU; the copy out of the bounce window is
\* deferred to the tick when there is one, and done here otherwise.
Complete ==
    /\ HandToCpu
    /\ IF ~errLat /\ async.req \notin DirectReqs /\ timer
       THEN /\ async' = [async EXCEPT !.copying = TRUE]
            /\ UNCHANGED <<completed, asyncRes>>
       ELSE /\ IF errLat THEN Finalize("err", None)
                         ELSE Finalize("ok", LoadAfter(Window(async.req)))
            /\ completed' = completed + 1

InFlight == async.active /\ ~async.copying

\* of_file_async_irq_service
IrqService ==
    /\ irqPend /\ W1C
    /\ IF InFlight THEN Complete
                   ELSE UNCHANGED <<muxVars, async, completed, asyncRes>>

\* The fallback condition of tick and poll for a lost interrupt.
DoneQuiet == doneLat /\ Ready /\ WrIdle

\* A firmware time limit is ages for the hardware: whatever it can do without
\* the host, it has done.
HardwareQuiet ==
    /\ PromptBridge /\ ~(tstate = "idle" /\ ack)
    /\ doneSafe = (done /\ WrIdle)

\* Mutant: the age is not counted while the host has not acknowledged.
AgeOutOnlyAcked == ackLat /\ HardwareQuiet /\ Finalize("timeout", None)
                   /\ completed' = completed + 1 /\ UNCHANGED <<dsVars,
                                                                muxVars>>

AgeOut ==
    /\ HardwareQuiet
    /\ Finalize("timeout", None) /\ completed' = completed + 1
    /\ UNCHANGED <<dsVars, muxVars>>

\* The interrupt.  IRQ_MASK admits it only while an async read is in flight;
\* otherwise, here too, all it does is to clear the pending bit.
DataSlotIrq ==
    /\ pc = "app" /\ IrqService
    /\ UNCHANGED <<pc, op, syncRes, hold, timer>>

\* of_file_async_tick.  The tick that reaches ASYNC_AGE_LIMIT_MS is any tick
\* that sees no DONE when the host may be slow, and none otherwise.
Tick ==
    /\ timer /\ pc = "app"
    /\ \/ CopySlice
       \/ InFlight /\ IrqService
       \/ InFlight /\ ~irqPend /\ DoneQuiet /\ W1C /\ Complete
       \/ InFlight /\ ~irqPend /\ ~DoneQuiet /\ "slow-host" \in Overlaps
          /\ AgeOut
    /\ UNCHANGED <<pc, op, syncRes, hold, timer>>

\* Mutant: the software mixer's timer can be stopped too.
StopTimer ==
    /\ pc = "app" /\ timer' = ~timer
    /\ UNCHANGED <<dsVars, muxVars, async, completed, asyncRes, pc, op, syncRes,
                   hold>>

\* An application takes the timer or gives it back (of_os_timer_set_callback,
\* setitimer); with the software mixer the kernel keeps it running.
SetTimer ==
    /\ pc = "app" /\ ~SwMixer /\ timer' = ~timer
    /\ UNCHANGED <<dsVars, muxVars, async, completed, asyncRes, pc, op, syncRes,
                   hold>>

\* of_file_async_poll, the calls that change something.  A completion it finds
\* or makes is consumed at once.
Poll ==
    /\ pc = "app"
    /\ \/ CopyRest /\ completed' = completed /\ UNCHANGED <<dsVars, muxVars>>
       \/ /\ ~async.copying /\ completed > 0
          /\ completed' = completed - 1
          /\ UNCHANGED <<dsVars, muxVars, async, asyncRes>>
       \/ /\ InFlight /\ completed = 0 /\ (irqPend \/ DoneQuiet)
          /\ W1C /\ HandToCpu /\ UNCHANGED completed
          /\ IF errLat THEN Finalize("err", None)
                       ELSE Finalize("ok", LoadAfter(Window(async.req)))
    /\ UNCHANGED <<pc, op, syncRes, hold, timer>>

-----------------------------------------------------------------------------
(***************************************************************************)
(* The system calls.                                                       *)
(***************************************************************************)

\* ds_issue_command samples the status latches before it writes DS_COMMAND: an
\* accepted command clears them, so a retry needs them clear beforehand.
Probe == op' = [op EXCEPT !.pre = ackLat]

\* of_file_read_async: a pending copy is delivered first.
ReadAsync(r) ==
    /\ pc = "app" /\ "read" \in Cmds
    /\ \/ CopyRest /\ completed' = completed + 1
       \/ ~async.active /\ UNCHANGED <<async, completed, asyncRes>>
    /\ pc' = "areq" /\ op' = [kind |-> "async", req |-> r, pre |-> FALSE]
    /\ UNCHANGED <<dsVars, muxVars, syncRes, hold, timer>>

\* A DS_COMMAND write and the response address: firmware sets DS_RESP_ADDR for
\* a getfile only, and only the edges of the other lines copy it to clk_74a.
CopyResp(c) ==
    resp' = CASE c = "getfile" -> [resp EXCEPT !.reg = TRUE]
              [] c # "getfile" /\ Accepts -> [resp EXCEPT !.bridge = resp.reg]
              [] OTHER -> resp

ResetCount == completed' = 0

\* Its issue, or OF_ERR_BUSY when the bridge is not idle.
AsyncIssue ==
    /\ pc = "areq"
    /\ IF Ready /\ WrIdle
       THEN /\ mode' = "bridge" /\ ResetCount /\ pc' = "issued" /\ Probe
            /\ async' = [NoAsync EXCEPT !.active = TRUE, !.req = op.req]
            /\ CopyResp("read")
            /\ \/ Accept("read", op.req)
               \/ ~Accepts /\ W1C
       ELSE /\ pc' = "app"
            /\ UNCHANGED <<dsVars, mode, resp, async, completed, op>>
    /\ UNCHANGED <<fifo, win, asyncRes, syncRes, hold, timer>>

OpCmd == CASE op.kind = "async"   -> "read"
           [] op.kind = "primer"  -> "read"
           [] OTHER               -> op.kind

AfterIssue == IF op.kind = "async" THEN "app" ELSE "wait"

\* What the probe takes as evidence that the command was accepted: a latch that
\* was up and is cleared, or still up as ACK; ACK latched; READY low.
Evidence == op.pre \/ ackLat \/ ~Ready

\* ds_issue_command after its first write: proceed on evidence, write once more
\* without, and then proceed in any case.
Proceed ==
    /\ pc = "issued" /\ Evidence /\ pc' = AfterIssue
    /\ UNCHANGED <<dsVars, muxVars, async, completed, asyncRes, op, syncRes,
                   hold, timer>>

Retry ==
    /\ pc = "issued" /\ ~Evidence
    /\ Issue(OpCmd, op.req) /\ CopyResp(OpCmd) /\ pc' = AfterIssue
    /\ UNCHANGED <<mode, fifo, win, async, completed, asyncRes, op, syncRes,
                   hold, timer>>

\* A blocking operation.  bridge_read_impl gives CRAM0 to the bridge before the
\* serialisation gate is reached.
SyncBegin(k, r) ==
    /\ pc = "app"
    /\ async.copying /\ k # "getname" => "sync-during-copy" \in Overlaps
    /\ pc' = "gate" /\ op' = [kind |-> k, req |-> r, pre |-> FALSE]
    /\ mode' = IF k = "getname" THEN mode ELSE "bridge"
    /\ UNCHANGED <<dsVars, fifo, win, resp, async, completed, asyncRes, syncRes,
                   hold, timer>>

Return(rc, data) ==
    /\ pc' = "app" /\ syncRes' = [req |-> op.req, rc |-> rc, data |-> data]
    /\ op' = NoOp

\* Mutant: the gate trusts READY instead of the software state.
GateBusyReady == InFlight /\ ~Ready
GateBusy == InFlight

\* async_gate: defer to a DMA in flight, deliver a pending copy.
\* of_file_get_name then clears the window and starts with a primer read.
Gate ==
    /\ pc = "gate"
    /\ IF GateBusy
       THEN /\ Return("busy", None)
            /\ UNCHANGED <<muxVars, async, completed, asyncRes>>
       ELSE /\ IF async.copying THEN CopyRest /\ completed' = completed + 1
                                ELSE UNCHANGED <<async, completed, asyncRes>>
            /\ pc' = "quiet" /\ UNCHANGED <<fifo, resp, syncRes>>
            /\ IF op.kind = "getname"
               THEN /\ op' = [op EXCEPT !.kind = "primer"]
                    /\ mode' = "bridge"
                    /\ win' = [win EXCEPT !["scratch"] = None]
               ELSE UNCHANGED <<op, mode, win>>
    /\ UNCHANGED <<dsVars, hold, timer>>

\* Wait for READY and WR_IDLE, then stage and issue.
SyncIssue ==
    /\ pc = "quiet" /\ Ready /\ WrIdle
    /\ Issue(OpCmd, op.req) /\ CopyResp(OpCmd) /\ pc' = "issued" /\ Probe
    /\ UNCHANGED <<mode, fifo, win, async, completed, asyncRes, syncRes, hold,
                   timer>>

\* of_file_get_name goes on to the GETFILE, whatever became of its primer.
GetFile ==
    /\ win' = [win EXCEPT !["scratch"] = None] /\ UNCHANGED <<fifo, resp>>
    /\ mode' = "bridge"
    /\ op' = [op EXCEPT !.kind = "getfile"] /\ pc' = "getfile"
    /\ UNCHANGED syncRes

GetFileIssue ==
    /\ pc = "getfile"
    /\ Issue("getfile", op.req) /\ CopyResp("getfile")
    /\ pc' = "issued" /\ Probe
    /\ UNCHANGED <<mode, fifo, win, async, completed, asyncRes, syncRes, hold,
                   timer>>

\* of_file_get_name fails on an empty name.
SyncCode(data) == IF op.kind = "getfile" /\ data = None THEN "empty" ELSE "ok"

\* file_wait_complete and of_file_get_name's own wait: DONE, then the error
\* bits, then READY and WR_IDLE; a read is copied out under CPU ownership.
SyncReturn ==
    /\ pc = "wait" /\ doneLat
    /\ errLat \/ (Ready /\ WrIdle)
    /\ W1C
    /\ IF op.kind = "primer" THEN GetFile
       ELSE IF errLat THEN Return("err", None) /\ UNCHANGED muxVars
       ELSE /\ HandToCpu
            /\ Return(SyncCode(LoadAfter("scratch")), LoadAfter("scratch"))
    /\ UNCHANGED <<async, completed, asyncRes, hold, timer>>

\* Mutant: the wait for ACK and DONE has no limit.
LimitedWaitsIdleOnly == {"quiet"}
LimitedWaits == {"quiet", "wait"}

\* Any wait of a blocking operation gives up when the host is slow.
SyncTimeout ==
    /\ "slow-host" \in Overlaps /\ HardwareQuiet
    /\ pc \in LimitedWaits
    /\ IF op.kind = "primer" THEN GetFile
                             ELSE Return("timeout", None) /\ UNCHANGED muxVars
    /\ UNCHANGED <<dsVars, async, completed, asyncRes, hold, timer>>

-----------------------------------------------------------------------------
(***************************************************************************)
(* Save-window accesses (save.c): of_save_begin_cpu and of_save_end_cpu,   *)
(* paired inside of_nvslot_read/write and across an open save file.        *)
(***************************************************************************)

SaveBegin ==
    /\ pc = "app" /\ hold < MaxHold
    /\ InFlight => "save-during-dma" \in Overlaps
    /\ mode' = "cpu" /\ hold' = hold + 1
    /\ UNCHANGED <<fifo, win, resp, dsVars, async, completed, asyncRes, op,
                   syncRes, timer>>

SaveEnd ==
    /\ hold' = IF hold = 0 THEN 0 ELSE hold - 1
    /\ mode' = IF hold <= 1 THEN "bridge" ELSE mode
    /\ pc' = "app"
    /\ UNCHANGED <<fifo, win, resp, dsVars, async, completed, asyncRes, op,
                   syncRes, timer>>

\* The last hold is given up while a bounce copy is pending.
ReleaseOk == async.copying => "save-during-copy" \in Overlaps

\* A save file is opened and closed (a stat opens it and never closes it);
\* of_nvslot_read and of_nvslot_write begin and end in one call.
SaveOpen  == SaveBegin /\ pc' = "app"
SaveClose == pc = "app" /\ hold > 0 /\ (hold = 1 => ReleaseOk) /\ SaveEnd
NvBegin   == (hold = 0 => ReleaseOk) /\ SaveBegin /\ pc' = "nv"
NvEnd     == pc = "nv" /\ SaveEnd

-----------------------------------------------------------------------------
SystemCall ==
    \/ \E r \in AsyncReqs : ReadAsync(r)
    \/ \E k \in SyncKinds, r \in SyncReqs : SyncBegin(k, r)
    \/ Poll \/ SetTimer \/ SaveOpen \/ SaveClose \/ NvBegin

CallStep ==
    \/ AsyncIssue \/ Proceed \/ Retry \/ Gate \/ SyncIssue \/ GetFileIssue
    \/ SyncReturn \/ SyncTimeout \/ NvEnd

Next ==
    \/ HardwareStep \/ HostStep
    \/ DataSlotIrq \/ Tick \/ SystemCall \/ CallStep

Spec == Init /\ [][Next]_vars

\* Clocked logic runs, the CPU runs its system calls to the end, and a timer
\* interrupt that waits is taken as soon as a call returns.  Nothing is assumed
\* of the host.
FwFairness == WF_vars(HardwareStep) /\ WF_vars(CallStep) /\ SF_vars(Tick)
FairSpec == Spec /\ FwFairness

-----------------------------------------------------------------------------
\* The firmware and mux state has its type.
TypeOK ==
    /\ DSTypeOK
    /\ mode \in {"bridge", "cpu"} /\ fifo \in Params \cup {None}
    /\ win \in [Windows -> Params \cup {None}]
    /\ resp \in [reg : BOOLEAN, bridge : BOOLEAN]
    /\ async \in [active : BOOLEAN, req : AsyncReqs \cup {None},
                  copying : BOOLEAN, slice : 0..1,
                  data : Params \cup {None, Junk}]
    /\ completed \in 0..1
    /\ pc \in {"app", "areq", "gate", "quiet", "issued", "getfile", "wait",
               "nv"}
    /\ hold \in 0..MaxHold /\ timer \in BOOLEAN

Abstract == INSTANCE AsyncRead WITH
    Reqs    <- AsyncReqs,
    pending <- IF async.active THEN async.req ELSE None,
    result  <- asyncRes

\* Every async read is delivered once, and a success delivers its own data
\* (hal/file.h: "result is 0 on success or <0 on bridge error").
AsyncContract == Abstract!Spec

\* The data half of the contract as an invariant.
AsyncDataIntact == asyncRes.rc = "ok" => asyncRes.data = asyncRes.req

\* A blocking read or name query that returns 0 returns what it asked for
\* (bridge_read_impl, of_file_get_name).
SyncDataIntact == syncRes.rc = "ok" => syncRes.data = syncRes.req

\* While the DMA of an async read is in flight the bridge owns CRAM0; while its
\* bounce copy is pending the CPU does (core_top.v: "Firmware is responsible
\* for ensuring the inactive side has no in-flight op when flipping the bit").
OwnershipFollowsAsync ==
    async.active => mode = (IF async.copying THEN "cpu" ELSE "bridge")

\* A blocking operation is never past its gate while an async DMA is in flight
\* (async_gate: "Serialize against the async machinery").
GateSerialises ==
    pc \in {"quiet", "issued", "wait", "getfile"} /\ op.kind # "async"
        => ~async.active

\* An async read cannot be in flight for ever: completion or age-out ends it,
\* with no help from the interrupt, from poll, or from the host
\* (of_file_async_tick: "Kernel-driven so recovery does not depend on the app
\* calling of_file_async_poll()").
AsyncEnds == async.active ~> ~async.active

\* A bounce copy that was put off to the tick is delivered, because it is put
\* off only when the timer is armed ("Timer off means nothing would ever advance
\* the copy", async_complete).
CopyEnds == async.copying ~> ~async.copying

\* A blocking operation returns.
CallReturns == pc # "app" ~> pc = "app"
=============================================================================

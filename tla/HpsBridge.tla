----------------------------- MODULE HpsBridge ------------------------------
(***************************************************************************)
(* The MiSTer bridge: one FSM that moves disk sectors between the HPS and  *)
(* SDRAM for the data-slot registers, and puts the words of a download     *)
(* (boot.rom, an instance ini, an app.elf) into their staging windows.     *)
(* The HPS runs one thread, which streams a download or serves sectors.    *)
(*                                                                         *)
(* A sector's contents are one value, an SDRAM block of a sector is one    *)
(* cell, a half-word of a download is its position.                        *)
(***************************************************************************)
EXTENDS Integers, Sequences

CONSTANTS
    Disks, Sectors,
    Images,        \* the images there are: size in sectors, and read-only
    Cells,         \* SDRAM blocks that firmware may name in a request
    Blank,         \* disk -> sector -> first contents
    Window,        \* words in a staging window
    Lengths,       \* lengths of downloads, in half-words
    Downloads,     \* how many downloads the HPS makes (bound)
    Mounts,        \* how many times an image changes (bound)
    Pauses,        \* whether clk_autotune switches the clock
    SlowHost,      \* may the HPS answer a request that has timed out?
    MountAnytime   \* may an image change while a request waits for the HPS?

ASSUME DownloadAssumption == Window \in Nat /\ Lengths \subseteq Nat
ASSUME ImageAssumption ==
    /\ \A i \in Images : i.size \in Nat /\ 0..i.size - 1 \subseteq Sectors
    /\ Blank \in [Disks -> [Sectors -> STRING]]

VARIABLES
    disk, size, ro, mounts,          \* the images, and their latches
    hps,                             \* the sector request the HPS is serving
    strobe, req, dsDone, dsErr,      \* data-slot registers
    state, op, secbuf, err,          \* the sector engine
    mem,                             \* SDRAM cells
    dl, sent, total, todo, inflight, \* the HPS's side of a download
    dlSeen, active, load, len, ovf,  \* ... and the bridge's
    lo, pending, skid, wrAddr,
    loaded, stage,
    pause                            \* the clock switch

imageVars == <<size, ro, mounts>>
engineVars == <<strobe, req, dsDone, dsErr>>
fsmVars == <<state, op, secbuf, err>>
senderVars == <<dl, sent, total, todo>>
pipeVars == <<lo, pending, skid, inflight>>
loadVars == <<dlSeen, active, load, len, ovf>>
ingestVars == <<senderVars, pipeVars, loadVars, wrAddr, loaded, stage>>
bridgeVars == <<disk, imageVars, hps, engineVars, fsmVars, mem, ingestVars,
                pause>>

Kinds == {"boot", "elf", "ini"}
\* app.elf's window lies directly below the ini's.
Base == [boot |-> -1, elf |-> 0, ini |-> Window]
Region == 0..2 * Window          \* the last cell is what follows the windows
NoWord == <<>>
IdleHps == [st |-> "idle", wr |-> FALSE, disk |-> 0, at |-> 0]

NoReq == [disk |-> 0, at |-> 0, cell |-> 0, n |-> 0]
NoImage == [size |-> 0, ro |-> FALSE]
Sizes == {i.size : i \in Images \cup {NoImage}}

NOMOUNT == 1
BADREQ == 2
READONLY == 3
AXI == 4
TIMEOUT == 5

BridgeInit ==
    /\ disk = Blank
    /\ \E f \in [Disks -> Images] :
        size = [d \in Disks |-> f[d].size] /\ ro = [d \in Disks |-> f[d].ro]
    /\ mounts = Mounts
    /\ hps = IdleHps
    /\ strobe = "none" /\ dsDone = FALSE /\ dsErr = 0
    /\ req = NoReq
    /\ state = "idle" /\ err = 0 /\ secbuf = "empty"
    /\ op = [wr |-> FALSE, disk |-> 0, at |-> 0, cell |-> 0, left |-> 0]
    /\ mem = [c \in Cells |-> "empty"]
    /\ dl = "none" /\ sent = 0 /\ total = [k \in Kinds |-> 0]
    /\ todo = Downloads /\ inflight = 0
    /\ dlSeen = FALSE /\ active = FALSE /\ load = "boot" /\ ovf = FALSE
    /\ len = [k \in Kinds |-> 0]
    /\ lo = 0 /\ pending = NoWord /\ skid = NoWord /\ wrAddr = 0
    /\ loaded = [k \in Kinds |-> FALSE]
    /\ stage = [a \in Region |-> NoWord]
    /\ pause = IF Pauses THEN "before" ELSE "after"

---------------------------------------------------------------------------
\* The sector engine.

Paused == pause \in {"on", "switch"}
AckUp == state \notin {"idle", "boot"}
Ready == ~AckUp
WrIdle == state \notin {"drain", "boot"} /\ pending = NoWord /\ skid = NoWord
\* Mutant: the watchdog counts during a transfer only.
Transfers == {"rdData", "wrData"}
WaitsForHps == {"rdReq", "rdData", "wrReq", "wrData"}

\* Mutant: only the first sector of a request is compared with the size.
VerdictFirst(r) ==
    IF size[r.disk] = 0 THEN NOMOUNT
    ELSE IF r.at >= size[r.disk] THEN BADREQ
    ELSE IF strobe = "write" /\ ro[r.disk] THEN READONLY
    ELSE 0

\* The checks of a request, in their order; 0 lets it through.
Verdict(r) ==
    IF size[r.disk] = 0 THEN NOMOUNT
    ELSE IF r.at + r.n > size[r.disk] THEN BADREQ
    ELSE IF strobe = "write" /\ ro[r.disk] THEN READONLY
    ELSE 0

\* An ack that is up for the disk the engine turns to looks like a new one.
FirstState(r) ==
    IF strobe = "write" THEN "fill"
    ELSE IF hps.st = "acking" /\ hps.disk = r.disk /\ op.disk # r.disk
    THEN "rdData" ELSE "rdReq"

Dispatch ==
    /\ state = "idle" /\ pending = NoWord /\ ~Paused /\ strobe # "none"
    /\ op' = [wr |-> strobe = "write", disk |-> req.disk, at |-> req.at,
              cell |-> req.cell, left |-> req.n]
    /\ err' = Verdict(req)
    /\ state' = IF err' # 0 THEN "done" ELSE FirstState(req)
    /\ UNCHANGED <<disk, imageVars, hps, engineVars, secbuf, mem, ingestVars,
                   pause>>

\* S_NEXT: to the next block, or finished.
NextBlock ==
    IF op.left <= 1
    THEN state' = "done" /\ UNCHANGED op
    ELSE /\ state' = IF op.wr THEN "fill" ELSE "rdReq"
         /\ op' = [op EXCEPT !.left = @ - 1, !.at = @ + 1, !.cell = @ + 1]

EndsWith(e) == state' = "done" /\ err' = e

\* S_WR_FILL: SDRAM to the sector buffer.
Fill ==
    /\ state = "fill"
    /\ \/ secbuf' = mem[op.cell] /\ state' = "wrReq" /\ UNCHANGED err
       \/ secbuf' = "torn" /\ EndsWith(AXI)
    /\ UNCHANGED <<disk, imageVars, hps, engineVars, op, mem, ingestVars,
                   pause>>

\* S_DRAIN_AW/W/B: the sector buffer to SDRAM.
Drain ==
    /\ state = "drain"
    /\ \/ mem' = [mem EXCEPT ![op.cell] = secbuf] /\ NextBlock /\ UNCHANGED err
       \/ mem' = [mem EXCEPT ![op.cell] = "torn"] /\ EndsWith(AXI)
          /\ UNCHANGED op
    /\ UNCHANGED <<disk, imageVars, hps, engineVars, secbuf, ingestVars, pause>>

Watchdog ==
    /\ state \in WaitsForHps
    /\ hps.st = "idle" \/ SlowHost
    /\ EndsWith(TIMEOUT)
    /\ UNCHANGED <<disk, imageVars, hps, engineVars, op, secbuf, mem,
                   ingestVars,
                   pause>>

\* The registers take DONE and drop the strobe; only then does ack fall.
Capture ==
    /\ state = "done" /\ strobe # "none"
    /\ strobe' = "none" /\ dsDone' = TRUE /\ dsErr' = err
    /\ UNCHANGED <<disk, imageVars, hps, req, fsmVars, mem, ingestVars, pause>>

Release ==
    /\ state = "done" /\ strobe = "none"
    /\ state' = "idle"
    /\ UNCHANGED <<disk, imageVars, hps, engineVars, op, secbuf, err, mem,
                   ingestVars, pause>>

---------------------------------------------------------------------------
\* The HPS serving a sector: it reads the request and its LBA, and later
\* raises ack, moves the block and drops ack.

Pick ==
    /\ hps.st = "idle" /\ dl = "none"
    /\ state \in {"rdReq", "wrReq"}
    /\ hps' = [st |-> "picked", wr |-> state = "wrReq", disk |-> op.disk,
               at |-> op.at]
    /\ UNCHANGED <<disk, imageVars, engineVars, fsmVars, mem, ingestVars,
                   pause>>

AckRise ==
    /\ hps.st = "picked"
    /\ hps' = [hps EXCEPT !.st = "acking"]
    /\ state' = IF hps.disk # op.disk THEN state
                ELSE IF state = "rdReq" THEN "rdData"
                ELSE IF state = "wrReq" THEN "wrData" ELSE state
    /\ UNCHANGED <<disk, imageVars, engineVars, op, secbuf, err, mem,
                   ingestVars,
                   pause>>

\* The block's 256 half-words go into the sector buffer, or come out of it.
Block ==
    IF hps.wr
    THEN /\ disk' = [disk EXCEPT ![hps.disk][hps.at] =
                IF state \in {"wrReq", "wrData"} THEN secbuf ELSE "torn"]
         /\ UNCHANGED secbuf
    ELSE /\ secbuf' = IF state = "rdData" THEN disk[hps.disk][hps.at]
                      ELSE secbuf
         /\ UNCHANGED disk

AckFall ==
    /\ hps.st = "acking"
    /\ hps' = IdleHps
    /\ Block
    /\ IF hps.disk = op.disk /\ state = "wrData" THEN NextBlock
       ELSE /\ state' = IF hps.disk = op.disk /\ state = "rdData" THEN "drain"
                        ELSE state
            /\ UNCHANGED op
    /\ UNCHANGED <<imageVars, engineVars, err, mem, ingestVars, pause>>

\* What restarts the core, but not the bridge: an image put in or changed, an
\* ini that has been loaded, the switch of the clock.
Restarts ==
    \/ \E d \in Disks : size'[d] # size[d] /\ size'[d] # 0
    \/ loaded'["ini"] /\ ~loaded["ini"]
    \/ pause = "on" /\ pause' = "switch"

Registers ==
    IF Restarts
    THEN strobe' = "none" /\ dsDone' = FALSE /\ dsErr' = 0 /\ req' = NoReq
    ELSE UNCHANGED engineVars

\* img_mounted: an image is put in, changed or taken out.
Mount ==
    /\ state \in {"idle", "boot"} \/ MountAnytime
    /\ hps.st = "idle" /\ dl = "none"
    /\ mounts > 0 /\ mounts' = mounts - 1
    /\ \E d \in Disks, i \in Images \cup {NoImage} :
        /\ i.size # size[d]
        /\ size' = [size EXCEPT ![d] = i.size]
        /\ ro' = [ro EXCEPT ![d] = i.ro]
    /\ UNCHANGED <<disk, hps, fsmVars, mem, ingestVars, pause>>
    /\ Registers

---------------------------------------------------------------------------
\* Downloads.  ioctl_wait reaches the HPS with a word's delay: when it rises,
\* up to two half-words are still on their way.

IoctlWait == pending # NoWord \/ Paused

Throttle(nextPending, nextPause) ==
    LET wait == nextPending # NoWord \/ nextPause \in {"on", "switch"}
    IN  IF wait /\ ~IoctlWait /\ dl # "none" /\ dlSeen
        THEN inflight' \in 0..2
        ELSE inflight' = IF wait THEN inflight ELSE 0

PipelineEmpty == pending = NoWord /\ skid = NoWord /\ state # "boot"

\* Downloads are apart in time: the last one's words have all been written.
DlStart ==
    /\ dl = "none" /\ ~dlSeen /\ hps.st = "idle" /\ PipelineEmpty /\ todo > 0
    /\ dl' \in Kinds \ {"boot"}
    /\ sent' = 0 /\ todo' = todo - 1
    /\ UNCHANGED <<disk, imageVars, hps, engineVars, fsmVars, mem, total,
                   pipeVars, loadVars, wrAddr, loaded, stage, pause>>

\* The edges of ioctl_download are put off while the bridge is paused.
StartEdge ==
    /\ dl # "none" /\ ~dlSeen /\ ~Paused
    /\ \E n \in Lengths : total' = [total EXCEPT ![dl] = n]
    /\ dlSeen' = TRUE /\ active' = TRUE /\ load' = dl /\ ovf' = FALSE
    /\ len' = [len EXCEPT ![dl] = 0]
    /\ loaded' = [loaded EXCEPT ![dl] = FALSE]
    /\ lo' = 0 /\ pending' = NoWord /\ skid' = NoWord /\ inflight' = 0
    /\ wrAddr' = Base[dl]
    /\ UNCHANGED <<disk, imageVars, hps, engineVars, fsmVars, mem, dl, sent,
                   todo, stage, pause>>

\* Mutant: there is no skid.
PostOver(word) == pending' = word /\ UNCHANGED skid

\* A completed word takes the free slot, or else the skid.
Post(word) ==
    IF pending = NoWord
    THEN pending' = word /\ UNCHANGED skid
    ELSE skid' = word /\ UNCHANGED pending

\* Mutant: the window is checked one half-word late.
StageFullLate == load # "boot" /\ len[load] > 2 * Window

StageFull == load # "boot" /\ len[load] >= 2 * Window

Accept ==
    IF StageFull
    THEN /\ ovf' = TRUE /\ lo' = 0
         /\ UNCHANGED <<len, pending, skid>>
    ELSE /\ len' = [len EXCEPT ![load] = @ + 1]
         /\ lo' = IF lo = 0 THEN sent + 1 ELSE 0
         /\ IF lo = 0 THEN UNCHANGED <<pending, skid>>
                      ELSE Post(<<lo, sent + 1>>)
         /\ UNCHANGED ovf

HpsWord ==
    /\ dl # "none" /\ dlSeen /\ sent < total[dl]
    /\ ~IoctlWait \/ inflight > 0
    /\ Accept
    /\ sent' = sent + 1
    /\ IF IoctlWait THEN inflight' = inflight - 1 ELSE Throttle(pending', pause)
    /\ UNCHANGED <<disk, imageVars, hps, engineVars, fsmVars, mem, dl, total,
                   todo, dlSeen, active, load, wrAddr, loaded, stage, pause>>

DlEnd ==
    /\ dl # "none" /\ dlSeen /\ sent = total[dl]
    /\ dl' = "none" /\ inflight' = 0
    /\ UNCHANGED <<disk, imageVars, hps, engineVars, fsmVars, mem, sent, total,
                   todo, loadVars, lo, pending, skid, wrAddr, loaded, stage,
                   pause>>

\* The end flushes an odd half-word through the same slot.
EndEdge ==
    /\ dl = "none" /\ dlSeen /\ ~Paused
    /\ dlSeen' = FALSE /\ active' = FALSE /\ lo' = 0
    /\ IF lo = 0 THEN UNCHANGED <<pending, skid>> ELSE Post(<<lo, 0>>)
    /\ UNCHANGED <<disk, imageVars, hps, engineVars, fsmVars, mem, senderVars,
                   inflight, load, len, ovf, wrAddr, loaded, stage, pause>>

TakeWord ==
    /\ state = "idle" /\ pending # NoWord
    /\ state' = "boot"
    /\ UNCHANGED <<disk, imageVars, hps, engineVars, op, secbuf, err, mem,
                   ingestVars, pause>>

\* The write response frees the slot or promotes the skid.
WordWritten ==
    /\ state = "boot"
    /\ state' = "idle"
    /\ stage' = IF wrAddr \in Region THEN [stage EXCEPT ![wrAddr] = pending]
                ELSE stage
    /\ wrAddr' = wrAddr + 1
    /\ pending' = skid /\ skid' = NoWord /\ Throttle(skid, pause)
    /\ UNCHANGED <<disk, imageVars, hps, engineVars, op, secbuf, err, mem,
                   senderVars, loadVars, lo, loaded, pause>>

MarkLoaded ==
    /\ ~active /\ lo = 0 /\ PipelineEmpty
    /\ ~loaded[load] /\ len[load] # 0 /\ (load = "boot" \/ ~ovf)
    /\ loaded' = [loaded EXCEPT ![load] = TRUE]
    /\ UNCHANGED <<disk, imageVars, hps, fsmVars, mem, senderVars, pipeVars,
                   loadVars, wrAddr, stage, pause>>
    /\ Registers

\* Mutant: words on their way are not waited for.
PauseAtOnce == Paused /\ state = "idle" /\ pending = NoWord /\ skid = NoWord

\* What the clock switch waits for; the last term is a count of quiet cycles.
PauseQuiet ==
    /\ Paused /\ state = "idle" /\ pending = NoWord /\ skid = NoWord
    /\ inflight = 0

\* clk_autotune pauses the bridge, switches the clock once the bridge is quiet,
\* restarts the core and lets the bridge go on; it does so once.
SetPause ==
    /\ \/ pause = "before" /\ pause' = "on"
       \/ pause = "on" /\ PauseQuiet /\ pause' = "switch"
       \/ pause = "switch" /\ pause' = "after"
    /\ Throttle(pending, pause')
    /\ UNCHANGED <<disk, imageVars, hps, fsmVars, mem, senderVars, loadVars, lo,
                   pending, skid, wrAddr, loaded, stage>>
    /\ Registers

---------------------------------------------------------------------------
Engine == Dispatch \/ Fill \/ Drain \/ Capture \/ Release
Ingest == StartEdge \/ EndEdge \/ TakeWord \/ WordWritten \/ MarkLoaded
Sender == HpsWord \/ DlEnd
Bridge ==
    \/ Engine \/ Watchdog \/ Ingest \/ Sender
    \/ Pick \/ AckRise \/ AckFall \/ Mount \/ DlStart \/ SetPause

---------------------------------------------------------------------------
\* The file the HPS sent, as words.
FileWord(k, i) == <<2 * i + 1, IF 2 * i + 2 <= total[k] THEN 2 * i + 2 ELSE 0>>

\* A staging window whose LOADED flag is up holds the whole file, whatever
\* else was downloaded, and the length register says how much that is.
LoadedIsWhole ==
    \A k \in {"elf", "ini"} : loaded[k] =>
        /\ len[k] = total[k]
        /\ \A i \in 0..(total[k] - 1) \div 2 :
            i < Window /\ stage[Base[k] + i] = FileWord(k, i)

\* No download writes outside the two windows.
StaysInWindow == stage[2 * Window] = NoWord

\* While the clock is switched neither the engine nor a half-finished download
\* moves in the bridge, which is not reset.
QuietIsStatic ==
    [][pause = "switch" =>
        UNCHANGED <<fsmVars, dlSeen, active, load, len, ovf, lo,
                    pending, skid, wrAddr, stage>>]_bridgeVars

\* The engine writes no image that is read-only, and nothing past its end.
RespectsImage ==
    [][\A d \in Disks, s \in Sectors :
        disk'[d][s] # disk[d][s] => ~ro[d] /\ s < size[d]]_bridgeVars
=============================================================================

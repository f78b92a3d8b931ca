------------------------------ MODULE BlockDev ------------------------------
(***************************************************************************)
(* The MiSTer block device: sector reads and writes of FatFs, cut into     *)
(* commands for the bridge, moved directly or through the scratch window,  *)
(* with the cache maintenance around the DMA and the retries after it.     *)
(***************************************************************************)
EXTENDS HpsBridge, FiniteSets

CONSTANTS
    Starts, Counts,    \* first sectors and lengths of calls
    Payloads,          \* contents of writes
    Ways,              \* of reaching a buffer: cached, uncached, bounce
    Buffer, Scratch,   \* the first cell of the caller's buffer, of the scratch
    Chunk,             \* sectors in a command
    Addressable,       \* sectors that a 32-bit byte offset reaches
    RetryMax,          \* SECTOR_RETRY_MAX
    Calls,             \* how many reads and writes are made (bound)
    CpuGivesUp,        \* the waits whose time limit may be reached
    Unasked            \* lines filled or evicted unasked in a call (bound)

\* FatFs asks for a sector at least.
ASSUME CallAssumption ==
    /\ Chunk \in Nat \ {0} /\ Addressable \in Nat \ {0}
    /\ Starts \subseteq Nat \cap Sectors /\ Counts \subseteq Nat \ {0}
    /\ \A data \in Payloads : data \in Seq(STRING) /\ data # <<>>
\* The scratch lies behind the longest buffer.
ASSUME BufferAssumption ==
    /\ Ways \subseteq {"cached", "uncached", "bounce"}
    /\ Buffer \in Int /\ Scratch \in Int /\ Buffer <= Scratch
    /\ Buffer..Scratch + Chunk - 1 \subseteq Cells
    /\ \A n \in Counts : Buffer + n <= Scratch
    /\ \A data \in Payloads : Buffer + Len(data) <= Scratch

VARIABLES
    pc,                \* where the call is
    call,              \* the call, as in SectorStore
    way,               \* how its buffer is reached
    done, attempt,     \* sectors finished, dispatches repeated
    armed,             \* retries_armed
    cache,             \* the D-cache's lines of each cell
    moved,             \* what a bounced read has copied out
    got, result,       \* what the last call returned
    half, calls, moves

callVars == <<call, way, done, attempt, moved, got, result, calls>>
fwVars == <<pc, half, callVars, armed, cache, moves>>
vars == <<bridgeVars, fwVars>>

NoLine == [st |-> "none", v |-> "empty"]
Clean(v) == [st |-> "clean", v |-> v]
Dirty(v) == [st |-> "dirty", v |-> v]
NoHalf == [disk |-> 0, hi |-> 0, lo |-> 0]
Nothing == [disk |-> 0, at |-> 0, data |-> <<>>, rd |-> 0]

\* What a CPU load through the cached view returns.
View(c) == IF cache[c].st = "none" THEN mem[c] ELSE cache[c].v

Init ==
    /\ BridgeInit
    /\ pc = "app" /\ call = Nothing /\ way \in Ways
    /\ done = 0 /\ attempt = 0 /\ armed = FALSE
    /\ cache = [c \in Cells |-> NoLine]
    /\ moved = <<>> /\ got = <<>> /\ result = "ok"
    /\ half = NoHalf /\ calls = Calls
    /\ moves = Unasked

---------------------------------------------------------------------------
\* The cache: range operations, and what the hardware does unasked.

With(f, cells, g(_)) == [c \in Cells |-> IF c \in cells THEN g(c) ELSE f[c]]

\* Mutant: stale and dirty lines stay.
InvalNothing(cells) == UNCHANGED <<cache, mem>>

Inval(cells) ==
    /\ cache' = With(cache, cells, LAMBDA c : NoLine)
    /\ UNCHANGED mem

CleanRange(cells) ==
    /\ mem' = With(mem, cells, View)
    /\ cache' = With(cache, cells, LAMBDA c :
                    IF cache[c].st = "dirty" THEN Clean(View(c)) ELSE cache[c])

LineFill(c) ==
    /\ cache[c].st = "none"
    /\ cache' = [cache EXCEPT ![c] = Clean(mem[c])]
    /\ UNCHANGED mem

Evict(c) ==
    /\ cache[c].st # "none"
    /\ mem' = IF cache[c].st = "dirty" THEN [mem EXCEPT ![c] = cache[c].v]
              ELSE mem
    /\ cache' = [cache EXCEPT ![c] = NoLine]

---------------------------------------------------------------------------
\* of_blockdev_read, of_blockdev_write.

Total == IF call.rd > 0 THEN call.rd ELSE Len(call.data)
ChunkLen == IF Total - done > Chunk THEN Chunk ELSE Total - done
BufferCells == {Buffer + i - 1 : i \in 1..Total}
Target == IF way = "bounce" THEN Scratch ELSE Buffer + done
ChunkCells == {Target + i - 1 : i \in 1..ChunkLen}

\* On lines elsewhere it makes no difference.
CacheStep ==
    /\ pc \in {"gate", "wait"} /\ moves > 0 /\ moves' = moves - 1
    /\ \E c \in ChunkCells : LineFill(c) \/ Evict(c)
    /\ UNCHANGED <<disk, imageVars, hps, engineVars, fsmVars, ingestVars, pause,
                   pc, half, callVars, armed>>

Present(d) == size[d] # 0

\* The caller's buffer as it is when the call is made: written blocks are in
\* the cache, and so may be what is left of a buffer that is read into.
Prepare(data, dirty) ==
    LET cell(i) == Buffer + i - 1
        used == {cell(i) : i \in DOMAIN data}
        val(c) == data[c - Buffer + 1]
    IN  CASE way' = "cached" /\ dirty ->
                /\ cache' = With(cache, used, LAMBDA c : Dirty(val(c)))
                /\ UNCHANGED mem
          [] way' = "uncached" ->
                /\ cache' = With(cache, Buffer..Scratch - 1, LAMBDA c : NoLine)
                /\ mem' = IF dirty THEN With(mem, used, val) ELSE mem
          [] OTHER -> UNCHANGED <<cache, mem>>

Begin(d, at, n, data) ==
    /\ pc = "app" /\ calls > 0
    /\ calls' = calls - 1 /\ moves' = Unasked
    /\ way' \in Ways
    /\ IF \/ ~Present(d) \/ (n = 0 /\ ro[d])
          \/ at + n + Len(data) > Addressable
       THEN /\ result' = "error"
            /\ UNCHANGED <<pc, call, cache, mem>>
       ELSE /\ pc' = "chunk"
            /\ call' = [disk |-> d, at |-> at, data |-> data, rd |-> n]
            /\ IF n = 0 THEN Prepare(data, TRUE)
               ELSE \E dirty \in BOOLEAN :
                        Prepare([i \in 1..n |-> "old"], dirty)
            /\ UNCHANGED result
    /\ done' = 0 /\ attempt' = 0 /\ moved' = <<>>
    /\ UNCHANGED <<disk, imageVars, hps, engineVars, fsmVars, ingestVars, pause,
                   armed, got, half>>

Read == \E d \in Disks, at \in Starts, n \in Counts : Begin(d, at, n, <<>>)
Write ==
    \E d \in Disks, at \in Starts, data \in Payloads : Begin(d, at, 0, data)

\* Before a command: no dirty line over a read's target, none left behind by
\* a write's source.  A bounced write goes through the cached scratch.
StartChunk ==
    /\ pc = "chunk" /\ pc' = "gate"
    /\ CASE call.rd > 0 /\ way = "cached" -> Inval(ChunkCells)
         [] call.rd = 0 /\ way = "cached" -> CleanRange(ChunkCells)
         [] call.rd = 0 /\ way = "bounce" ->
              LET val(c) == call.data[done + c - Scratch + 1]
              IN  /\ mem' = With(mem, ChunkCells, val)
                  /\ cache' = With(cache, ChunkCells, LAMBDA c : Clean(val(c)))
         [] OTHER -> UNCHANGED <<cache, mem>>
    /\ UNCHANGED <<disk, imageVars, hps, engineVars, fsmVars, ingestVars, pause,
                   callVars, half, armed, moves>>

\* No command before the engine has done with the last one, whose caller may
\* have given up or been reset.
Gate == Ready /\ WrIdle

\* sector_cmd up to DS_COMMAND.
Command ==
    /\ pc = "gate" /\ Gate
    /\ req' = [disk |-> call.disk, at |-> (call.at + done) % Addressable,
               cell |-> Target, n |-> ChunkLen]
    /\ strobe' = IF call.rd > 0 THEN "read" ELSE "write"
    /\ dsDone' = FALSE /\ dsErr' = 0
    /\ pc' = "wait"
    /\ UNCHANGED <<disk, imageVars, hps, fsmVars, mem, ingestVars, pause,
                   callVars, half, armed, cache, moves>>

Return(r) ==
    /\ pc' = "app" /\ call' = Nothing /\ result' = r
    /\ UNCHANGED <<done, moved>>

\* The watchdog's error is repeated once retries are armed.
Repeats == dsErr = TIMEOUT /\ armed /\ attempt < RetryMax

Failed ==
    /\ pc = "wait" /\ dsDone /\ dsErr # 0
    /\ IF Repeats
       THEN /\ attempt' = attempt + 1 /\ pc' = "gate"
            /\ UNCHANGED <<call, done, moved, result>>
       ELSE Return("error") /\ UNCHANGED attempt
    /\ UNCHANGED <<bridgeVars, way, armed, cache, got, half, calls, moves>>

\* After a command: stale lines are dropped, a bounced read is copied out.
Landed ==
    /\ pc = "wait" /\ dsDone /\ dsErr = 0 /\ Ready /\ WrIdle
    /\ IF call.rd > 0 /\ way # "uncached" THEN Inval(ChunkCells)
       ELSE UNCHANGED <<cache, mem>>
    /\ moved' = IF way = "bounce" /\ call.rd > 0
                THEN moved \o [i \in 1..ChunkLen |-> View(Scratch + i - 1)']
                ELSE moved
    /\ done' = done + ChunkLen /\ attempt' = 0
    /\ pc' = IF done' = Total THEN "ret" ELSE "chunk"
    /\ UNCHANGED <<disk, imageVars, hps, engineVars, fsmVars, ingestVars, pause,
                   call, way, armed, got, result, half, calls, moves>>

\* What the caller finds in its buffer.
Found ==
    CASE way = "cached" -> [i \in 1..call.rd |-> View(Buffer + i - 1)]
      [] way = "uncached" -> [i \in 1..call.rd |-> mem[Buffer + i - 1]]
      [] way = "bounce" -> moved

Finish ==
    /\ pc = "ret"
    /\ got' = IF call.rd > 0 THEN Found ELSE got
    /\ Return("ok")
    /\ UNCHANGED <<bridgeVars, way, attempt, armed, cache, half, calls, moves>>

\* SECTOR_TIMEOUT, of the processor's own loops, before a command and in it;
\* it is longer than the bridge's.
CpuTimeout ==
    /\ pc \in CpuGivesUp
    /\ Return("error")
    /\ UNCHANGED <<bridgeVars, way, attempt, armed, cache, got, half, calls,
                   moves>>

EnableRetries ==
    /\ pc = "app" /\ ~armed /\ RetryMax > 0 /\ armed' = TRUE
    /\ UNCHANGED <<bridgeVars, pc, half, callVars, cache, moves>>

---------------------------------------------------------------------------
\* of_blockdev_size: the two halves of a size are two registers, read high,
\* low and high again.

Hi(s) == s \div 2
Lo(s) == s % 2

\* Only looked at where an image can change under it (bound).
SizeBegin ==
    /\ pc = "app" /\ Mounts > 0
    /\ \E d \in Disks :
        /\ Present(d)
        /\ half' = [half EXCEPT !.disk = d]
    /\ pc' = "hi"
    /\ UNCHANGED <<bridgeVars, callVars, armed, cache, moves>>

SizeHi ==
    /\ pc = "hi" /\ pc' = "lo"
    /\ half' = [half EXCEPT !.hi = Hi(size[half.disk])]
    /\ UNCHANGED <<bridgeVars, callVars, armed, cache, moves>>

SizeLo ==
    /\ pc = "lo" /\ pc' = "hi2"
    /\ half' = [half EXCEPT !.lo = Lo(size[half.disk])]
    /\ UNCHANGED <<bridgeVars, callVars, armed, cache, moves>>

\* Mutant: the high half is not read again.
SizeTaken == TRUE

SizeSettled == Hi(size[half.disk]) = half.hi

SizeHi2 ==
    /\ pc = "hi2"
    /\ IF SizeSettled THEN pc' = "app" /\ half' = NoHalf
       ELSE pc' = "hi" /\ UNCHANGED half
    /\ UNCHANGED <<bridgeVars, callVars, armed, cache, moves>>

---------------------------------------------------------------------------
\* The core restarts: the call is gone, the cache is empty.
CoreReset ==
    /\ pc' = "app" /\ call' = Nothing /\ half' = NoHalf /\ armed' = FALSE
    /\ result' = IF call = Nothing THEN result ELSE "error"
    /\ cache' = [c \in Cells |-> NoLine]
    /\ UNCHANGED <<way, done, attempt, moved, got, calls, moves>>

Alongside == IF Restarts THEN CoreReset ELSE UNCHANGED fwVars
BridgeStep == Bridge /\ Alongside
Firmware ==
    \/ StartChunk \/ Command \/ Failed \/ Landed \/ Finish
    \/ SizeHi \/ SizeLo \/ SizeHi2

Next ==
    \/ BridgeStep \/ Firmware \/ CacheStep
    \/ Read \/ Write \/ SizeBegin \/ EnableRetries \/ CpuTimeout

\* Logic and firmware run, the watchdog counts, a request the HPS has read is
\* answered and a download it has started goes on.  That it ever looks at a
\* request is not assumed: it does not while its menu is open.
Fairness ==
    /\ WF_vars(Engine /\ Alongside)
    /\ WF_vars(Ingest /\ Alongside)
    /\ WF_vars(Sender /\ Alongside)
    /\ WF_vars(Watchdog /\ Alongside)
    /\ WF_vars((AckRise \/ AckFall) /\ Alongside)
    /\ WF_vars(pause # "before" /\ SetPause /\ Alongside)
    /\ WF_vars(Firmware)

Spec == Init /\ [][Next]_vars
FairSpec == Spec /\ Fairness

---------------------------------------------------------------------------
TypeOK ==
    /\ disk \in [Disks -> [Sectors -> STRING]]
    /\ size \in [Disks -> Sizes] /\ ro \in [Disks -> BOOLEAN]
    /\ hps.st \in {"idle", "picked", "acking"} /\ hps.at \in Sectors
    /\ strobe \in {"none", "read", "write"} /\ dsErr \in 0..TIMEOUT
    /\ state \in {"idle", "boot", "fill", "drain", "done"} \cup
                 {"rdReq", "rdData", "wrReq", "wrData"}
    /\ op.at \in Sectors /\ (state \in {"fill", "drain"} => op.cell \in Cells)
    /\ cache \in [Cells -> [st : {"none", "clean", "dirty"}, v : STRING]]
    /\ pc \in {"app", "chunk", "gate", "wait", "ret", "hi", "lo", "hi2"}
    /\ attempt \in 0..RetryMax /\ done \in 0..Cardinality(Cells)
    /\ inflight \in 0..2 /\ wrAddr \in -1..2 * Window + 1

\* The calls keep what a disk promises FatFs: a read that succeeds returns
\* the sectors asked for, through every way of reaching the buffer, and a
\* write that succeeds is on the disk.
Store == INSTANCE SectorStore
ImplementsStore == Store!Spec

\* The size a call returns is one an image really has or had: the two
\* registers are never taken from different images.
SizeUntorn ==
    pc = "hi2" /\ SizeSettled => 2 * half.hi + half.lo \in Sizes

\* Every call returns, also when the HPS never looks at the request.
CallReturns == (pc # "app") ~> (pc = "app")

\* A download the HPS has started is taken in to its end, also while the
\* sector engine waits for the very HPS that streams it.
DownloadEnds == (dl # "none") ~> (dl = "none" /\ ~active /\ pending = NoWord)
=============================================================================

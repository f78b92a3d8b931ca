--------------------------- MODULE BlockDevProofs ---------------------------
(***************************************************************************)
(* Proofs about the MiSTer bridge and the block device on it.              *)
(***************************************************************************)
EXTENDS BlockDev, SequenceTheorems, TLAPS

\* Words are pairs of half-words, or none.
Words == Seq(Nat)

IngestTypeOK ==
    /\ dl \in {"none", "elf", "ini"} /\ load \in Kinds
    /\ sent \in Nat /\ total \in [Kinds -> Nat] /\ len \in [Kinds -> Nat]
    /\ lo \in Nat /\ inflight \in 0..2 /\ wrAddr \in Int
    /\ pending \in Words /\ skid \in Words /\ stage \in [Region -> Words]
    /\ loaded \in [Kinds -> BOOLEAN]

\* 1 if there is something.
Filled(word) == IF word = NoWord THEN 0 ELSE 1
Half == IF lo = 0 THEN 0 ELSE 1

\* How a download goes through the bridge's slots: whatever is on its way when
\* the HPS is told to wait still finds a place.
IFlow ==
    /\ active <=> dlSeen
    /\ ~dlSeen => lo = 0
    /\ dlSeen => load # "boot" /\ (dl # "none" => load = dl)
    /\ dl # "none" /\ ~dlSeen => PipelineEmpty /\ sent = 0
    /\ state = "boot" => pending # NoWord
    /\ skid # NoWord => pending # NoWord /\ inflight + Half = 0
    /\ pending # NoWord => inflight + Half <= 2
    /\ inflight # 0 => dl # "none" /\ dlSeen /\ IoctlWait

\* Words written, and words that have been put together.
Written == wrAddr - Base[load]
Posted == Written + Filled(pending) + Filled(skid)
Fits(n) == IF n <= 2 * Window THEN n ELSE 2 * Window

\* What has been taken of the file, and what has become of it.
ICount ==
    load # "boot" =>
        /\ Written \in Nat
        /\ dlSeen => /\ sent <= total[load]
                     /\ dl = "none" => sent = total[load]
                     /\ len[load] = Fits(sent) /\ (ovf <=> sent > 2 * Window)
                     /\ 2 * Posted + Half = len[load]
                     /\ lo # 0 => lo = len[load]
        /\ ~dlSeen => /\ len[load] = Fits(total[load])
                      /\ ovf <=> total[load] > 2 * Window
                      /\ 2 * Posted \in {len[load], len[load] + 1}

IContent ==
    /\ load = "boot" => pending = NoWord /\ len["boot"] = 0
    /\ load # "boot" =>
        /\ \A i \in 0..Written - 1 : stage[Base[load] + i] = FileWord(load, i)
        /\ pending # NoWord => pending = FileWord(load, Written)
        /\ skid # NoWord => skid = FileWord(load, Written + 1)

\* A window is only written while its flag is down.
ILoaded == loaded[load] => ~dlSeen /\ pending = NoWord

IIngest ==
    /\ IngestTypeOK /\ IFlow /\ ICount /\ IContent /\ ILoaded
    /\ LoadedIsWhole /\ StaysInWindow

-----------------------------------------------------------------------------
(***************************************************************************)
(* Downloads.                                                              *)
(***************************************************************************)

\* The firmware's steps do not touch a download, the engine or the pause.
LEMMA NextCases ==
  ASSUME [Next]_vars
  PROVE  Bridge \/ UNCHANGED <<fsmVars, hps, imageVars, disk, ingestVars,
                               pause>>
<1> USE DEF bridgeVars
<1>1. CASE BridgeStep
  BY <1>1 DEF BridgeStep
<1>2. CASE Firmware
  BY <1>2 DEF Firmware, StartChunk, Command, Failed, Landed, Finish, SizeHi,
              SizeLo, SizeHi2
<1>3. CASE CacheStep
  BY <1>3 DEF CacheStep
<1>4. CASE Read \/ Write
  BY <1>4 DEF Read, Write, Begin
<1>5. CASE SizeBegin \/ EnableRetries \/ CpuTimeout
  BY <1>5 DEF SizeBegin, EnableRetries, CpuTimeout
<1>6. CASE UNCHANGED vars
  BY <1>6 DEF vars
<1>7. QED
  BY <1>1, <1>2, <1>3, <1>4, <1>5, <1>6 DEF Next

\* The windows, one after the other.
LEMMA Bases ==
  /\ Base["elf"] = 0 /\ Base["ini"] = Window /\ Base["boot"] = -1
  /\ \A k \in Kinds : Base[k] \in Int
  /\ Window \in Nat /\ Lengths \subseteq Nat
BY DownloadAssumption DEF Base, Kinds

\* What the wait signal makes of the words on their way.
LEMMA ThrottleGives ==
  ASSUME NEW p, NEW q, Throttle(p, q), inflight \in 0..2
  PROVE  /\ inflight' \in 0..2
         /\ inflight' # 0 =>
              /\ p # NoWord \/ q \in {"on", "switch"}
              /\ inflight # 0 \/ (~IoctlWait /\ dl # "none" /\ dlSeen)
         /\ IoctlWait /\ inflight' # 0 => inflight' = inflight
BY DEF Throttle

\* A step that leaves the download alone.
LEMMA IngestApart ==
  ASSUME IIngest, UNCHANGED <<ingestVars, pause>>,
         state' = "boot" => state = "boot" \/ pending # NoWord
  PROVE  IIngest'
<1>1. /\ UNCHANGED <<dl, sent, total, inflight>>
      /\ UNCHANGED <<dlSeen, active, load, len, ovf, lo, pending, skid, wrAddr>>
      /\ UNCHANGED <<loaded, stage, pause>>
  BY DEF ingestVars, senderVars, pipeVars, loadVars
<1>2. IngestTypeOK'
  BY <1>1 DEF IIngest, IngestTypeOK
<1>3. IFlow'
  BY <1>1 DEF IIngest, IFlow, PipelineEmpty, IoctlWait, Paused, Half
<1>4. ICount'
  BY <1>1 DEF IIngest, ICount, Written, Posted, Half
<1>5. IContent'
  BY <1>1 DEF IIngest, IContent, Written, FileWord
<1>6. ILoaded' /\ LoadedIsWhole' /\ StaysInWindow'
  BY <1>1 DEF IIngest, ILoaded, LoadedIsWhole, StaysInWindow, FileWord
<1>7. QED
  BY <1>2, <1>3, <1>4, <1>5, <1>6 DEF IIngest

\* The sector engine and the HPS that serves it leave it alone.
LEMMA EngineApart ==
  ASSUME Engine \/ Watchdog \/ Pick \/ AckRise \/ AckFall \/ Mount \/ TakeWord
  PROVE  /\ UNCHANGED <<ingestVars, pause>>
         /\ state' = "boot" => state = "boot" \/ pending # NoWord
<1>1. CASE Dispatch
  BY <1>1 DEF Dispatch, FirstState
<1>2. CASE Fill \/ Drain
  BY <1>2 DEF Fill, Drain, NextBlock, EndsWith
<1>3. CASE Watchdog \/ Capture \/ Release \/ Pick \/ Mount \/ TakeWord
  BY <1>3 DEF Watchdog, Capture, Release, Pick, Mount, EndsWith, TakeWord,
              fsmVars
<1>4. CASE AckRise \/ AckFall
  BY <1>4 DEF AckRise, AckFall, NextBlock
<1>5. QED
  BY <1>1, <1>2, <1>3, <1>4 DEF Engine

\* A download that starts finds the slots empty.
LEMMA DlStartKeeps ==
  ASSUME IIngest, DlStart
  PROVE  IIngest'
<1>1. /\ dl = "none" /\ ~dlSeen /\ PipelineEmpty
      /\ dl' \in Kinds \ {"boot"} /\ sent' = 0
      /\ UNCHANGED <<state, total, inflight, dlSeen, active, load, len, ovf>>
      /\ UNCHANGED <<lo, pending, skid, wrAddr, loaded, stage, pause>>
  BY DEF DlStart, fsmVars, pipeVars, loadVars
<1>2. IngestTypeOK'
  BY <1>1 DEF IIngest, IngestTypeOK, Kinds
<1>3. IFlow'
  BY <1>1 DEF IIngest, IFlow, PipelineEmpty, IoctlWait, Paused, Half
<1>4. ICount'
  BY <1>1 DEF IIngest, ICount, Written, Posted, Half
<1>5. IContent'
  BY <1>1 DEF IIngest, IContent, Written, FileWord
<1>6. ILoaded' /\ LoadedIsWhole' /\ StaysInWindow'
  BY <1>1 DEF IIngest, ILoaded, LoadedIsWhole, StaysInWindow, FileWord
<1>7. QED
  BY <1>2, <1>3, <1>4, <1>5, <1>6 DEF IIngest

\* The start edge begins the window anew and takes its flag down.
LEMMA StartEdgeKeeps ==
  ASSUME IIngest, StartEdge
  PROVE  IIngest'
<1>1. /\ dl # "none" /\ ~dlSeen /\ UNCHANGED <<state, dl, sent, stage, pause>>
      /\ dlSeen' = TRUE /\ active' = TRUE /\ load' = dl /\ ovf' = FALSE
      /\ len' = [len EXCEPT ![dl] = 0]
      /\ loaded' = [loaded EXCEPT ![dl] = FALSE]
      /\ lo' = 0 /\ pending' = NoWord /\ skid' = NoWord /\ inflight' = 0
      /\ wrAddr' = Base[dl]
  BY DEF StartEdge, fsmVars
<1>2. PICK n \in Lengths : total' = [total EXCEPT ![dl] = n]
  BY DEF StartEdge
<1>3. /\ IngestTypeOK /\ dl \in Kinds \ {"boot"} /\ n \in Nat
      /\ PipelineEmpty /\ sent = 0
  BY <1>1, <1>2, Bases DEF IIngest, IngestTypeOK, IFlow, Kinds
<1>4. /\ IngestTypeOK'
      /\ total'[dl] = n /\ len'[dl] = 0
      /\ \A j \in Kinds \ {dl} : total'[j] = total[j] /\ len'[j] = len[j]
  BY <1>1, <1>2, <1>3, Bases DEF IngestTypeOK, Words, NoWord
<1>5. IFlow'
  BY <1>1, <1>3 DEF IIngest, IFlow, PipelineEmpty, Half
<1>6. ICount'
  <2>1. Written' = 0 /\ Posted' = 0 /\ Half' = 0
    BY <1>1, <1>3, Bases DEF Written, Posted, Filled, Half
  <2>2. load' # "boot" /\ len'[load'] = 0 /\ total'[load'] = n /\ sent' = 0
    BY <1>1, <1>3, <1>4
  <2>3. Fits(0) = 0 /\ ~(0 > 2 * Window)
    BY Bases DEF Fits
  <2>4. QED
    BY <2>1, <2>2, <2>3, <1>1, <1>3 DEF ICount
<1>7. IContent'
  BY <1>1, <1>3, Bases DEF IContent, Written
<1>8. ILoaded'
  BY <1>1, <1>3 DEF ILoaded, IngestTypeOK
<1>9. LoadedIsWhole'
  <2>1. SUFFICES ASSUME NEW j \in {"elf", "ini"}, loaded'[j]
        PROVE  /\ len'[j] = total'[j]
               /\ \A i \in 0..(total'[j] - 1) \div 2 :
                   i < Window /\ stage'[Base[j] + i] = FileWord(j, i)'
    BY DEF LoadedIsWhole
  <2>2. j # dl /\ loaded[j]
    BY <2>1, <1>1, <1>3 DEF IngestTypeOK, Kinds
  <2>3. total'[j] = total[j] /\ len'[j] = len[j]
    BY <2>2, <2>1, <1>4 DEF Kinds
  <2>4. QED
    BY <2>2, <2>3, <2>1, <1>1 DEF IIngest, LoadedIsWhole, FileWord
<1>10. StaysInWindow'
  BY <1>1 DEF IIngest, StaysInWindow
<1>11. QED
  BY <1>4, <1>5, <1>6, <1>7, <1>8, <1>9, <1>10 DEF IIngest

\* The end of the HPS's stream.
LEMMA DlEndKeeps ==
  ASSUME IIngest, DlEnd
  PROVE  IIngest'
<1>1. /\ dl # "none" /\ dlSeen /\ sent = total[dl] /\ dl' = "none"
      /\ inflight' = 0
      /\ UNCHANGED <<state, sent, total, dlSeen, active, load, len, ovf, lo>>
      /\ UNCHANGED <<pending, skid, wrAddr, loaded, stage, pause>>
  BY DEF DlEnd, fsmVars, loadVars
<1>2. IngestTypeOK'
  BY <1>1 DEF IIngest, IngestTypeOK
<1>3. IFlow'
  BY <1>1 DEF IIngest, IFlow, PipelineEmpty, Half, IngestTypeOK
<1>4. ICount'
  BY <1>1 DEF IIngest, IFlow, ICount, Written, Posted, Half
<1>5. IContent'
  BY <1>1 DEF IIngest, IContent, Written, FileWord
<1>6. ILoaded' /\ LoadedIsWhole' /\ StaysInWindow'
  BY <1>1 DEF IIngest, ILoaded, LoadedIsWhole, StaysInWindow, FileWord
<1>7. QED
  BY <1>2, <1>3, <1>4, <1>5, <1>6 DEF IIngest

\* The clock switch holds the HPS up or lets it go on.
LEMMA SetPauseKeeps ==
  ASSUME IIngest, SetPause
  PROVE  IIngest'
<1>1. /\ \/ pause = "before" /\ pause' = "on"
         \/ pause = "on" /\ inflight = 0 /\ pause' = "switch"
         \/ pause = "switch" /\ pause' = "after"
      /\ Throttle(pending, pause')
      /\ UNCHANGED <<state, dl, sent, total, dlSeen, active, load, len, ovf,
                     lo>>
      /\ UNCHANGED <<pending, skid, wrAddr, loaded, stage>>
  BY DEF SetPause, fsmVars, loadVars, senderVars, PauseQuiet
<1>2. /\ inflight \in 0..2 /\ inflight' \in 0..2
      /\ inflight' # 0 =>
           /\ pending # NoWord \/ pause' \in {"on", "switch"}
           /\ inflight # 0 \/ (~IoctlWait /\ dl # "none" /\ dlSeen)
      /\ IoctlWait /\ inflight' # 0 => inflight' = inflight
  BY <1>1, ThrottleGives DEF IIngest, IngestTypeOK
<1>3. IngestTypeOK'
  BY <1>1, <1>2 DEF IIngest, IngestTypeOK
<1>4. IFlow'
  <2>1. IoctlWait' <=> pending # NoWord \/ pause' \in {"on", "switch"}
    BY <1>1 DEF IoctlWait, Paused
  <2>2. pending # NoWord => inflight' = 0 \/ inflight' = inflight
    BY <1>2 DEF IoctlWait
  <2>3. inflight' # 0 => dl # "none" /\ dlSeen /\ IoctlWait'
    BY <1>2, <2>1 DEF IIngest, IFlow
  <2>4. lo \in Nat
    BY DEF IIngest, IngestTypeOK
  <2>5. Half \in Nat
    BY DEF Half
  <2>6. /\ skid # NoWord => pending # NoWord /\ inflight + Half = 0
        /\ pending # NoWord => inflight + Half <= 2
    BY DEF IIngest, IFlow
  <2>7. /\ skid # NoWord => inflight' + Half = 0
        /\ pending # NoWord => inflight' + Half <= 2
    <3>1. /\ inflight \in Nat /\ inflight' \in Nat
          /\ pending # NoWord => inflight' <= inflight
      BY <2>2, <1>2
    <3>2. inflight + Half = 0 => inflight = 0 /\ Half = 0
      BY <3>1, <2>5
    <3>3. skid # NoWord => inflight' = 0 /\ Half = 0
      BY <3>1, <3>2, <2>6
    <3>4. \A i, j, h \in Nat : i + h <= 2 /\ j <= i => j + h <= 2
      OBVIOUS
    <3>5. inflight + Half <= 2 /\ inflight' <= inflight => inflight' + Half <= 2
      BY <3>1, <3>4, <2>5
    <3>6. \A j, h : j = 0 /\ h = 0 => j + h = 0
      OBVIOUS
    <3>7. QED
      BY <3>1, <3>3, <3>5, <3>6, <2>6
  <2>8. Half' = Half /\ (PipelineEmpty' <=> PipelineEmpty)
    BY <1>1 DEF Half, PipelineEmpty
  <2>9. QED
    BY <1>1, <2>3, <2>6, <2>7, <2>8 DEF IIngest, IFlow
<1>5. ICount'
  BY <1>1 DEF IIngest, ICount, Written, Posted, Half
<1>6. IContent'
  BY <1>1 DEF IIngest, IContent, Written, FileWord
<1>7. ILoaded' /\ LoadedIsWhole' /\ StaysInWindow'
  BY <1>1 DEF IIngest, ILoaded, LoadedIsWhole, StaysInWindow, FileWord
<1>8. QED
  BY <1>3, <1>4, <1>5, <1>6, <1>7 DEF IIngest

\* The flag goes up when the download is over, in order and written.
LEMMA MarkLoadedKeeps ==
  ASSUME IIngest, MarkLoaded
  PROVE  IIngest'
<1>1. /\ ~active /\ lo = 0 /\ PipelineEmpty
      /\ len[load] # 0 /\ (load = "boot" \/ ~ovf)
      /\ loaded' = [loaded EXCEPT ![load] = TRUE]
      /\ UNCHANGED <<state, dl, sent, total, dlSeen, active, load, len, ovf,
                     lo>>
      /\ UNCHANGED <<pending, skid, inflight, wrAddr, stage, pause>>
  BY DEF MarkLoaded, fsmVars, loadVars, senderVars, pipeVars
<1>2. IngestTypeOK'
  BY <1>1 DEF IIngest, IngestTypeOK
<1>3. IFlow'
  BY <1>1 DEF IIngest, IFlow, PipelineEmpty, IoctlWait, Paused, Half
<1>4. ICount'
  BY <1>1 DEF IIngest, ICount, Written, Posted, Half
<1>5. IContent'
  BY <1>1 DEF IIngest, IContent, Written, FileWord
<1>6. StaysInWindow'
  BY <1>1 DEF IIngest, StaysInWindow
<1>7. ~dlSeen /\ pending = NoWord /\ skid = NoWord /\ load # "boot"
  BY <1>1 DEF IIngest, IFlow, PipelineEmpty, IContent
<1>8. ILoaded'
  BY <1>1, <1>7 DEF ILoaded
<1>9. /\ load \in {"elf", "ini"} /\ loaded \in [Kinds -> BOOLEAN]
      /\ total[load] \in Nat /\ wrAddr \in Int /\ Base[load] \in Int
  BY <1>7, Bases DEF IIngest, IngestTypeOK, Kinds
<1>10. /\ len[load] = total[load] /\ total[load] <= 2 * Window
       /\ Written \in Nat /\ 2 * Written \in {total[load], total[load] + 1}
  <2>1. /\ len[load] = Fits(total[load]) /\ Written \in Nat
        /\ ovf <=> total[load] > 2 * Window
        /\ 2 * Posted \in {len[load], len[load] + 1}
    BY <1>7 DEF IIngest, ICount
  <2>2. Posted = Written
    BY <1>7, <2>1 DEF Posted, Filled
  <2>3. QED
    BY <2>1, <2>2, <1>1, <1>7, <1>9, Bases DEF Fits
<1>11. \A i \in 0..(total[load] - 1) \div 2 :
         i < Window /\ stage[Base[load] + i] = FileWord(load, i)
  <2>1. \A i \in 0..Written - 1 : stage[Base[load] + i] = FileWord(load, i)
    BY <1>7 DEF IIngest, IContent
  <2>2. \A i \in 0..(total[load] - 1) \div 2 :
           i \in 0..Written - 1 /\ i < Window
    BY <1>9, <1>10, Bases
  <2>3. QED
    BY <2>1, <2>2
<1>12. LoadedIsWhole'
  <2>1. SUFFICES ASSUME NEW j \in {"elf", "ini"}, loaded'[j]
        PROVE  /\ len[j] = total[j]
               /\ \A i \in 0..(total[j] - 1) \div 2 :
                   i < Window /\ stage[Base[j] + i] = FileWord(j, i)
    BY <1>1 DEF LoadedIsWhole, FileWord
  <2>2. CASE j = load
    BY <2>2, <1>10, <1>11
  <2>3. CASE j # load
    <3>1. loaded[j]
      BY <2>1, <2>3, <1>1, <1>9 DEF Kinds
    <3>2. QED
      BY <3>1, <2>1 DEF IIngest, LoadedIsWhole
  <2>4. QED
    BY <2>2, <2>3
<1>13. QED
  BY <1>2, <1>3, <1>4, <1>5, <1>6, <1>8, <1>12 DEF IIngest

\* What is true of a download while the bridge takes words in or writes them.
LEMMA Ingesting ==
  ASSUME IIngest, load # "boot"
  PROVE  /\ load \in {"elf", "ini"} /\ Base[load] \in Int /\ Window \in Nat
         /\ sent \in Nat /\ total[load] \in Nat /\ len[load] \in Nat
         /\ lo \in Nat /\ inflight \in 0..2 /\ wrAddr \in Int
         /\ Written \in Nat /\ Posted \in Nat /\ Half \in {0, 1}
         /\ Filled(pending) \in {0, 1} /\ Filled(skid) \in {0, 1}
         /\ Posted = Written + Filled(pending) + Filled(skid)
         /\ len[load] <= 2 * Window /\ Posted <= Window
<1>1. /\ load \in {"elf", "ini"} /\ Base[load] \in Int /\ Window \in Nat
      /\ sent \in Nat /\ total[load] \in Nat /\ len[load] \in Nat
      /\ lo \in Nat /\ inflight \in 0..2 /\ wrAddr \in Int
  BY Bases DEF IIngest, IngestTypeOK, Kinds
<1>2. /\ Half \in {0, 1} /\ Filled(pending) \in {0, 1}
      /\ Filled(skid) \in {0, 1}
  BY DEF Half, Filled
<1>3. Written \in Nat
  BY DEF IIngest, ICount
<1>4. Posted = Written + Filled(pending) + Filled(skid)
  BY DEF Posted
<1>5. Posted \in Nat
  BY <1>2, <1>3, <1>4
<1>6. len[load] \in {Fits(sent), Fits(total[load])}
  BY DEF IIngest, ICount
<1>7. len[load] <= 2 * Window
  BY <1>1, <1>6 DEF Fits
<1>8. 2 * Posted <= len[load] + 1
  <2>1. CASE dlSeen
    <3>1. 2 * Posted + Half = len[load]
      BY <2>1 DEF IIngest, ICount
    <3>2. QED
      BY <3>1, <1>1, <1>2, <1>5
  <2>2. CASE ~dlSeen
    BY <2>2, <1>1, <1>5 DEF IIngest, ICount
  <2>3. QED
    BY <2>1, <2>2
<1>9. Posted <= Window
  BY <1>1, <1>5, <1>7, <1>8
<1>10. QED
  BY <1>1, <1>2, <1>3, <1>4, <1>5, <1>7, <1>9

\* A word put together behind the others is the file's next word.
LEMMA PostsNext ==
  ASSUME IIngest, load # "boot", NEW word \in Words, Post(word),
         word = FileWord(load, Posted), word # NoWord, skid = NoWord,
         UNCHANGED <<load, wrAddr, total, stage>>
  PROVE  /\ pending' \in Words /\ skid' \in Words /\ pending' # NoWord
         /\ skid' # NoWord => pending # NoWord
         /\ Posted' = Posted + 1
         /\ pending' = FileWord(load, Written)'
         /\ skid' # NoWord => skid' = FileWord(load, Written + 1)'
<1>1. /\ Written \in Nat /\ Posted = Written + Filled(pending) + Filled(skid)
      /\ pending \in Words /\ skid \in Words
      /\ pending # NoWord => pending = FileWord(load, Written)
  BY Ingesting DEF IIngest, IngestTypeOK, IContent
<1>2. Written' = Written
  BY DEF Written
<1>3. CASE pending = NoWord
  <2>1. pending' = word /\ skid' = NoWord
    BY <1>3 DEF Post
  <2>2. Posted = Written /\ Posted' = Written + 1
    BY <2>1, <1>1, <1>2, <1>3 DEF Posted, Filled
  <2>3. QED
    BY <2>1, <2>2, <1>2 DEF FileWord, Words, NoWord
<1>4. CASE pending # NoWord
  <2>1. pending' = pending /\ skid' = word
    BY <1>4 DEF Post
  <2>2. Posted = Written + 1 /\ Posted' = Written + 2
    BY <2>1, <1>1, <1>2, <1>4 DEF Posted, Filled
  <2>3. QED
    BY <2>1, <2>2, <1>1, <1>2, <1>4 DEF FileWord
<1>5. QED
  BY <1>3, <1>4

\* A half-word is counted and put with the others, or dropped: the window is
\* full.
LEMMA HpsWordKeeps ==
  ASSUME IIngest, HpsWord
  PROVE  IIngest'
<1>1. /\ dl # "none" /\ dlSeen /\ sent < total[dl] /\ sent' = sent + 1
      /\ ~IoctlWait \/ inflight > 0
      /\ UNCHANGED <<state, dl, total, dlSeen, active, load, wrAddr, loaded>>
      /\ UNCHANGED <<stage, pause>>
  BY DEF HpsWord, fsmVars
<1>2. load # "boot" /\ load = dl /\ active
  BY <1>1 DEF IIngest, IFlow
<1>3. /\ load \in {"elf", "ini"} /\ Base[load] \in Int /\ Window \in Nat
      /\ sent \in Nat /\ total[load] \in Nat /\ len[load] \in Nat
      /\ lo \in Nat /\ inflight \in 0..2 /\ wrAddr \in Int
      /\ Written \in Nat /\ Posted \in Nat /\ Half \in {0, 1}
      /\ len[load] <= 2 * Window
  BY <1>2, Ingesting
<1>4. /\ len[load] = Fits(sent) /\ (ovf <=> sent > 2 * Window)
      /\ 2 * Posted + Half = len[load] /\ (lo # 0 => lo = len[load])
  BY <1>1, <1>2 DEF IIngest, ICount
<1>5. /\ StageFull <=> len[load] >= 2 * Window
      /\ StageFull => /\ ovf' = TRUE /\ lo' = 0
                      /\ UNCHANGED <<len, pending, skid>>
      /\ ~StageFull /\ lo = 0 =>
           /\ len' = [len EXCEPT ![load] = @ + 1] /\ lo' = sent + 1
           /\ UNCHANGED <<pending, skid, ovf>>
      /\ ~StageFull /\ lo # 0 =>
           /\ len' = [len EXCEPT ![load] = @ + 1] /\ lo' = 0
           /\ Post(<<lo, sent + 1>>) /\ UNCHANGED ovf
  BY <1>2 DEF HpsWord, Accept, StageFull
<1>6. IngestTypeOK /\ Written' = Written
  BY <1>1 DEF IIngest, Written
\* A half-word that completes a word finds a place for it.
<1>7. lo # 0 => skid = NoWord
  BY <1>3 DEF IIngest, IFlow, Half
<1>8. ASSUME ~StageFull, lo # 0
      PROVE  /\ <<lo, sent + 1>> \in Words /\ <<lo, sent + 1>> # NoWord
             /\ <<lo, sent + 1>> = FileWord(load, Posted)
  <2>1. lo = sent /\ lo = 2 * Posted + 1 /\ sent + 1 <= total[load]
    BY <1>8, <1>1, <1>2, <1>3, <1>4, <1>5 DEF Fits, Half
  <2>2. 2 * Posted + 1 = lo /\ 2 * Posted + 2 = sent + 1
    BY <2>1, <1>3
  <2>3. QED
    BY <2>1, <2>2, <1>3 DEF FileWord, Words, NoWord
<1>9. ASSUME ~StageFull, lo # 0
      PROVE  /\ pending' \in Words /\ skid' \in Words /\ pending' # NoWord
             /\ skid' # NoWord => pending # NoWord
             /\ Posted' = Posted + 1
             /\ pending' = FileWord(load, Written)'
             /\ skid' # NoWord => skid' = FileWord(load, Written + 1)'
  <2>1. Post(<<lo, sent + 1>>) /\ skid = NoWord
    BY <1>5, <1>7, <1>9
  <2>2. UNCHANGED <<load, wrAddr, total, stage>>
    BY <1>1
  <2>3. QED
    BY <2>1, <2>2, <1>2, <1>8, <1>9, PostsNext
<1>10. ASSUME StageFull \/ lo = 0
       PROVE  UNCHANGED <<pending, skid>> /\ Posted' = Posted
  BY <1>5, <1>6, <1>10 DEF Posted
<1>11. len' \in [Kinds -> Nat] /\ lo' \in Nat
  BY <1>3, <1>5, <1>6 DEF IngestTypeOK
<1>12. len'[load] = IF StageFull THEN len[load] ELSE len[load] + 1
  BY <1>5, <1>6, <1>3 DEF IngestTypeOK, Kinds
<1>13. Half' = IF StageFull \/ lo # 0 THEN 0 ELSE 1
  BY <1>3, <1>5 DEF Half
\* The words on their way.
<1>14. /\ inflight' \in 0..2
       /\ inflight' # 0 => IoctlWait'
       /\ skid' # NoWord => pending' # NoWord /\ inflight' + Half' = 0
       /\ pending' # NoWord => inflight' + Half' <= 2
  <2>1. IoctlWait' <=> pending' # NoWord \/ Paused
    BY <1>1 DEF IoctlWait, Paused
  <2>2. /\ skid # NoWord => pending # NoWord /\ inflight + Half = 0
        /\ pending # NoWord => inflight + Half <= 2
        /\ inflight # 0 => IoctlWait
    BY DEF IIngest, IFlow
  <2>3. pending # NoWord => pending' # NoWord
    BY <1>9, <1>10
  <2>4. CASE IoctlWait
    <3>1. inflight' = inflight - 1 /\ inflight > 0
      BY <2>4, <1>1 DEF HpsWord
    <3>2. IoctlWait'
      BY <2>1, <2>3, <2>4 DEF IoctlWait
    <3>3. skid = NoWord
      BY <3>1, <2>2, <1>3
    <3>4. CASE ~StageFull /\ lo # 0
      <4>1. Half = 1 /\ Half' = 0
        BY <3>4, <1>13 DEF Half
      <4>2. skid' # NoWord => pending # NoWord
        BY <3>4, <1>9
      <4>3. pending # NoWord => inflight + 1 <= 2
        BY <4>1, <2>2
      <4>4. QED
        BY <3>1, <3>2, <3>4, <4>1, <4>2, <4>3, <1>3, <1>9
    <3>5. CASE StageFull \/ lo = 0
      <4>1. Half' \in {0, 1} /\ UNCHANGED <<pending, skid>>
        BY <3>5, <1>10, <1>13
      <4>2. inflight' \in 0..1
        BY <3>1, <1>3
      <4>3. \A i \in 0..1, h \in {0, 1} : i + h <= 2
        OBVIOUS
      <4>4. inflight' + Half' <= 2
        BY <4>1, <4>2, <4>3
      <4>5. inflight' \in 0..2 /\ skid' = NoWord
        BY <3>3, <4>1, <4>2
      <4>6. QED
        BY <3>2, <4>4, <4>5
    <3>6. QED
      BY <3>4, <3>5
  <2>5. CASE ~IoctlWait
    <3>1. Throttle(pending', pause) /\ inflight = 0 /\ pending = NoWord
          /\ skid = NoWord /\ ~Paused
      BY <2>5, <2>2 DEF HpsWord, IoctlWait
    <3>2. /\ inflight' \in 0..2
          /\ inflight' # 0 => pending' # NoWord \/ pause \in {"on", "switch"}
      BY <3>1, <1>3, ThrottleGives
    <3>3. inflight' # 0 => pending' # NoWord
      BY <3>1, <3>2 DEF Paused
    <3>4. CASE ~StageFull /\ lo # 0
      <4>1. Half' = 0 /\ skid' = NoWord /\ pending' # NoWord
        BY <3>4, <3>1, <1>9, <1>13
      <4>2. \A i \in 0..2 : i + 0 <= 2
        OBVIOUS
      <4>3. inflight' + Half' <= 2
        BY <4>1, <4>2, <3>2
      <4>4. QED
        BY <4>1, <4>3, <3>2, <2>1
    <3>5. CASE StageFull \/ lo = 0
      BY <3>5, <3>1, <3>2, <3>3, <1>10
    <3>6. QED
      BY <3>4, <3>5
  <2>6. QED
    BY <2>4, <2>5
<1>15. IngestTypeOK'
  <2>1. pending' \in Words /\ skid' \in Words
    BY <1>6, <1>9, <1>10 DEF IngestTypeOK
  <2>2. QED
    BY <2>1, <1>1, <1>3, <1>6, <1>11, <1>14 DEF IngestTypeOK
<1>16. IFlow'
  <2>1. state = "boot" => pending # NoWord
    BY DEF IIngest, IFlow
  <2>2. pending # NoWord => pending' # NoWord
    BY <1>9, <1>10
  <2>3. QED
    BY <2>1, <2>2, <1>1, <1>2, <1>14 DEF IFlow
<1>17. ICount'
  <2>1. sent' <= total'[load'] /\ sent' = sent + 1
    BY <1>1, <1>2, <1>3
  <2>2. CASE StageFull
    <3>1. len'[load'] = 2 * Window /\ sent >= 2 * Window /\ ovf'
      BY <2>2, <1>1, <1>3, <1>4, <1>5, <1>12 DEF Fits
    <3>2. Half = 0
      BY <2>2, <1>3, <1>4, <1>5
    <3>3. /\ len'[load'] = Fits(sent') /\ (ovf' <=> sent' > 2 * Window)
          /\ 2 * Posted' + Half' = len'[load']
      BY <2>1, <2>2, <3>1, <3>2, <1>1, <1>3, <1>4, <1>10, <1>12, <1>13 DEF Fits
    <3>4. QED
      BY <2>1, <2>2, <3>3, <1>1, <1>2, <1>3, <1>5, <1>6 DEF ICount
  <2>3. CASE ~StageFull
    <3>1. /\ len[load] = sent /\ sent < 2 * Window /\ ~ovf'
          /\ len'[load'] = sent + 1 /\ ~ovf
      BY <2>3, <1>1, <1>3, <1>4, <1>5, <1>12 DEF Fits
    <3>2. len'[load'] = Fits(sent') /\ (ovf' <=> sent' > 2 * Window)
      BY <2>1, <3>1, <1>3 DEF Fits
    <3>3. CASE lo = 0
      <4>1. Half = 0 /\ Half' = 1 /\ Posted' = Posted /\ lo' = sent + 1
        BY <2>3, <3>3, <1>5, <1>10, <1>13 DEF Half
      <4>2. 2 * Posted' + Half' = len'[load']
        BY <4>1, <3>1, <1>3, <1>4
      <4>3. QED
        BY <2>1, <3>1, <3>2, <4>1, <4>2, <1>1, <1>2, <1>3, <1>6 DEF ICount
    <3>4. CASE lo # 0
      <4>1. Half = 1 /\ Half' = 0 /\ Posted' = Posted + 1 /\ lo' = 0
        BY <2>3, <3>4, <1>5, <1>9, <1>13 DEF Half
      <4>2. 2 * Posted' + Half' = len'[load']
        BY <4>1, <3>1, <1>3, <1>4
      <4>3. QED
        BY <2>1, <3>1, <3>2, <4>1, <4>2, <1>1, <1>2, <1>3, <1>6 DEF ICount
    <3>5. QED
      BY <3>3, <3>4
  <2>4. QED
    BY <2>2, <2>3
<1>18. IContent'
  <2>1. \A i \in 0..Written - 1 : stage[Base[load] + i] = FileWord(load, i)
    BY <1>2 DEF IIngest, IContent
  <2>2. /\ pending # NoWord => pending = FileWord(load, Written)
        /\ skid # NoWord => skid = FileWord(load, Written + 1)
    BY <1>2 DEF IIngest, IContent
  <2>3. FileWord(load, Written)' = FileWord(load, Written)
        /\ FileWord(load, Written + 1)' = FileWord(load, Written + 1)
    BY <1>1, <1>6 DEF FileWord
  <2>4. /\ pending' # NoWord => pending' = FileWord(load, Written)'
        /\ skid' # NoWord => skid' = FileWord(load, Written + 1)'
    BY <2>2, <2>3, <1>9, <1>10
  <2>5. \A i \in 0..Written' - 1 :
          stage'[Base[load'] + i] = FileWord(load, i)'
    BY <2>1, <1>1, <1>6 DEF FileWord
  <2>6. QED
    BY <2>4, <2>5, <1>1, <1>2 DEF IContent
<1>19. ILoaded'
  BY <1>1 DEF IIngest, ILoaded
<1>20. LoadedIsWhole'
  <2>1. SUFFICES ASSUME NEW j \in {"elf", "ini"}, loaded[j]
        PROVE  /\ len'[j] = total[j]
               /\ \A i \in 0..(total[j] - 1) \div 2 :
                   i < Window /\ stage[Base[j] + i] = FileWord(j, i)
    BY <1>1 DEF LoadedIsWhole, FileWord
  <2>2. j # load
    BY <2>1, <1>1 DEF IIngest, ILoaded
  <2>3. len'[j] = len[j]
    BY <2>1, <2>2, <1>5, <1>6 DEF IngestTypeOK, Kinds
  <2>4. QED
    BY <2>1, <2>3 DEF IIngest, LoadedIsWhole
<1>21. StaysInWindow'
  BY <1>1 DEF IIngest, StaysInWindow
<1>22. QED
  BY <1>15, <1>16, <1>17, <1>18, <1>19, <1>20, <1>21 DEF IIngest

\* The end edge flushes an odd half-word.
LEMMA EndEdgeKeeps ==
  ASSUME IIngest, EndEdge
  PROVE  IIngest'
<1>1. /\ dl = "none" /\ dlSeen /\ ~Paused /\ ~dlSeen' /\ ~active' /\ lo' = 0
      /\ lo = 0 => UNCHANGED <<pending, skid>>
      /\ lo # 0 => Post(<<lo, 0>>)
      /\ UNCHANGED <<state, dl, sent, total, inflight, load, len, ovf, wrAddr>>
      /\ UNCHANGED <<loaded, stage, pause>>
  BY DEF EndEdge, fsmVars, senderVars
<1>2. load # "boot" /\ inflight = 0
  BY <1>1 DEF IIngest, IFlow
<1>3. /\ load \in {"elf", "ini"} /\ Base[load] \in Int /\ Window \in Nat
      /\ sent \in Nat /\ total[load] \in Nat /\ len[load] \in Nat
      /\ lo \in Nat /\ Written \in Nat /\ Posted \in Nat /\ Half \in {0, 1}
  BY <1>2, Ingesting
<1>4. /\ sent = total[load]
      /\ len[load] = Fits(sent) /\ (ovf <=> sent > 2 * Window)
      /\ 2 * Posted + Half = len[load] /\ (lo # 0 => lo = len[load])
  BY <1>1, <1>2 DEF IIngest, ICount
<1>5. IngestTypeOK /\ Written' = Written
  BY <1>1 DEF IIngest, Written
<1>6. lo # 0 => skid = NoWord
  BY <1>2, <1>3 DEF IIngest, IFlow, Half
<1>7. ASSUME lo # 0
      PROVE  /\ <<lo, 0>> \in Words /\ <<lo, 0>> # NoWord
             /\ <<lo, 0>> = FileWord(load, Posted)
  <2>1. Half = 1
    BY <1>7 DEF Half
  <2>2. /\ lo = len[load] /\ lo = 2 * Posted + 1
        /\ len[load] = total[load]
    BY <2>1, <1>7, <1>3, <1>4 DEF Fits
  <2>3. 2 * Posted + 1 = lo /\ ~(2 * Posted + 2 <= total[load])
    <3>1. \A p, t \in Nat : t = 2 * p + 1 => ~(2 * p + 2 <= t)
      OBVIOUS
    <3>2. total[load] = 2 * Posted + 1
      BY <2>2
    <3>3. QED
      BY <2>2, <3>1, <3>2, <1>3
  <2>4. QED
    BY <2>3, <1>3 DEF FileWord, Words, NoWord
<1>8. ASSUME lo # 0
      PROVE  /\ pending' \in Words /\ skid' \in Words /\ pending' # NoWord
             /\ skid' # NoWord => pending # NoWord
             /\ Posted' = Posted + 1
             /\ pending' = FileWord(load, Written)'
             /\ skid' # NoWord => skid' = FileWord(load, Written + 1)'
  BY <1>1, <1>2, <1>6, <1>7, <1>8, PostsNext
<1>9. ASSUME lo = 0
      PROVE  UNCHANGED <<pending, skid>> /\ Posted' = Posted
  BY <1>1, <1>5, <1>9 DEF Posted
<1>10. IngestTypeOK'
  BY <1>1, <1>5, <1>8, <1>9 DEF IngestTypeOK
<1>11. IFlow'
  <2>1. Half' = 0 /\ inflight' = 0
    BY <1>1, <1>2 DEF Half
  <2>2. pending # NoWord => pending' # NoWord
    BY <1>8, <1>9
  <2>3. skid' # NoWord => pending' # NoWord
    BY <1>8, <1>9 DEF IIngest, IFlow
  <2>4. QED
    BY <2>1, <2>2, <2>3, <1>1 DEF IIngest, IFlow
<1>12. ICount'
  <2>1. 2 * Posted' \in {len[load], len[load] + 1}
    <3>1. CASE lo = 0
      BY <3>1, <1>3, <1>4, <1>9 DEF Half
    <3>2. CASE lo # 0
      <4>1. Half = 1 /\ Posted' = Posted + 1
        BY <3>2, <1>8 DEF Half
      <4>2. 2 * (Posted + 1) = len[load] + 1
        BY <4>1, <1>3, <1>4
      <4>3. QED
        BY <4>1, <4>2
    <3>3. QED
      BY <3>1, <3>2
  <2>2. QED
    BY <2>1, <1>1, <1>2, <1>3, <1>4, <1>5 DEF ICount
<1>13. IContent'
  <2>1. \A i \in 0..Written - 1 : stage[Base[load] + i] = FileWord(load, i)
    BY <1>2 DEF IIngest, IContent
  <2>2. /\ pending # NoWord => pending = FileWord(load, Written)
        /\ skid # NoWord => skid = FileWord(load, Written + 1)
    BY <1>2 DEF IIngest, IContent
  <2>3. FileWord(load, Written)' = FileWord(load, Written)
        /\ FileWord(load, Written + 1)' = FileWord(load, Written + 1)
    BY <1>1, <1>5 DEF FileWord
  <2>4. /\ pending' # NoWord => pending' = FileWord(load, Written)'
        /\ skid' # NoWord => skid' = FileWord(load, Written + 1)'
    BY <2>2, <2>3, <1>8, <1>9
  <2>5. \A i \in 0..Written' - 1 :
          stage'[Base[load'] + i] = FileWord(load, i)'
    BY <2>1, <1>1, <1>5 DEF FileWord
  <2>6. QED
    BY <2>4, <2>5, <1>1, <1>2 DEF IContent
<1>14. ILoaded'
  BY <1>1 DEF IIngest, ILoaded
<1>15. LoadedIsWhole' /\ StaysInWindow'
  BY <1>1 DEF IIngest, LoadedIsWhole, StaysInWindow, FileWord
<1>16. QED
  BY <1>10, <1>11, <1>12, <1>13, <1>14, <1>15 DEF IIngest

\* The word at the head of the queue goes to its place in the window.
LEMMA WordWrittenKeeps ==
  ASSUME IIngest, WordWritten
  PROVE  IIngest'
<1>1. /\ state = "boot" /\ state' = "idle" /\ wrAddr' = wrAddr + 1
      /\ stage' = IF wrAddr \in Region THEN [stage EXCEPT ![wrAddr] = pending]
                  ELSE stage
      /\ pending' = skid /\ skid' = NoWord /\ Throttle(skid, pause)
      /\ UNCHANGED <<dl, sent, total, dlSeen, active, load, len, ovf, lo>>
      /\ UNCHANGED <<loaded, pause>>
  BY DEF WordWritten, senderVars, loadVars
<1>2. pending # NoWord /\ load # "boot"
  BY <1>1 DEF IIngest, IFlow, IContent
<1>3. /\ load \in {"elf", "ini"} /\ Base[load] \in Int /\ Window \in Nat
      /\ sent \in Nat /\ total[load] \in Nat /\ len[load] \in Nat
      /\ lo \in Nat /\ inflight \in 0..2 /\ wrAddr \in Int
      /\ Written \in Nat /\ Posted \in Nat /\ Half \in {0, 1}
      /\ Filled(pending) \in {0, 1} /\ Filled(skid) \in {0, 1}
      /\ Posted = Written + Filled(pending) + Filled(skid)
      /\ len[load] <= 2 * Window /\ Posted <= Window
  BY <1>2, Ingesting
<1>4. IngestTypeOK
  BY DEF IIngest
<1>5. Filled(pending) = 1 /\ Written < Window
  BY <1>2, <1>3 DEF Filled
<1>6. /\ wrAddr = Base[load] + Written /\ wrAddr \in Region
      /\ wrAddr # 2 * Window
      /\ Written' = Written + 1
  <2>1. wrAddr = Base[load] + Written /\ Written' = Written + 1
    BY <1>1, <1>3 DEF Written
  <2>2. QED
    BY <2>1, <1>3, <1>5, Bases DEF Region
<1>7. /\ stage' = [stage EXCEPT ![wrAddr] = pending]
      /\ stage' \in [Region -> Words]
      /\ stage'[wrAddr] = pending
      /\ \A a \in Region \ {wrAddr} : stage'[a] = stage[a]
  BY <1>1, <1>4, <1>6 DEF IngestTypeOK
<1>8. Posted' = Posted
  <2>1. Posted' = Written' + Filled(skid) + 0
    BY <1>1 DEF Posted, Filled
  <2>2. QED
    BY <2>1, <1>3, <1>5, <1>6
<1>9. /\ inflight' \in 0..2
      /\ inflight' # 0 =>
           /\ skid # NoWord \/ pause \in {"on", "switch"}
           /\ inflight # 0
      /\ inflight' # 0 => inflight' = inflight
  <2>1. IoctlWait
    BY <1>2 DEF IoctlWait
  <2>2. QED
    BY <2>1, <1>1, <1>3, ThrottleGives
<1>10. IngestTypeOK'
  BY <1>1, <1>3, <1>4, <1>7, <1>9 DEF IngestTypeOK, Words, NoWord
<1>11. IFlow'
  <2>1. Half' = Half
    BY <1>1 DEF Half
  <2>2. inflight' # 0 => dl # "none" /\ dlSeen /\ IoctlWait'
    BY <1>1, <1>9 DEF IIngest, IFlow, IoctlWait, Paused
  <2>3. skid # NoWord => inflight = 0 /\ Half = 0
    <3>1. skid # NoWord => inflight + Half = 0
      BY DEF IIngest, IFlow
    <3>2. QED
      BY <3>1, <1>3
  <2>4. pending' # NoWord => inflight' = 0 /\ Half' = 0
    BY <2>1, <2>3, <1>1, <1>9
  <2>5. pending' # NoWord => inflight' + Half' <= 2
    <3>1. \A i, h : i = 0 /\ h = 0 => i + h <= 2
      OBVIOUS
    <3>2. QED
      BY <2>4, <3>1
  <2>6. dl' # "none" /\ ~dlSeen' => PipelineEmpty' /\ sent' = 0
    BY <1>1, <1>2 DEF IIngest, IFlow, PipelineEmpty
  <2>7. QED
    BY <2>2, <2>5, <2>6, <1>1 DEF IIngest, IFlow
<1>12. ICount'
  <2>1. Half' = Half /\ Written' \in Nat
    BY <1>1, <1>3, <1>6 DEF Half
  <2>2. QED
    BY <2>1, <1>1, <1>2, <1>8 DEF IIngest, ICount
\* The words written before lie below it.
<1>13. IContent'
  <2>1. /\ \A i \in 0..Written - 1 : stage[Base[load] + i] = FileWord(load, i)
        /\ pending = FileWord(load, Written)
        /\ skid # NoWord => skid = FileWord(load, Written + 1)
    BY <1>2 DEF IIngest, IContent
  <2>2. ASSUME NEW i \in 0..Written
        PROVE  stage'[Base[load] + i] = FileWord(load, i)
    <3>1. CASE i = Written
      BY <3>1, <2>1, <1>6, <1>7
    <3>2. CASE i # Written
      <4>1. /\ i \in 0..Written - 1 /\ Base[load] + i # wrAddr
            /\ Base[load] + i \in Region
        BY <3>2, <1>3, <1>5, <1>6, Bases DEF Region
      <4>2. QED
        BY <4>1, <2>1, <1>7
    <3>3. QED
      BY <3>1, <3>2
  <2>3. \A i : FileWord(load, i)' = FileWord(load, i)
    BY <1>1 DEF FileWord
  <2>4. 0..Written' - 1 = 0..Written
    BY <1>3, <1>6
  <2>5. \A i \in 0..Written' - 1 :
          stage'[Base[load'] + i] = FileWord(load, i)'
    BY <2>2, <2>4, <1>1 DEF FileWord
  <2>6. pending' # NoWord => pending' = FileWord(load, Written)'
    <3>1. skid # NoWord => skid = FileWord(load, Written + 1)
      BY <2>1
    <3>2. QED
      BY <3>1, <1>1, <1>6 DEF FileWord
  <2>7. QED
    BY <2>5, <2>6, <1>1, <1>2 DEF IContent
<1>14. ILoaded'
  BY <1>1, <1>2 DEF IIngest, ILoaded
<1>15. LoadedIsWhole'
  <2>1. SUFFICES ASSUME NEW j \in {"elf", "ini"}, loaded[j]
        PROVE  /\ len[j] = total[j]
               /\ \A i \in 0..(total[j] - 1) \div 2 :
                   i < Window /\ stage'[Base[j] + i] = FileWord(j, i)
    <3>1. len' = len /\ total' = total /\ loaded' = loaded
      BY <1>1
    <3>2. \A k, i : FileWord(k, i)' = FileWord(k, i)
      BY <3>1 DEF FileWord
    <3>3. QED
      BY <3>1, <3>2 DEF LoadedIsWhole
  <2>2. j # load
    BY <2>1, <1>2 DEF IIngest, ILoaded
  <2>3. ASSUME NEW i \in 0..(total[j] - 1) \div 2
        PROVE  i < Window /\ stage'[Base[j] + i] = FileWord(j, i)
    <3>1. i < Window /\ stage[Base[j] + i] = FileWord(j, i)
      BY <2>1 DEF IIngest, LoadedIsWhole
    <3>2. i \in Nat
      BY <2>1, <1>4 DEF IngestTypeOK, Kinds
    <3>3. Base[j] + i \in Region /\ Base[j] + i # wrAddr
      BY <3>1, <3>2, <2>1, <2>2, <1>3, <1>5, <1>6, Bases DEF Region
    <3>4. QED
      BY <3>1, <3>3, <1>7
  <2>4. QED
    BY <2>1, <2>3 DEF IIngest, LoadedIsWhole
<1>16. StaysInWindow'
  <2>1. 2 * Window \in Region
    BY <1>3 DEF Region
  <2>2. QED
    BY <2>1, <1>6, <1>7 DEF IIngest, StaysInWindow
<1>17. QED
  BY <1>10, <1>11, <1>12, <1>13, <1>14, <1>15, <1>16 DEF IIngest

LEMMA IngestInit == Init => IIngest
<1> SUFFICES ASSUME Init PROVE IIngest
  OBVIOUS
<1>1. /\ state = "idle" /\ dl = "none" /\ sent = 0
      /\ total = [k \in Kinds |-> 0] /\ inflight = 0
      /\ dlSeen = FALSE /\ active = FALSE /\ load = "boot" /\ ovf = FALSE
      /\ len = [k \in Kinds |-> 0]
      /\ lo = 0 /\ pending = NoWord /\ skid = NoWord /\ wrAddr = 0
      /\ loaded = [k \in Kinds |-> FALSE]
      /\ stage = [a \in Region |-> NoWord]
  BY DEF Init, BridgeInit
<1>2. NoWord \in Words
  BY DEF NoWord, Words
<1>3. IngestTypeOK
  BY <1>1, <1>2 DEF IngestTypeOK, Kinds
<1>4. IFlow /\ ICount /\ IContent /\ ILoaded
  BY <1>1 DEF IFlow, ICount, IContent, ILoaded, Kinds, PipelineEmpty
<1>5. LoadedIsWhole
  BY <1>1 DEF LoadedIsWhole, Kinds
<1>6. StaysInWindow
  BY <1>1, Bases DEF StaysInWindow, Region
<1>7. QED
  BY <1>3, <1>4, <1>5, <1>6 DEF IIngest

LEMMA IngestStep ==
  ASSUME IIngest, [Next]_vars
  PROVE  IIngest'
<1>1. CASE UNCHANGED <<fsmVars, hps, imageVars, disk, ingestVars, pause>>
  BY <1>1, IngestApart DEF fsmVars
<1>2. CASE Bridge
  BY <1>2, IngestApart, EngineApart, DlStartKeeps, StartEdgeKeeps, HpsWordKeeps,
     DlEndKeeps, EndEdgeKeeps, WordWrittenKeeps, MarkLoadedKeeps, SetPauseKeeps
     DEF Bridge, Ingest, Sender
<1>3. QED
  BY <1>1, <1>2, NextCases

\* Whatever the HPS sends, and however its words overtake the wait signal, the
\* bridge's two slots lose none of them.
THEOREM Downloads_IIngest == Spec => []IIngest
BY IngestInit, IngestStep, PTL DEF Spec

\* LoadedIsWhole of every execution: a window whose flag is up holds the file.
THEOREM LoadedIsWholeHolds == Spec => []LoadedIsWhole
<1>1. IIngest => LoadedIsWhole
  BY DEF IIngest
<1>2. QED
  BY <1>1, Downloads_IIngest, PTL

\* StaysInWindow of every execution: no word falls outside the windows.
THEOREM StaysInWindowHolds == Spec => []StaysInWindow
<1>1. IIngest => StaysInWindow
  BY DEF IIngest
<1>2. QED
  BY <1>1, Downloads_IIngest, PTL

-----------------------------------------------------------------------------
(***************************************************************************)
(* The clock switch.                                                       *)
(***************************************************************************)

\* What the bridge waited for stays so while the clock is switched.
IQuiet ==
    pause = "switch" =>
        /\ state = "idle" /\ pending = NoWord /\ skid = NoWord
        /\ inflight = 0

\* What the quiet bridge keeps.
Still ==
    UNCHANGED <<fsmVars, dlSeen, active, load, len, ovf, lo, pending, skid,
                wrAddr, stage>>

\* A step in the switch moves nothing of it.
LEMMA SwitchIsStill ==
  ASSUME IQuiet, pause = "switch", [Next]_vars
  PROVE  Still /\ inflight' = 0
<1>1. /\ state = "idle" /\ pending = NoWord /\ skid = NoWord
      /\ inflight = 0 /\ Paused /\ IoctlWait
  BY DEF IQuiet, Paused, IoctlWait
<1>2. CASE UNCHANGED <<fsmVars, hps, imageVars, disk, ingestVars, pause>>
  BY <1>1, <1>2 DEF Still, ingestVars, pipeVars, loadVars
<1> USE DEF Still, fsmVars, pipeVars, loadVars, ingestVars, senderVars
<1>3. CASE Engine \/ Watchdog \/ TakeWord \/ WordWritten \/ Pick
  BY <1>1, <1>3 DEF Engine, Dispatch, Fill, Drain, Capture, Release, Watchdog,
     WaitsForHps, TakeWord, WordWritten, Pick
<1>4. CASE AckRise \/ AckFall
  BY <1>1, <1>4 DEF AckRise, AckFall, Block
<1>5. CASE StartEdge \/ EndEdge \/ HpsWord
  BY <1>1, <1>5 DEF StartEdge, EndEdge, HpsWord
<1>6. CASE DlEnd \/ DlStart \/ MarkLoaded \/ Mount
  BY <1>1, <1>6 DEF DlEnd, DlStart, MarkLoaded, Mount
<1>7. CASE SetPause
  BY <1>1, <1>7 DEF SetPause, Throttle
<1>8. QED
  BY <1>2, <1>3, <1>4, <1>5, <1>6, <1>7, NextCases DEF Bridge, Ingest, Sender

\* Only the pause itself begins the switch.
LEMMA SwitchBegins ==
  ASSUME [Next]_vars, pause # "switch", pause' = "switch"
  PROVE  SetPause
<1>1. pause' # pause
  OBVIOUS
<1>2. CASE Ingest \/ Sender \/ DlStart
  BY <1>1, <1>2 DEF Ingest, Sender, StartEdge, EndEdge, TakeWord, WordWritten,
     MarkLoaded, HpsWord, DlEnd, DlStart
<1>3. QED
  BY <1>1, <1>2, EngineApart, NextCases DEF Bridge

LEMMA QuietStep ==
  ASSUME IQuiet, [Next]_vars
  PROVE  IQuiet'
<1>1. CASE pause' # "switch"
  BY <1>1 DEF IQuiet
<1>2. CASE pause = "switch" /\ pause' = "switch"
  BY <1>2, SwitchIsStill DEF IQuiet, Still, fsmVars
<1>3. CASE pause # "switch" /\ pause' = "switch"
  <2>1. /\ PauseQuiet /\ Throttle(pending, pause')
        /\ UNCHANGED <<state, pending, skid>>
    BY <1>3, SwitchBegins DEF SetPause, fsmVars
  <2>2. QED
    BY <2>1, <1>3 DEF IQuiet, PauseQuiet, Throttle, IoctlWait
<1>4. QED
  BY <1>1, <1>2, <1>3

\* QuietIsStatic of every execution: neither the engine nor a download that is
\* half taken in moves while the clock is switched.
THEOREM QuietIsStaticHolds == Spec => QuietIsStatic
<1>1. Init => IQuiet
  BY DEF Init, BridgeInit, IQuiet
<1>2. IQuiet /\ [Next]_vars =>
        [pause = "switch" =>
            UNCHANGED <<fsmVars, dlSeen, active, load, len, ovf, lo,
                        pending, skid, wrAddr, stage>>]_bridgeVars
  BY SwitchIsStill DEF Still
<1>3. IQuiet /\ [Next]_vars => IQuiet'
  BY QuietStep
<1>4. QED
  BY <1>1, <1>2, <1>3, PTL DEF Spec, QuietIsStatic

-----------------------------------------------------------------------------
(***************************************************************************)
(* The size of an image.                                                   *)
(***************************************************************************)

\* What a call that reads the two registers has seen so far: an image is put
\* in or changed only with a restart, but it can be taken out at any time.
IHalf ==
    /\ size \in [Disks -> Sizes]
    /\ half \in [disk : Disks \cup {0}, hi : Int, lo : Int]
    /\ pc \in {"hi", "lo", "hi2"} => half.disk \in Disks
    /\ pc = "lo" => half.hi = Hi(size[half.disk]) \/ size[half.disk] = 0
    /\ pc = "hi2" =>
        \/ \E s \in Sizes : half.hi = Hi(s) /\ half.lo = Lo(s)
        \/ half.lo = 0 /\ size[half.disk] = 0

LEMMA SizesNat == Sizes \subseteq Nat /\ 0 \in Sizes
<1>1. NoImage.size = 0
  BY DEF NoImage
<1>2. \A i \in Images \cup {NoImage} : i.size \in Nat
  BY <1>1, ImageAssumption
<1>3. QED
  BY <1>1, <1>2 DEF Sizes

LEMMA Halves ==
  \A s \in Nat : 2 * Hi(s) + Lo(s) = s /\ Hi(s) \in Nat /\ Lo(s) \in Nat
BY DEF Hi, Lo

LEMMA HalvesOfNone == Hi(0) = 0 /\ Lo(0) = 0
BY DEF Hi, Lo

\* The bridge changes a size only in Mount.
LEMMA SizesKeep ==
  ASSUME [Next]_vars, ~BridgeStep \/ ~Mount
  PROVE  UNCHANGED imageVars
<1>1. CASE Bridge /\ ~Mount
  <2>1. CASE Engine
    BY <2>1 DEF Engine, Dispatch, Fill, Drain, Capture, Release, imageVars
  <2>2. CASE Ingest \/ Sender \/ DlStart \/ SetPause
    BY <2>2 DEF Ingest, Sender, StartEdge, EndEdge, TakeWord, WordWritten,
       MarkLoaded, HpsWord, DlEnd, DlStart, SetPause, imageVars
  <2>3. CASE Watchdog \/ Pick \/ AckRise \/ AckFall
    BY <2>3 DEF Watchdog, Pick, AckRise, AckFall, imageVars
  <2>4. QED
    BY <1>1, <2>1, <2>2, <2>3 DEF Bridge
<1>2. CASE ~BridgeStep
  BY <1>2 DEF Next, Firmware, StartChunk, Command, Failed, Landed, Finish,
     SizeHi, SizeLo, SizeHi2, CacheStep, Read, Write, Begin, SizeBegin,
     EnableRetries, CpuTimeout, vars, bridgeVars
<1>3. QED
  BY <1>1, <1>2 DEF BridgeStep

LEMMA HalfStep ==
  ASSUME IHalf, [Next]_vars
  PROVE  IHalf'
<1> USE SizesNat, Halves, HalvesOfNone
<1>1. CASE UNCHANGED <<size, half, pc>>
  BY <1>1 DEF IHalf
<1>2. CASE BridgeStep
  <2>1. size' \in [Disks -> Sizes]
    <3>1. CASE Mount
      BY <3>1 DEF IHalf, Mount, Sizes
    <3>2. CASE ~Mount
      BY <3>2, SizesKeep DEF imageVars, IHalf
    <3>3. QED
      BY <3>1, <3>2
  <2>2. CASE Restarts
    BY <1>2, <2>1, <2>2 DEF BridgeStep, Alongside, CoreReset, IHalf, NoHalf
  <2>3. CASE ~Restarts
    <3>1. /\ UNCHANGED <<half, pc>>
          /\ \A d \in Disks : size'[d] \in {size[d], 0}
      BY <1>2, <2>3 DEF BridgeStep, Alongside, fwVars, Restarts
    <3>2. QED
      BY <2>1, <3>1 DEF IHalf
  <2>4. QED
    BY <2>2, <2>3
<1>3. CASE ~BridgeStep
  <2>1. UNCHANGED size
    BY <1>3, SizesKeep DEF imageVars
  <2>2. CASE SizeBegin
    BY <2>1, <2>2 DEF SizeBegin, IHalf
  <2>3. CASE SizeHi
    BY <2>1, <2>3 DEF SizeHi, IHalf
  <2>4. CASE SizeLo
    <3>1. /\ pc = "lo" /\ pc' = "hi2" /\ half.disk \in Disks
          /\ half' = [half EXCEPT !.lo = Lo(size[half.disk])]
          /\ half \in [disk : Disks \cup {0}, hi : Int, lo : Int]
          /\ size[half.disk] \in Sizes
      BY <2>4 DEF SizeLo, IHalf
    <3>2. /\ half' \in [disk : Disks \cup {0}, hi : Int, lo : Int]
          /\ half'.disk = half.disk /\ half'.hi = half.hi
          /\ half'.lo = Lo(size[half.disk])
      BY <3>1
    <3>3. half.hi = Hi(size[half.disk]) \/ size[half.disk] = 0
      BY <3>1 DEF IHalf
    <3>4. QED
      BY <2>1, <3>1, <3>2, <3>3 DEF IHalf
  <2>5. CASE SizeHi2
    <3>1. CASE SizeSettled
      BY <2>1, <2>5, <3>1 DEF SizeHi2, IHalf, NoHalf
    <3>2. CASE ~SizeSettled
      BY <2>1, <2>5, <3>2 DEF SizeHi2, IHalf
    <3>3. QED
      BY <3>1, <3>2
  <2>6. CASE Read \/ Write
    BY <2>1, <2>6 DEF Read, Write, Begin, IHalf
  <2>7. CASE StartChunk \/ Command \/ Failed \/ Landed \/ Finish
    BY <2>1, <2>7 DEF StartChunk, Command, Failed, Landed, Finish, Return, IHalf
  <2>8. CASE CacheStep \/ EnableRetries \/ UNCHANGED vars
    BY <2>1, <2>8, <1>1 DEF CacheStep, EnableRetries, vars, fwVars
  <2>9. CASE CpuTimeout
    BY <2>1, <2>9 DEF CpuTimeout, Return, IHalf
  <2>10. QED
    BY <1>3, <2>2, <2>3, <2>4, <2>5, <2>6, <2>7, <2>8, <2>9 DEF Next, Firmware
<1>4. QED
  BY <1>2, <1>3

\* SizeUntorn of every execution: a size that is taken is one image's, or that
\* of an empty drive, never one register of each.
THEOREM SizeUntornHolds == Spec => []SizeUntorn
<1>1. Init => IHalf
  <2>1. SUFFICES ASSUME Init PROVE IHalf
    OBVIOUS
  <2>2. PICK f \in [Disks -> Images] : size = [d \in Disks |-> f[d].size]
    BY <2>1 DEF Init, BridgeInit
  <2>3. size \in [Disks -> Sizes]
    BY <2>2 DEF Sizes
  <2>4. half = NoHalf /\ pc = "app"
    BY <2>1 DEF Init
  <2>5. QED
    BY <2>3, <2>4 DEF IHalf, NoHalf
<1>2. IHalf => SizeUntorn
  BY SizesNat, Halves, HalvesOfNone DEF IHalf, SizeUntorn, SizeSettled
<1>3. IHalf /\ [Next]_vars => IHalf'
  BY HalfStep
<1>4. QED
  BY <1>1, <1>2, <1>3, PTL DEF Spec

-----------------------------------------------------------------------------
(***************************************************************************)
(* What the engine writes.                                                 *)
(***************************************************************************)

\* A command never asks for nothing: a call has a block left whenever one is
\* made.
IAsked ==
    /\ pc \in {"chunk", "gate", "wait"} =>
        /\ call.disk \in Disks /\ call.at \in Nat
        /\ Total \in Nat /\ done \in Nat /\ done < Total
    /\ strobe # "none" =>
        req.disk \in Disks /\ req.at \in Nat /\ req.n \in Nat \ {0}

Writing == {"fill", "wrReq", "wrData"}
Reading == {"rdReq", "rdData", "drain"}

\* What is left of a command fits the image it was compared with, also while
\* the HPS still serves a request that the engine has given up.
IWrites ==
    /\ op = [wr |-> op.wr, disk |-> op.disk, at |-> op.at, cell |-> op.cell,
             left |-> op.left]
    /\ hps = [st |-> hps.st, wr |-> hps.wr, disk |-> hps.disk, at |-> hps.at]
    /\ state \in Writing =>
        /\ op.wr /\ op.disk \in Disks /\ op.at \in Nat
          /\ op.left \in Nat \ {0}
        /\ ~ro[op.disk] /\ op.at + op.left <= size[op.disk]
    /\ state \in Reading => ~op.wr
    /\ hps.st # "idle" /\ hps.wr => ~ro[hps.disk] /\ hps.at < size[hps.disk]

IDisk ==
    /\ DOMAIN disk = Disks
    /\ \A d \in Disks : DOMAIN disk[d] = Sectors

IImage == IHalf /\ IAsked /\ IWrites /\ IDisk

\* A command's share of what is left.
LEMMA ChunkLens ==
  ASSUME Total \in Nat, done \in Nat, done < Total
  PROVE  /\ ChunkLen \in Nat \ {0} /\ done + ChunkLen <= Total
         /\ done + ChunkLen \in Nat
BY CallAssumption DEF ChunkLen

\* The firmware's side.
LEMMA AskedStep ==
  ASSUME IAsked, [Next]_vars
  PROVE  IAsked'
<1> DEFINE Working == {"chunk", "gate", "wait"}
           Call == /\ call.disk \in Disks /\ call.at \in Nat
                   /\ Total \in Nat /\ done \in Nat /\ done < Total
           Req == strobe # "none" =>
                    req.disk \in Disks /\ req.at \in Nat /\ req.n \in Nat \ {0}
<1>1. (pc \in Working => Call) /\ Req
  BY DEF IAsked
<1>2. CASE UNCHANGED <<pc, call, done, strobe, req>>
  BY <1>2 DEF IAsked, Total
<1>3. CASE BridgeStep
  <2>1. pc' = "app" \/ UNCHANGED <<pc, call, done>>
    BY <1>3 DEF BridgeStep, Alongside, CoreReset, fwVars, callVars
  <2>2. strobe' = "none" \/ UNCHANGED <<strobe, req>>
    <3>1. CASE Engine
      BY <3>1 DEF Engine, Dispatch, Fill, Drain, Capture, Release, engineVars
    <3>2. CASE Ingest \/ Sender \/ DlStart \/ SetPause \/ Mount
      BY <3>2 DEF Ingest, Sender, StartEdge, EndEdge, TakeWord, WordWritten,
         MarkLoaded, HpsWord, DlEnd, DlStart, SetPause, Mount, Registers,
         engineVars
    <3>3. CASE Watchdog \/ Pick \/ AckRise \/ AckFall
      BY <3>3 DEF Watchdog, Pick, AckRise, AckFall, engineVars
    <3>4. QED
      BY <1>3, <3>1, <3>2, <3>3 DEF BridgeStep, Bridge
  <2>3. QED
    BY <2>1, <2>2 DEF IAsked, Total
<1>4. CASE StartChunk
  <2>1. pc = "chunk" /\ UNCHANGED <<call, done, strobe, req>>
    BY <1>4 DEF StartChunk, callVars, engineVars
  <2>2. QED
    BY <2>1 DEF IAsked, Total
<1>5. CASE Command
  <2>1. /\ pc = "gate" /\ UNCHANGED <<call, done>>
        /\ req' = [disk |-> call.disk, at |-> (call.at + done) % Addressable,
                   cell |-> Target, n |-> ChunkLen]
    BY <1>5 DEF Command, callVars
  <2>2. Call /\ ChunkLen \in Nat \ {0}
    BY <1>1, <2>1, ChunkLens
  <2>3. (call.at + done) % Addressable \in Nat
    BY <2>2, CallAssumption
  <2>4. Total' = Total
    BY <2>1 DEF Total
  <2>5. QED
    BY <2>1, <2>2, <2>3, <2>4 DEF IAsked
<1>6. CASE Failed
  <2>1. /\ pc = "wait" /\ UNCHANGED <<strobe, req>>
        /\ pc' = "app" \/ UNCHANGED <<call, done>>
    BY <1>6 DEF Failed, Return, bridgeVars, engineVars
  <2>2. QED
    BY <2>1 DEF IAsked, Total
<1>7. CASE Landed
  <2>1. /\ pc = "wait" /\ UNCHANGED <<call, strobe, req>>
        /\ done' = done + ChunkLen
        /\ pc' = IF done' = Total THEN "ret" ELSE "chunk"
    BY <1>7 DEF Landed, engineVars
  <2>2. Call /\ done' \in Nat /\ done' <= Total
    BY <1>1, <2>1, ChunkLens
  <2>3. done' # Total => done' < Total
    BY <2>2
  <2>4. Total' = Total
    BY <2>1 DEF Total
  <2>5. QED
    BY <2>1, <2>2, <2>3, <2>4 DEF IAsked
<1>8. CASE Finish \/ CpuTimeout
  <2>1. pc' = "app" /\ UNCHANGED <<strobe, req>>
    BY <1>8 DEF Finish, CpuTimeout, Return, bridgeVars, engineVars
  <2>2. QED
    BY <2>1 DEF IAsked
<1>9. CASE Read \/ Write
  <2>1. UNCHANGED <<strobe, req>>
    BY <1>9 DEF Read, Write, Begin, engineVars
  <2>2. CASE pc' = "chunk"
    <3>1. PICK d \in Disks, at \in Starts, n \in Counts \cup {0},
               data \in Payloads \cup {<<>>} :
            /\ Begin(d, at, n, data)
            /\ n \in Counts \/ (n = 0 /\ data \in Payloads)
      BY <1>9 DEF Read, Write
    <3>2. /\ pc = "app" /\ done' = 0
          /\ call' = [disk |-> d, at |-> at, data |-> data, rd |-> n]
      BY <3>1, <2>2 DEF Begin
    <3>3. Total' = IF n > 0 THEN n ELSE Len(data)
      BY <3>2 DEF Total
    <3>4. Total' \in Nat \ {0}
      <4>1. CASE n \in Counts
        BY <3>3, <4>1, CallAssumption
      <4>2. CASE n = 0 /\ data \in Payloads
        <5>1. data \in Seq(STRING) /\ data # <<>>
          BY <4>2, CallAssumption
        <5>2. Len(data) \in Nat /\ Len(data) # 0
          BY <5>1
        <5>3. QED
          BY <3>3, <4>2, <5>2
      <4>3. QED
        BY <3>1, <4>1, <4>2
    <3>5. at \in Nat
      BY CallAssumption
    <3>6. QED
      BY <2>1, <3>2, <3>4, <3>5 DEF IAsked
  <2>3. CASE pc' # "chunk"
    <3>1. pc' = "app"
      BY <1>9, <2>3 DEF Read, Write, Begin
    <3>2. QED
      BY <2>1, <3>1 DEF IAsked
  <2>4. QED
    BY <2>2, <2>3
<1>10. CASE SizeBegin \/ SizeHi \/ SizeLo \/ SizeHi2
  <2>1. pc' \notin Working /\ UNCHANGED <<strobe, req>>
    BY <1>10 DEF SizeBegin, SizeHi, SizeLo, SizeHi2, bridgeVars, engineVars
  <2>2. QED
    BY <2>1 DEF IAsked
<1>11. CASE CacheStep \/ EnableRetries \/ UNCHANGED vars
  BY <1>2, <1>11 DEF CacheStep, EnableRetries, vars, bridgeVars, fwVars,
     callVars, engineVars
<1>12. QED
  BY <1>3, <1>4, <1>5, <1>6, <1>7, <1>8, <1>9, <1>10, <1>11 DEF Next, Firmware

\* A step that leaves the engine, the HPS and the images alone.
LEMMA WritesApart ==
  ASSUME IWrites, UNCHANGED <<op, hps, size, ro>>,
         state' = state \/ state' \notin Writing \cup Reading
  PROVE  IWrites'
BY DEF IWrites

\* The next block of a command fits if all of them do.
LEMMA NextBlockKeeps ==
  ASSUME IWrites, NextBlock, state \in {"wrData", "drain"},
         UNCHANGED <<size, ro>>, hps' \in {hps, IdleHps}
  PROVE  IWrites'
<1>1. /\ op = [wr |-> op.wr, disk |-> op.disk, at |-> op.at, cell |-> op.cell,
               left |-> op.left]
      /\ hps' = [st |-> hps'.st, wr |-> hps'.wr, disk |-> hps'.disk,
                 at |-> hps'.at]
      /\ hps'.st # "idle" /\ hps'.wr =>
            ~ro'[hps'.disk] /\ hps'.at < size'[hps'.disk]
  BY DEF IWrites, IdleHps
<1>2. CASE state' = "done"
  <2>1. \/ op' = op
        \/ op' = [op EXCEPT !.left = @ - 1, !.at = @ + 1, !.cell = @ + 1]
    BY DEF NextBlock
  <2>2. op' = [wr |-> op'.wr, disk |-> op'.disk, at |-> op'.at,
               cell |-> op'.cell, left |-> op'.left]
    BY <2>1, <1>1
  <2>3. QED
    BY <1>1, <1>2, <2>2 DEF IWrites, Writing, Reading
<1>3. CASE state' # "done"
  <2>1. /\ ~(op.left <= 1) /\ state' = IF op.wr THEN "fill" ELSE "rdReq"
        /\ op' = [op EXCEPT !.left = @ - 1, !.at = @ + 1, !.cell = @ + 1]
    BY <1>3 DEF NextBlock
  <2>2. /\ op'.wr = op.wr /\ op'.disk = op.disk
        /\ op'.at = op.at + 1 /\ op'.left = op.left - 1
        /\ op' = [wr |-> op'.wr, disk |-> op'.disk, at |-> op'.at,
                  cell |-> op'.cell, left |-> op'.left]
    BY <2>1, <1>1
  <2>3. CASE state = "drain"
    BY <2>1, <2>2, <2>3, <1>1 DEF IWrites, Writing, Reading
  <2>4. CASE state = "wrData"
    <3>1. /\ op.wr /\ op.disk \in Disks /\ op.at \in Nat
          /\ op.left \in Nat \ {0}
          /\ ~ro[op.disk] /\ op.at + op.left <= size[op.disk]
      BY <2>4 DEF IWrites, Writing
    <3>2. /\ op'.at \in Nat /\ op'.left \in Nat \ {0}
          /\ op'.at + op'.left = op.at + op.left
      BY <2>1, <2>2, <3>1
    <3>3. QED
      BY <2>1, <2>2, <3>1, <3>2, <1>1 DEF IWrites, Writing, Reading
  <2>5. QED
    BY <2>3, <2>4
<1>4. QED
  BY <1>2, <1>3

LEMMA WritesStep ==
  ASSUME ~MountAnytime, IImage, [Next]_vars
  PROVE  IWrites'
<1> USE DEF Writing, Reading
<1>1. IWrites
  BY DEF IImage
<1>2. CASE UNCHANGED <<fsmVars, hps, imageVars, disk, ingestVars, pause>>
  BY <1>1, <1>2, WritesApart DEF fsmVars, imageVars
<1>3. CASE Dispatch
  <2>1. /\ strobe # "none" /\ UNCHANGED <<size, ro, hps>>
        /\ op' = [wr |-> strobe = "write", disk |-> req.disk, at |-> req.at,
                  cell |-> req.cell, left |-> req.n]
        /\ err' = Verdict(req)
        /\ state' = IF err' # 0 THEN "done" ELSE FirstState(req)
    BY <1>3 DEF Dispatch, imageVars
  <2>2. req.disk \in Disks /\ req.at \in Nat /\ req.n \in Nat \ {0}
    BY <2>1 DEF IImage, IAsked
  <2>3. CASE state' = "fill"
    <3>1. Verdict(req) = 0 /\ strobe = "write"
      BY <2>1, <2>3 DEF FirstState
    <3>2. ~ro[req.disk] /\ ~(req.at + req.n > size[req.disk])
      BY <3>1 DEF Verdict, NOMOUNT, BADREQ, READONLY
    <3>3. size[req.disk] \in Nat
      BY <2>2, SizesNat DEF IImage, IHalf
    <3>4. req.at + req.n <= size[req.disk]
      BY <2>2, <3>2, <3>3
    <3>5. QED
      BY <1>1, <2>1, <2>2, <2>3, <3>1, <3>2, <3>4 DEF IWrites
  <2>4. CASE state' # "fill"
    <3>1. state' \in {"done", "rdReq", "rdData"}
      BY <2>1, <2>4 DEF FirstState
    <3>2. state' \in Reading => strobe # "write"
      BY <2>1, <2>4 DEF FirstState
    <3>3. QED
      BY <1>1, <2>1, <3>1, <3>2 DEF IWrites
  <2>5. QED
    BY <2>3, <2>4
<1>4. CASE Fill
  <2>1. state = "fill" /\ state' \in {"wrReq", "done"}
        /\ UNCHANGED <<op, hps, size, ro>>
    BY <1>4 DEF Fill, EndsWith, imageVars
  <2>2. QED
    BY <1>1, <2>1 DEF IWrites
<1>5. CASE Drain
  <2>1. /\ state = "drain" /\ UNCHANGED <<hps, size, ro>>
        /\ NextBlock \/ (state' = "done" /\ op' = op)
    BY <1>5 DEF Drain, EndsWith, imageVars
  <2>2. QED
    BY <1>1, <2>1, NextBlockKeeps, WritesApart
<1>6. CASE Capture \/ Release \/ Watchdog
  BY <1>1, <1>6, WritesApart DEF Capture, Release, Watchdog, EndsWith,
     imageVars,
     fsmVars
<1>7. CASE Pick
  <2>1. /\ state \in {"rdReq", "wrReq"} /\ UNCHANGED <<state, op, size, ro>>
        /\ hps' = [st |-> "picked", wr |-> state = "wrReq", disk |-> op.disk,
                   at |-> op.at]
    BY <1>7 DEF Pick, fsmVars, imageVars
  <2>2. CASE state = "rdReq"
    BY <1>1, <2>1, <2>2 DEF IWrites
  <2>3. CASE state = "wrReq"
    <3>1. /\ op.disk \in Disks /\ op.at \in Nat
          /\ op.left \in Nat \ {0}
          /\ ~ro[op.disk] /\ op.at + op.left <= size[op.disk]
      BY <1>1, <2>3 DEF IWrites
    <3>2. size[op.disk] \in Nat
      BY <3>1, SizesNat DEF IImage, IHalf
    <3>3. op.at < size[op.disk]
      BY <3>1, <3>2
    <3>4. QED
      BY <1>1, <2>1, <2>3, <3>1, <3>3 DEF IWrites
  <2>4. QED
    BY <2>1, <2>2, <2>3
<1>8. CASE AckRise
  <2>1. /\ hps.st = "picked" /\ hps' = [hps EXCEPT !.st = "acking"]
        /\ UNCHANGED <<op, size, ro>>
        /\ \/ state' = state
           \/ state = "rdReq" /\ state' = "rdData"
           \/ state = "wrReq" /\ state' = "wrData"
    BY <1>8 DEF AckRise, imageVars
  <2>2. /\ hps' = [st |-> "acking", wr |-> hps.wr, disk |-> hps.disk,
                   at |-> hps.at]
    BY <1>1, <2>1 DEF IWrites
  <2>3. QED
    BY <1>1, <2>1, <2>2 DEF IWrites
<1>9. CASE AckFall
  <2>1. /\ hps' = IdleHps /\ UNCHANGED <<size, ro>>
        /\ \/ state = "wrData" /\ NextBlock
           \/ op' = op /\ state' = state
           \/ op' = op /\ state = "rdData" /\ state' = "drain"
    BY <1>9 DEF AckFall, imageVars
  <2>2. CASE state = "wrData" /\ NextBlock
    BY <1>1, <2>1, <2>2, NextBlockKeeps
  <2>3. CASE ~(state = "wrData" /\ NextBlock)
    BY <1>1, <2>1, <2>3 DEF IWrites, IdleHps
  <2>4. QED
    BY <2>2, <2>3
\* An image changes only when nothing is under way.
<1>10. CASE Mount
  <2>1. /\ state \in {"idle", "boot"} /\ hps.st = "idle"
        /\ UNCHANGED <<state, op, hps>>
    BY <1>10 DEF Mount, fsmVars
  <2>2. QED
    BY <1>1, <2>1 DEF IWrites
<1>11. CASE Ingest \/ Sender \/ DlStart \/ SetPause
  <2>1. /\ UNCHANGED <<op, hps, size, ro>>
        /\ state' = state \/ state' \notin Writing \cup Reading
    BY <1>11 DEF Ingest, Sender, StartEdge, EndEdge, TakeWord, WordWritten,
       MarkLoaded, HpsWord, DlEnd, DlStart, SetPause, imageVars, fsmVars
  <2>2. QED
    BY <1>1, <2>1, WritesApart
<1>12. QED
  BY <1>2, <1>3, <1>4, <1>5, <1>6, <1>7, <1>8, <1>9, <1>10, <1>11, NextCases
     DEF Bridge, Engine

\* Only the end of the HPS's answer changes a disk, in one sector.
LEMMA DiskStep ==
  ASSUME [Next]_vars
  PROVE  \/ UNCHANGED disk
         \/ /\ hps.st = "acking" /\ hps.wr
            /\ \E v : disk' = [disk EXCEPT ![hps.disk][hps.at] = v]
<1>1. CASE AckFall
  BY <1>1 DEF AckFall, Block
<1>2. CASE Bridge /\ ~AckFall
  <2>1. CASE Engine \/ Watchdog \/ Pick \/ AckRise \/ Mount
    BY <2>1 DEF Engine, Dispatch, Fill, Drain, Capture, Release, Watchdog, Pick,
       AckRise, Mount
  <2>2. CASE Ingest \/ Sender \/ DlStart \/ SetPause
    BY <2>2 DEF Ingest, Sender, StartEdge, EndEdge, TakeWord, WordWritten,
       MarkLoaded, HpsWord, DlEnd, DlStart, SetPause
  <2>3. QED
    BY <1>2, <2>1, <2>2 DEF Bridge
<1>3. CASE UNCHANGED <<fsmVars, hps, imageVars, disk, ingestVars, pause>>
  BY <1>3
<1>4. QED
  BY <1>1, <1>2, <1>3, NextCases

LEMMA ImageInit == Init => IImage
<1> SUFFICES ASSUME Init PROVE IImage
  OBVIOUS
<1>1. PICK f \in [Disks -> Images] : size = [d \in Disks |-> f[d].size]
  BY DEF Init, BridgeInit
<1>2. IHalf
  <2>1. size \in [Disks -> Sizes]
    BY <1>1 DEF Sizes
  <2>2. QED
    BY <2>1 DEF Init, IHalf, NoHalf
<1>3. IAsked
  BY DEF Init, BridgeInit, IAsked
<1>4. IWrites
  BY DEF Init, BridgeInit, IWrites, IdleHps, Writing, Reading
<1>5. IDisk
  BY ImageAssumption DEF Init, BridgeInit, IDisk
<1>6. QED
  BY <1>2, <1>3, <1>4, <1>5 DEF IImage

LEMMA ImageStep ==
  ASSUME ~MountAnytime, IImage, [Next]_vars
  PROVE  IImage'
<1>1. IDisk'
  <2>1. CASE UNCHANGED disk
    BY <2>1 DEF IImage, IDisk
  <2>2. CASE \E v : disk' = [disk EXCEPT ![hps.disk][hps.at] = v]
    BY <2>2 DEF IImage, IDisk
  <2>3. QED
    BY <2>1, <2>2, DiskStep
<1>2. QED
  BY <1>1, HalfStep, AskedStep, WritesStep DEF IImage

\* RespectsImage of every execution, also with an HPS that answers requests
\* the engine has given up: no write reaches a read-only image, nor lands past
\* the end of one.
THEOREM RespectsImageHolds ==
  ASSUME ~MountAnytime
  PROVE  Spec => RespectsImage
<1>1. IImage /\ [Next]_vars =>
        [\A d \in Disks, s \in Sectors :
            disk'[d][s] # disk[d][s] => ~ro[d] /\ s < size[d]]_bridgeVars
  <2>1. SUFFICES ASSUME IImage, [Next]_vars, NEW d \in Disks, NEW s \in Sectors,
                        disk'[d][s] # disk[d][s]
                 PROVE  ~ro[d] /\ s < size[d]
    OBVIOUS
  <2>2. PICK v : /\ hps.st = "acking" /\ hps.wr
                 /\ disk' = [disk EXCEPT ![hps.disk][hps.at] = v]
    BY <2>1, DiskStep
  <2>3. d = hps.disk /\ s = hps.at
    BY <2>1, <2>2 DEF IImage, IDisk
  <2>4. QED
    BY <2>1, <2>2, <2>3 DEF IImage, IWrites
<1>2. IImage /\ [Next]_vars => IImage'
  BY ImageStep
<1>3. QED
  BY <1>1, <1>2, ImageInit, PTL DEF Spec, RespectsImage

-----------------------------------------------------------------------------
(***************************************************************************)
(* The calls as a disk's, in a core that nothing restarts behind a call's  *)
(* back: no download of an ini, and a processor that waits for the engine  *)
(* for as long as the bridge's own watchdog lets the engine wait.          *)
(***************************************************************************)

InCall == pc \in {"chunk", "gate", "wait", "ret"}
Busy == Writing \cup Reading

\* A block of the call, counted from 0, on the disk.
On(j) == disk[call.disk][call.at + j]
\* Blocks of the command that the engine is done with.
K == ChunkLen - op.left

\* The first n blocks of the command are where they belong.
Moved(n) ==
    IF call.rd > 0 THEN \A j \in 0..n - 1 : mem[Target + j] = On(done + j)
    ELSE \A j \in 0..done + n - 1 : On(j) = call.data[j + 1]

ICall ==
    /\ way \in {"cached", "uncached", "bounce"}
    /\ ~InCall => call = Nothing
    /\ InCall =>
        /\ call.disk \in Disks /\ call.at \in Nat \cap Sectors
        /\ call.data \in Seq(STRING) /\ call.rd \in Nat
        /\ call.rd > 0 => call.data = <<>>
        /\ call.rd > 0 => call.rd \in Counts
        /\ call.rd = 0 => call.data \in Payloads
        /\ call.at + Total <= Addressable
        /\ done \in 0..Total
    /\ pc = "ret" => done = Total
    /\ InCall /\ call.rd = 0 => \A j \in 0..done - 1 : On(j) = call.data[j + 1]

IEngine ==
    /\ pc # "wait" => strobe = "none" /\ state \in {"idle", "done"}
    /\ pc = "wait" =>
        /\ req = [disk |-> call.disk, at |-> call.at + done, cell |-> Target,
                  n |-> ChunkLen]
        /\ strobe \in {"none", IF call.rd > 0 THEN "read" ELSE "write"}
        /\ strobe = "none" => state \in {"idle", "done"}
        /\ strobe = "none" /\ dsErr = 0 => Moved(ChunkLen)
        /\ strobe # "none" => ~dsDone
        /\ state = "done" /\ strobe # "none" /\ err = 0 => Moved(ChunkLen)

IBlocks ==
    /\ state \in Busy =>
        /\ op.disk = call.disk /\ (op.wr <=> call.rd = 0)
        /\ K \in 0..ChunkLen - 1 /\ op.left = ChunkLen - K
        /\ op.at = call.at + done + K /\ op.cell = Target + K
        /\ Moved(K)
    /\ state \in {"wrReq", "wrData"} => secbuf = call.data[done + K + 1]
    /\ state = "drain" => secbuf = On(done + K)

\* The HPS serves the engine's block and nothing else.
IServes ==
    /\ hps.st # "idle" =>
        /\ hps.disk = op.disk /\ hps.at = op.at /\ (hps.wr <=> op.wr)
        /\ \/ hps.st = "picked" /\ state \in {"rdReq", "wrReq"}
           \/ hps.st = "acking" /\ state \in {"rdData", "wrData"}
    /\ state \in {"rdData", "wrData"} => hps.st = "acking"

\* What a command sends to the disk is in memory, no line lies over what it
\* fetches, and what has been fetched stays.
ISent ==
    InCall /\ call.rd = 0 =>
        /\ way = "cached" =>
            \A j \in 0..Total - 1 : View(Buffer + j) = call.data[j + 1]
        /\ way = "uncached" =>
            \A j \in 0..Total - 1 : mem[Buffer + j] = call.data[j + 1]
        /\ pc \in {"gate", "wait"} =>
            \A j \in 0..ChunkLen - 1 : mem[Target + j] = call.data[done + j + 1]

IFetched ==
    InCall /\ call.rd > 0 =>
        /\ way # "bounce" =>
            \A j \in 0..done - 1 : mem[Buffer + j] = On(j)
        /\ way = "cached" =>
            \A j \in 0..done - 1 : cache[Buffer + j].st = "none"
        /\ way = "bounce" => moved = [i \in 1..done |-> On(i - 1)]

ILines ==
    /\ DOMAIN mem = Cells /\ DOMAIN cache = Cells
    /\ \A j \in 0..Chunk - 1 : cache[Scratch + j].st # "dirty"
    /\ InCall /\ way = "uncached" =>
        \A j \in 0..Total - 1 : cache[Buffer + j].st # "dirty"
    /\ pc \in {"gate", "wait"} =>
        \A j \in 0..ChunkLen - 1 : cache[Target + j].st # "dirty"

INoDownload == todo = 0 /\ dl = "none" /\ ~dlSeen /\ load = "boot"

IStore ==
    /\ ICall /\ IEngine /\ IBlocks /\ IServes
    /\ ISent /\ IFetched /\ ILines /\ INoDownload

\* The core is not restarted behind a call's back, nor does it give up a
\* command that the bridge still works on.
Steady ==
    /\ ~SlowHost /\ ~MountAnytime /\ Downloads = 0 /\ "wait" \notin CpuGivesUp

\* The numbers of a call.
LEMMA CallNumbers ==
  ASSUME ICall, InCall
  PROVE  /\ Total \in Nat \ {0} /\ done \in 0..Total /\ call.at \in Nat
         /\ call.rd \in Nat /\ call.at + Total <= Addressable
         /\ Buffer \in Int /\ Scratch \in Int /\ Chunk \in Nat \ {0}
         /\ Buffer + Total <= Scratch
         /\ call.rd > 0 => Total = call.rd
         /\ call.rd = 0 => Total = Len(call.data)
<1>1. /\ call.rd \in Nat /\ call.data \in Seq(STRING) /\ call.at \in Nat
      /\ call.rd > 0 => call.rd \in Counts
      /\ call.rd = 0 => call.data \in Payloads
      /\ call.at + Total <= Addressable /\ done \in 0..Total
  BY DEF ICall
<1>2. CASE call.rd > 0
  BY <1>1, <1>2, CallAssumption, BufferAssumption DEF Total
<1>3. CASE call.rd = 0
  <2>1. Total = Len(call.data) /\ call.data # <<>> /\ call.data \in Payloads
    BY <1>1, <1>3, CallAssumption DEF Total
  <2>2. Len(call.data) \in Nat /\ Len(call.data) # 0
    BY <2>1, <1>1
  <2>3. QED
    BY <2>1, <2>2, <1>1, <1>3, CallAssumption, BufferAssumption
<1>4. QED
  BY <1>1, <1>2, <1>3

\* The numbers of a command, and where its blocks are.
LEMMA ChunkNumbers ==
  ASSUME ICall, InCall, done < Total
  PROVE  /\ ChunkLen \in Nat \ {0} /\ ChunkLen <= Chunk
         /\ done + ChunkLen <= Total /\ Target \in Int
         /\ way = "bounce" => Target = Scratch
         /\ way # "bounce" => Target = Buffer + done
         /\ \A j \in 0..ChunkLen - 1 : Target + j \in Cells
         /\ ChunkCells = {Target + j : j \in 0..ChunkLen - 1}
<1>1. /\ Total \in Nat \ {0} /\ done \in 0..Total
      /\ Buffer \in Int /\ Scratch \in Int /\ Chunk \in Nat \ {0}
      /\ Buffer + Total <= Scratch
  BY CallNumbers
<1>2. /\ ChunkLen \in Nat \ {0} /\ ChunkLen <= Chunk
      /\ done + ChunkLen <= Total
  BY <1>1 DEF ChunkLen
<1>3. /\ Target \in Int
      /\ way = "bounce" => Target = Scratch
      /\ way # "bounce" => Target = Buffer + done
  BY <1>1 DEF Target
<1>4. \A j \in 0..ChunkLen - 1 : Target + j \in Buffer..Scratch + Chunk - 1
  BY <1>1, <1>2, <1>3
<1>5. ChunkCells = {Target + j : j \in 0..ChunkLen - 1}
  <2>1. ASSUME NEW i \in 1..ChunkLen
        PROVE  i - 1 \in 0..ChunkLen - 1 /\ Target + i - 1 = Target + (i - 1)
    BY <1>2, <1>3
  <2>2. ASSUME NEW j \in 0..ChunkLen - 1
        PROVE  j + 1 \in 1..ChunkLen /\ Target + (j + 1) - 1 = Target + j
    BY <1>2, <1>3
  <2>3. QED
    BY <2>1, <2>2 DEF ChunkCells
<1>6. QED
  BY <1>2, <1>3, <1>4, <1>5, BufferAssumption

\* The buffer's blocks.
LEMMA BufferNumbers ==
  ASSUME ICall, InCall, NEW j \in 0..Total - 1
  PROVE  /\ Buffer + j \in Cells /\ Buffer + j \in Buffer..Scratch - 1
         /\ j + 1 \in 1..Total
<1>1. /\ Total \in Nat /\ Buffer \in Int /\ Scratch \in Int
      /\ Chunk \in Nat \ {0} /\ Buffer + Total <= Scratch
  BY CallNumbers
<1>2. QED
  BY <1>1, BufferAssumption

-----------------------------------------------------------------------------
\* Steps of the bridge that leave the firmware, the memory and the disk alone.
LEMMA CallApart ==
  ASSUME IStore, UNCHANGED <<fwVars, disk>>
  PROVE  /\ ICall'
         /\ Total' = Total /\ ChunkLen' = ChunkLen /\ Target' = Target
         /\ InCall' = InCall /\ \A j : On(j)' = On(j)
<1>1. UNCHANGED <<pc, call, way, done, attempt, armed, cache, moved, disk>>
  BY DEF fwVars, callVars
<1>2. Total' = Total
  BY <1>1 DEF Total
<1>3. ChunkLen' = ChunkLen /\ Target' = Target
  BY <1>1, <1>2 DEF ChunkLen, Target
<1>4. InCall' = InCall /\ \A j : On(j)' = On(j)
  BY <1>1 DEF InCall, On
<1>5. ICall'
  BY <1>1, <1>2, <1>4 DEF IStore, ICall
<1>6. QED
  BY <1>2, <1>3, <1>4, <1>5

LEMMA MemoryApart ==
  ASSUME IStore, UNCHANGED <<fwVars, disk, mem>>
  PROVE  ISent' /\ IFetched' /\ ILines'
<1>1. /\ UNCHANGED <<pc, call, way, done, cache, moved, mem>>
      /\ Total' = Total /\ ChunkLen' = ChunkLen /\ Target' = Target
      /\ InCall' = InCall /\ \A j : On(j)' = On(j)
  BY CallApart DEF fwVars, callVars
<1>2. \A c : View(c)' = View(c)
  BY <1>1 DEF View
<1>3. ISent'
  BY <1>1, <1>2 DEF IStore, ISent
<1>4. IFetched'
  BY <1>1 DEF IStore, IFetched
<1>5. ILines'
  BY <1>1 DEF IStore, ILines
<1>6. QED
  BY <1>3, <1>4, <1>5

LEMMA MovedApart ==
  ASSUME IStore, UNCHANGED <<fwVars, disk, mem>>
  PROVE  \A n : Moved(n)' = Moved(n)
BY CallApart DEF Moved, fwVars, callVars

\* No download means that nothing of one ever happens.
LEMMA NoDownload ==
  ASSUME Steady, IStore, IIngest
  PROVE  /\ state # "boot" /\ pending = NoWord
         /\ ~Ingest /\ ~Sender /\ ~DlStart
<1>1. todo = 0 /\ dl = "none" /\ ~dlSeen /\ load = "boot"
  BY DEF IStore, INoDownload
<1>2. pending = NoWord /\ len["boot"] = 0 /\ state # "boot"
  BY <1>1 DEF IIngest, IContent, IFlow
<1>3. ~Ingest
  BY <1>1, <1>2 DEF Ingest, StartEdge, EndEdge, TakeWord, WordWritten,
     MarkLoaded
<1>4. ~Sender /\ ~DlStart
  BY <1>1 DEF Sender, HpsWord, DlEnd, DlStart
<1>5. QED
  BY <1>2, <1>3, <1>4

\* The engine's steps that move no block.
LEMMA EngineKeeps ==
  ASSUME Steady, IStore, IImage, UNCHANGED fwVars,
         Dispatch \/ Capture \/ Release \/ Watchdog
  PROVE  IStore' /\ UNCHANGED disk
<1>1. UNCHANGED <<disk, mem, hps, req, todo, dl, dlSeen, load, secbuf>>
  BY DEF Dispatch, Capture, Release, Watchdog, EndsWith, engineVars, fsmVars,
     ingestVars, senderVars, loadVars
<1>2. /\ ICall' /\ ISent' /\ IFetched' /\ ILines' /\ INoDownload'
      /\ Total' = Total /\ ChunkLen' = ChunkLen /\ Target' = Target
      /\ InCall' = InCall /\ \A j : On(j)' = On(j)
      /\ \A n : Moved(n)' = Moved(n)
  BY <1>1, CallApart, MemoryApart, MovedApart DEF IStore, INoDownload
<1>3. pc' = pc /\ call' = call /\ done' = done
  BY DEF fwVars, callVars
<1>4. IEngine /\ IBlocks /\ IServes /\ ICall /\ IAsked /\ IWrites
  BY DEF IStore, IImage
<1>5. CASE Dispatch
  <2>1. /\ state = "idle" /\ strobe # "none" /\ UNCHANGED <<strobe, dsDone,
                                                            dsErr>>
        /\ op' = [wr |-> strobe = "write", disk |-> req.disk, at |-> req.at,
                  cell |-> req.cell, left |-> req.n]
        /\ err' = Verdict(req)
        /\ state' = IF err' # 0 THEN "done" ELSE FirstState(req)
    BY <1>5 DEF Dispatch, engineVars
  <2>2. hps.st = "idle"
    BY <2>1, <1>4 DEF IServes
  <2>3. pc = "wait"
    BY <2>1, <1>4 DEF IEngine
  <2>4. \/ state' = "done" /\ err' # 0
        \/ state' = "fill" /\ strobe = "write"
        \/ state' = "rdReq" /\ strobe # "write"
    BY <2>1, <2>2 DEF FirstState
  <2>5. /\ req = [disk |-> call.disk, at |-> call.at + done, cell |-> Target,
                  n |-> ChunkLen]
        /\ strobe = IF call.rd > 0 THEN "read" ELSE "write"
        /\ InCall /\ done < Total
    BY <2>1, <2>3, <1>4 DEF IEngine, InCall, IAsked
  <2>6. ChunkLen \in Nat \ {0} /\ Target \in Int /\ done \in Nat
        /\ call.at \in Nat /\ call.rd \in Nat
    BY <2>5, <1>4, ChunkNumbers, CallNumbers
  <2>7. IEngine'
    BY <2>1, <2>3, <2>4, <1>1, <1>2, <1>3, <1>4 DEF IEngine, Busy, Writing,
       Reading
  <2>8. op'.left = ChunkLen /\ K' = 0
    <3>1. op'.left = ChunkLen
      BY <2>1, <2>5
    <3>2. ChunkLen - ChunkLen = 0
      BY <2>6
    <3>3. QED
      BY <3>1, <3>2, <1>2 DEF K
  <2>9. Moved(0)
    <3>1. call.rd = 0 => \A j \in 0..done - 1 : On(j) = call.data[j + 1]
      BY <2>5, <1>4 DEF ICall
    <3>2. 0..0 - 1 = {} /\ 0..done + 0 - 1 = 0..done - 1
      BY <2>6
    <3>3. QED
      BY <3>1, <3>2, <2>6 DEF Moved
  <2>10. IBlocks'
    <3>1. /\ op'.disk = call.disk /\ (op'.wr <=> call.rd = 0)
          /\ op'.at = call.at + done /\ op'.cell = Target
      <4>1. strobe = "write" <=> call.rd = 0
        BY <2>5, <2>6
      <4>2. QED
        BY <4>1, <2>1, <2>5
    <3>2. /\ 0 \in 0..ChunkLen - 1 /\ ChunkLen = ChunkLen - 0
          /\ call.at + done = call.at + done + 0 /\ Target = Target + 0
      BY <2>6
    <3>3. state' \notin {"wrReq", "wrData", "drain"}
      BY <2>4
    <3>4. QED
      BY <3>1, <3>2, <3>3, <2>8, <2>9, <1>2, <1>3 DEF IBlocks
  <2>11. IServes'
    BY <2>2, <2>4, <1>1 DEF IServes
  <2>12. QED
    BY <2>7, <2>10, <2>11, <1>1, <1>2 DEF IStore
<1>6. CASE Capture
  <2>1. /\ state = "done" /\ strobe # "none"
        /\ strobe' = "none" /\ dsDone' = TRUE /\ dsErr' = err
        /\ UNCHANGED <<state, op, err>>
    BY <1>6 DEF Capture, fsmVars
  <2>2. IEngine'
    BY <2>1, <1>1, <1>2, <1>3, <1>4 DEF IEngine
  <2>3. IBlocks' /\ IServes'
    BY <2>1, <1>1, <1>4 DEF IBlocks, IServes, Busy, Writing, Reading
  <2>4. QED
    BY <2>2, <2>3, <1>1, <1>2 DEF IStore
<1>7. CASE Release
  <2>1. /\ state = "done" /\ strobe = "none" /\ state' = "idle"
        /\ UNCHANGED <<strobe, dsDone, dsErr, op, err>>
    BY <1>7 DEF Release, engineVars
  <2>2. IEngine'
    BY <2>1, <1>1, <1>2, <1>3, <1>4 DEF IEngine
  <2>3. IBlocks' /\ IServes'
    BY <2>1, <1>1, <1>4 DEF IBlocks, IServes, Busy, Writing, Reading
  <2>4. QED
    BY <2>2, <2>3, <1>1, <1>2 DEF IStore
<1>8. CASE Watchdog
  <2>1. /\ state \in WaitsForHps /\ hps.st = "idle"
        /\ state' = "done" /\ err' = TIMEOUT
        /\ UNCHANGED <<strobe, dsDone, dsErr, op>>
    BY <1>8 DEF Watchdog, EndsWith, engineVars, Steady
  <2>2. IEngine'
    <3>1. strobe # "none" /\ pc = "wait"
      BY <2>1, <1>4 DEF IEngine, WaitsForHps
    <3>2. QED
      BY <2>1, <3>1, <1>1, <1>2, <1>3, <1>4 DEF IEngine, TIMEOUT
  <2>3. IBlocks' /\ IServes'
    BY <2>1, <1>1, <1>4 DEF IBlocks, IServes, Busy, Writing, Reading
  <2>4. QED
    BY <2>2, <2>3, <1>1, <1>2 DEF IStore
<1>9. QED
  BY <1>5, <1>6, <1>7, <1>8

\* The HPS reads a request, and raises ack for it.
LEMMA HpsKeeps ==
  ASSUME Steady, IStore, IImage, UNCHANGED fwVars, Pick \/ AckRise
  PROVE  IStore' /\ UNCHANGED disk
<1>1. /\ UNCHANGED <<disk, mem, req, todo, dl, dlSeen, load, secbuf>>
      /\ UNCHANGED <<strobe, dsDone, dsErr, op, err>>
  BY DEF Pick, AckRise, engineVars, fsmVars, ingestVars, senderVars, loadVars
<1>2. /\ ICall' /\ ISent' /\ IFetched' /\ ILines' /\ INoDownload'
      /\ Total' = Total /\ ChunkLen' = ChunkLen /\ Target' = Target
      /\ InCall' = InCall /\ \A j : On(j)' = On(j)
      /\ \A n : Moved(n)' = Moved(n)
  BY <1>1, CallApart, MemoryApart, MovedApart DEF IStore, INoDownload
<1>3. pc' = pc /\ call' = call /\ done' = done
  BY DEF fwVars, callVars
<1>4. IEngine /\ IBlocks /\ IServes /\ ICall /\ IAsked /\ IWrites
  BY DEF IStore, IImage
<1>5. K' = K
  BY <1>1, <1>2 DEF K
<1>6. CASE Pick
  <2>1. /\ state \in {"rdReq", "wrReq"} /\ state' = state
        /\ hps' = [st |-> "picked", wr |-> state = "wrReq", disk |-> op.disk,
                   at |-> op.at]
    BY <1>6 DEF Pick, fsmVars
  <2>2. IEngine' /\ IBlocks'
    BY <2>1, <1>1, <1>2, <1>3, <1>4, <1>5 DEF IEngine, IBlocks
  <2>3. op.wr <=> state = "wrReq"
    BY <2>1, <1>4 DEF IWrites, Writing, Reading
  <2>4. IServes'
    BY <2>1, <2>3, <1>1, <1>4 DEF IServes
  <2>5. QED
    BY <2>2, <2>4, <1>1, <1>2 DEF IStore
<1>7. CASE AckRise
  <2>1. /\ hps.st = "picked" /\ hps' = [hps EXCEPT !.st = "acking"]
        /\ state' = IF hps.disk # op.disk THEN state
                    ELSE IF state = "rdReq" THEN "rdData"
                    ELSE IF state = "wrReq" THEN "wrData" ELSE state
    BY <1>7 DEF AckRise
  <2>2. /\ hps.disk = op.disk /\ hps.at = op.at /\ (hps.wr <=> op.wr)
        /\ state \in {"rdReq", "wrReq"}
    BY <2>1, <1>4 DEF IServes
  <2>3. \/ state = "rdReq" /\ state' = "rdData"
        \/ state = "wrReq" /\ state' = "wrData"
    BY <2>1, <2>2
  <2>4. /\ hps'.st = "acking" /\ hps'.disk = hps.disk /\ hps'.at = hps.at
        /\ hps'.wr = hps.wr
    BY <2>1, <1>4 DEF IWrites
  <2>5. IEngine' /\ IBlocks'
    BY <2>3, <1>1, <1>2, <1>3, <1>4, <1>5 DEF IEngine, IBlocks, Busy, Writing,
       Reading
  <2>6. IServes'
    BY <2>2, <2>3, <2>4, <1>1 DEF IServes
  <2>7. QED
    BY <2>5, <2>6, <1>1, <1>2 DEF IStore
<1>8. QED
  BY <1>6, <1>7

\* What is known of the block that the engine is at.
LEMMA BlockNumbers ==
  ASSUME IStore, IImage, state \in Busy
  PROVE  /\ InCall /\ pc = "wait" /\ strobe # "none" /\ done < Total
         /\ ChunkLen \in Nat \ {0} /\ ChunkLen <= Chunk
         /\ done + ChunkLen <= Total /\ Target \in Int /\ done \in Nat
         /\ call.at \in Nat /\ call.rd \in Nat
         /\ K \in 0..ChunkLen - 1 /\ op.left = ChunkLen - K
         /\ op.disk = call.disk /\ (op.wr <=> call.rd = 0)
         /\ op.at = call.at + done + K /\ op.cell = Target + K
         /\ Moved(K) /\ op.cell \in Cells
         /\ way = "bounce" => Target = Scratch
         /\ way # "bounce" => Target = Buffer + done
<1>1. IEngine /\ IBlocks /\ ICall /\ IAsked
  BY DEF IStore, IImage
<1>2. pc = "wait" /\ strobe # "none"
  BY <1>1 DEF IEngine, Busy, Writing, Reading
<1>3. InCall /\ done < Total
  BY <1>1, <1>2 DEF InCall, IAsked
<1>4. /\ ChunkLen \in Nat \ {0} /\ ChunkLen <= Chunk
      /\ done + ChunkLen <= Total /\ Target \in Int
      /\ \A j \in 0..ChunkLen - 1 : Target + j \in Cells
      /\ way = "bounce" => Target = Scratch
      /\ way # "bounce" => Target = Buffer + done
  BY <1>1, <1>3, ChunkNumbers
<1>5. done \in Nat /\ call.at \in Nat /\ call.rd \in Nat
  BY <1>1, <1>3, CallNumbers
<1>6. /\ K \in 0..ChunkLen - 1 /\ op.left = ChunkLen - K
      /\ op.disk = call.disk /\ (op.wr <=> call.rd = 0)
      /\ op.at = call.at + done + K /\ op.cell = Target + K
      /\ Moved(K)
  BY <1>1 DEF IBlocks
<1>7. QED
  BY <1>2, <1>3, <1>4, <1>5, <1>6

\* To the next block, or finished.
LEMMA NextBlockGives ==
  ASSUME IStore, IImage, state \in Busy, NextBlock, ChunkLen' = ChunkLen
  PROVE  \/ state' = "done" /\ K + 1 = ChunkLen
         \/ /\ state' = IF op.wr THEN "fill" ELSE "rdReq"
            /\ K' = K + 1 /\ K + 1 \in 0..ChunkLen - 1
            /\ op'.left = ChunkLen - (K + 1) /\ op'.cell = Target + (K + 1)
            /\ op'.at = call.at + done + (K + 1)
            /\ op'.disk = op.disk /\ op'.wr = op.wr
<1>1. /\ K \in 0..ChunkLen - 1 /\ op.left = ChunkLen - K /\ ChunkLen \in Nat
      /\ op.at = call.at + done + K /\ op.cell = Target + K
      /\ call.at \in Nat /\ done \in Nat /\ Target \in Int
  BY BlockNumbers
<1>2. CASE op.left <= 1
  BY <1>1, <1>2 DEF NextBlock
<1>3. CASE ~(op.left <= 1)
  <2>1. /\ state' = IF op.wr THEN "fill" ELSE "rdReq"
        /\ op' = [op EXCEPT !.left = @ - 1, !.at = @ + 1, !.cell = @ + 1]
    BY <1>3 DEF NextBlock
  <2>2. /\ op'.left = op.left - 1 /\ op'.at = op.at + 1
        /\ op'.cell = op.cell + 1 /\ op'.disk = op.disk /\ op'.wr = op.wr
    BY <2>1 DEF IImage, IWrites
  <2>3. /\ K + 1 \in 0..ChunkLen - 1
        /\ op.left - 1 = ChunkLen - (K + 1)
        /\ op.at + 1 = call.at + done + (K + 1)
        /\ op.cell + 1 = Target + (K + 1)
        /\ ChunkLen - (ChunkLen - (K + 1)) = K + 1
    BY <1>1, <1>3
  <2>4. K' = ChunkLen - op'.left
    BY DEF K
  <2>5. op'.left = ChunkLen - (K + 1)
    BY <2>2, <2>3
  <2>6. K' = K + 1
    BY <2>3, <2>4, <2>5
  <2>7. QED
    BY <2>1, <2>2, <2>3, <2>5, <2>6
<1>4. QED
  BY <1>2, <1>3

\* A block is sent: out of memory into the sector buffer.
LEMMA FillKeeps ==
  ASSUME Steady, IStore, IImage, UNCHANGED fwVars, Fill
  PROVE  IStore' /\ UNCHANGED disk
<1>1. /\ state = "fill"
      /\ UNCHANGED <<disk, mem, req, todo, dl, dlSeen, load, hps>>
      /\ UNCHANGED <<strobe, dsDone, dsErr, op>>
      /\ \/ secbuf' = mem[op.cell] /\ state' = "wrReq" /\ err' = err
         \/ state' = "done" /\ err' = AXI
  BY DEF Fill, EndsWith, engineVars, ingestVars, senderVars, loadVars
<1>2. /\ ICall' /\ ISent' /\ IFetched' /\ ILines' /\ INoDownload'
      /\ Total' = Total /\ ChunkLen' = ChunkLen /\ Target' = Target
      /\ InCall' = InCall /\ \A j : On(j)' = On(j)
      /\ \A n : Moved(n)' = Moved(n)
  BY <1>1, CallApart, MemoryApart, MovedApart DEF IStore, INoDownload
<1>3. pc' = pc /\ call' = call /\ done' = done
  BY DEF fwVars, callVars
<1>4. IEngine /\ IBlocks /\ IServes /\ ICall /\ IAsked /\ IWrites
  BY DEF IStore, IImage
<1>5. K' = K
  BY <1>1, <1>2 DEF K
<1>6. /\ InCall /\ pc = "wait" /\ strobe # "none" /\ K \in 0..ChunkLen - 1
      /\ op.cell = Target + K /\ op.wr /\ call.rd = 0
      /\ done \in Nat /\ ChunkLen \in Nat /\ Target \in Int
  BY <1>1, <1>4, BlockNumbers DEF Busy, Writing, IWrites
<1>7. mem[op.cell] = call.data[done + K + 1]
  BY <1>6 DEF IStore, ISent
<1>8. IEngine'
  BY <1>1, <1>2, <1>3, <1>4, <1>6 DEF IEngine, AXI
<1>9. IBlocks'
  BY <1>1, <1>2, <1>3, <1>4, <1>5, <1>7 DEF IBlocks, Busy, Writing, Reading
<1>10. IServes'
  BY <1>1, <1>4 DEF IServes
<1>11. QED
  BY <1>1, <1>2, <1>8, <1>9, <1>10 DEF IStore

\* A block is fetched: out of the sector buffer into memory.
LEMMA DrainKeeps ==
  ASSUME Steady, IStore, IImage, UNCHANGED fwVars, Drain
  PROVE  IStore' /\ UNCHANGED disk
<1>1. /\ state = "drain"
      /\ UNCHANGED <<disk, req, todo, dl, dlSeen, load, hps, secbuf>>
      /\ UNCHANGED <<strobe, dsDone, dsErr>>
      /\ \/ mem' = [mem EXCEPT ![op.cell] = secbuf] /\ NextBlock /\ err' = err
         \/ /\ mem' = [mem EXCEPT ![op.cell] = "torn"]
            /\ state' = "done" /\ err' = AXI /\ op' = op
  BY DEF Drain, EndsWith, engineVars, ingestVars, senderVars, loadVars
<1>2. /\ ICall' /\ INoDownload'
      /\ Total' = Total /\ ChunkLen' = ChunkLen /\ Target' = Target
      /\ InCall' = InCall /\ \A j : On(j)' = On(j)
  BY <1>1, CallApart DEF IStore, INoDownload
<1>3. /\ UNCHANGED <<pc, call, way, done, cache, moved>>
  BY DEF fwVars, callVars
<1>4. IEngine /\ IBlocks /\ IServes /\ ICall /\ IAsked /\ IWrites
  BY DEF IStore, IImage
<1>5. /\ InCall /\ pc = "wait" /\ strobe # "none" /\ done < Total
      /\ ChunkLen \in Nat \ {0} /\ done \in Nat /\ Target \in Int
      /\ call.rd \in Nat /\ K \in 0..ChunkLen - 1 /\ op.cell = Target + K
      /\ op.cell \in Cells /\ ~op.wr /\ call.rd > 0 /\ Moved(K)
      /\ way # "bounce" => Target = Buffer + done
      /\ op.disk = call.disk
  BY <1>1, <1>4, BlockNumbers DEF Busy, Reading, IWrites
<1>6. secbuf = On(done + K)
  BY <1>1, <1>4 DEF IBlocks
\* The blocks before this one stay.
<1>7. \A c : c # op.cell => mem'[c] = mem[c] \/ c \notin Cells
  BY <1>1 DEF IStore, ILines
<1>8. DOMAIN mem' = Cells
  BY <1>1 DEF IStore, ILines
<1>9. ISent'
  BY <1>2, <1>3, <1>5 DEF ISent
<1>10. IFetched'
  <2>1. ASSUME way # "bounce", NEW j \in 0..done - 1
        PROVE  mem'[Buffer + j] = On(j)
    <3>1. mem[Buffer + j] = On(j)
      BY <1>5, <2>1 DEF IStore, IFetched
    <3>2. Buffer \in Int /\ Total \in Nat
      BY <1>4, <1>5, CallNumbers
    <3>3. Buffer + j \in Cells
      BY <1>4, <1>5, <3>2, BufferNumbers
    <3>4. Buffer + j # op.cell
      BY <1>5, <2>1, <3>2
    <3>5. QED
      BY <3>1, <3>3, <3>4, <1>7
  <2>2. QED
    BY <2>1, <1>2, <1>3 DEF IStore, IFetched
<1>11. ILines'
  BY <1>2, <1>3, <1>8 DEF IStore, ILines
<1>12. CASE mem' = [mem EXCEPT ![op.cell] = secbuf] /\ NextBlock /\ err' = err
  <2>1. \/ state' = "done" /\ K + 1 = ChunkLen
        \/ /\ state' = "rdReq"
           /\ K' = K + 1 /\ K + 1 \in 0..ChunkLen - 1
           /\ op'.left = ChunkLen - (K + 1) /\ op'.cell = Target + (K + 1)
           /\ op'.at = call.at + done + (K + 1)
           /\ op'.disk = op.disk /\ op'.wr = op.wr
    BY <1>1, <1>2, <1>5, <1>12, NextBlockGives DEF Busy, Reading
  <2>2. \A n : n = K + 1 => Moved(n)'
    <3>1. ASSUME NEW j \in 0..K
          PROVE  mem'[Target + j] = On(done + j)
      <4>1. Target + j \in Cells
        BY <1>4, <1>5, ChunkNumbers
      <4>2. CASE j = K
        BY <4>2, <1>5, <1>6, <1>8, <1>12 DEF IStore, ILines
      <4>3. CASE j # K
        <5>1. j \in 0..K - 1 /\ Target + j # op.cell
          BY <4>3, <1>5
        <5>2. mem[Target + j] = On(done + j)
          BY <5>1, <1>5 DEF Moved
        <5>3. QED
          BY <5>1, <5>2, <4>1, <1>7
      <4>4. QED
        BY <4>2, <4>3
    <3>2. ASSUME NEW n, n = K + 1
          PROVE  Moved(n)'
      <4>1. 0..n - 1 = 0..K
        BY <3>2, <1>5
      <4>2. QED
        BY <4>1, <3>1, <1>2, <1>3, <1>5 DEF Moved
    <3>3. QED
      BY <3>2
  <2>3. CASE state' = "done" /\ K + 1 = ChunkLen
    <3>1. Moved(ChunkLen)'
      BY <2>2, <2>3, <1>2
    <3>2. IEngine'
      BY <2>3, <3>1, <1>1, <1>2, <1>3, <1>4, <1>5 DEF IEngine
    <3>3. IBlocks' /\ IServes'
      BY <2>3, <1>1, <1>4 DEF IBlocks, IServes, Busy, Writing, Reading
    <3>4. QED
      BY <3>2, <3>3, <1>1, <1>2, <1>9, <1>10, <1>11 DEF IStore
  <2>4. CASE state' = "rdReq" /\ K' = K + 1
    <3>1. IEngine'
      BY <2>4, <1>1, <1>2, <1>3, <1>4, <1>5 DEF IEngine
    <3>2. Moved(K)'
      BY <2>2, <2>4
    <3>3. IBlocks'
      BY <2>1, <2>4, <3>2, <1>2, <1>3, <1>4, <1>5 DEF IBlocks
    <3>4. IServes'
      BY <2>4, <1>1, <1>4 DEF IServes
    <3>5. QED
      BY <3>1, <3>3, <3>4, <1>1, <1>2, <1>9, <1>10, <1>11 DEF IStore
  <2>5. QED
    BY <2>1, <2>3, <2>4
<1>13. CASE state' = "done" /\ err' = AXI /\ op' = op
  <2>1. IEngine'
    BY <1>1, <1>2, <1>3, <1>4, <1>5, <1>13 DEF IEngine, AXI
  <2>2. IBlocks' /\ IServes'
    BY <1>1, <1>4, <1>13 DEF IBlocks, IServes, Busy, Writing, Reading
  <2>3. QED
    BY <2>1, <2>2, <1>1, <1>2, <1>9, <1>10, <1>11 DEF IStore
<1>14. QED
  BY <1>1, <1>12, <1>13

\* A block that is being written lies on the image.
LEMMA OnImage ==
  ASSUME IImage, state \in Writing
  PROVE  op.at \in Sectors /\ op.disk \in Disks
<1>1. /\ op.disk \in Disks /\ op.at \in Nat
          /\ op.left \in Nat \ {0}
      /\ op.at + op.left <= size[op.disk]
  BY DEF IImage, IWrites
<1>2. size[op.disk] \in Sizes
  BY <1>1 DEF IImage, IHalf
<1>3. PICK i \in Images \cup {NoImage} : size[op.disk] = i.size
  BY <1>2 DEF Sizes
<1>4. i.size \in Nat /\ op.at < i.size
  <2>1. \A a, n, z \in Nat : n # 0 /\ a + n <= z => a < z
    OBVIOUS
  <2>2. size[op.disk] \in Nat
    BY <1>2, SizesNat
  <2>3. op.at < size[op.disk]
    BY <1>1, <2>1, <2>2
  <2>4. QED
    BY <1>3, <2>2, <2>3
<1>5. i \in Images
  BY <1>1, <1>3, <1>4 DEF NoImage
<1>6. op.at \in 0..i.size - 1
  BY <1>1, <1>4
<1>7. QED
  BY <1>1, <1>5, <1>6, ImageAssumption

\* The HPS ends its answer to a read.
LEMMA AckFallReadKeeps ==
  ASSUME Steady, IStore, IImage, UNCHANGED fwVars, AckFall, ~hps.wr
  PROVE  IStore' /\ UNCHANGED disk
<1>1. IEngine /\ IBlocks /\ IServes /\ ICall /\ IAsked /\ IWrites
  BY DEF IStore, IImage
<1>2. /\ hps.st = "acking" /\ hps' = IdleHps
      /\ UNCHANGED <<disk, mem, req, todo, dl, dlSeen, load>>
      /\ UNCHANGED <<strobe, dsDone, dsErr, err>>
      /\ secbuf' = IF state = "rdData" THEN disk[hps.disk][hps.at] ELSE secbuf
  BY DEF AckFall, Block, engineVars, ingestVars, senderVars, loadVars
<1>3. /\ state \in {"rdData", "wrData"} /\ ~op.wr
      /\ hps.disk = op.disk /\ hps.at = op.at
  BY <1>1, <1>2 DEF IServes
<1>4. state = "rdData"
  BY <1>1, <1>3 DEF IWrites, Writing
<1>5. state' = "drain" /\ op' = op
  BY <1>3, <1>4 DEF AckFall
<1>6. /\ ICall' /\ ISent' /\ IFetched' /\ ILines' /\ INoDownload'
      /\ Total' = Total /\ ChunkLen' = ChunkLen /\ Target' = Target
      /\ InCall' = InCall /\ \A j : On(j)' = On(j)
      /\ \A n : Moved(n)' = Moved(n)
  BY <1>2, CallApart, MemoryApart, MovedApart DEF IStore, INoDownload
<1>7. pc' = pc /\ call' = call /\ done' = done
  BY DEF fwVars, callVars
<1>8. K' = K
  BY <1>5, <1>6 DEF K
<1>9. /\ op.disk = call.disk /\ op.at = call.at + done + K /\ K \in Nat
      /\ call.at \in Nat /\ done \in Nat
  BY <1>4, BlockNumbers DEF Busy, Reading
<1>10. secbuf' = On(done + K)
  <2>1. call.at + done + K = call.at + (done + K)
    BY <1>9
  <2>2. QED
    BY <2>1, <1>2, <1>3, <1>4, <1>9 DEF On
<1>11. IEngine'
  BY <1>1, <1>2, <1>4, <1>5, <1>6, <1>7 DEF IEngine
<1>12. IBlocks'
  BY <1>1, <1>4, <1>5, <1>6, <1>7, <1>8, <1>10 DEF IBlocks, Busy, Writing,
     Reading
<1>13. IServes'
  BY <1>2, <1>5 DEF IServes, IdleHps
<1>14. QED
  BY <1>2, <1>6, <1>11, <1>12, <1>13 DEF IStore

\* ... and to a write: the block is on the disk, and the store takes it.
LEMMA AckFallWriteKeeps ==
  ASSUME Steady, IStore, IImage, UNCHANGED fwVars, AckFall, hps.wr
  PROVE  IStore' /\ \E i \in DOMAIN call.data : Store!StoreBlock(i)
<1>1. IEngine /\ IBlocks /\ IServes /\ ICall /\ IAsked /\ IWrites /\ IDisk
  BY DEF IStore, IImage
<1>2. /\ hps.st = "acking" /\ hps' = IdleHps
      /\ UNCHANGED <<mem, req, todo, dl, dlSeen, load, secbuf>>
      /\ UNCHANGED <<strobe, dsDone, dsErr, err>>
      /\ disk' = [disk EXCEPT ![hps.disk][hps.at] =
             IF state \in {"wrReq", "wrData"} THEN secbuf ELSE "torn"]
  BY DEF AckFall, Block, engineVars, ingestVars, senderVars, loadVars
<1>3. /\ state \in {"rdData", "wrData"} /\ op.wr
      /\ hps.disk = op.disk /\ hps.at = op.at
  BY <1>1, <1>2 DEF IServes
<1>4. state = "wrData"
  BY <1>1, <1>3 DEF IWrites, Reading
<1>5. NextBlock
  BY <1>3, <1>4 DEF AckFall
<1>6. /\ InCall /\ pc = "wait" /\ strobe # "none" /\ done < Total
      /\ ChunkLen \in Nat \ {0} /\ done + ChunkLen <= Total
      /\ done \in Nat /\ Target \in Int
      /\ call.at \in Nat /\ call.rd = 0 /\ call.rd \in Nat
      /\ K \in 0..ChunkLen - 1 /\ Moved(K)
      /\ op.disk = call.disk /\ op.at = call.at + done + K
      /\ op.at \in Sectors /\ op.disk \in Disks
  BY <1>3, <1>4, BlockNumbers, OnImage DEF Busy, Writing
<1>7. secbuf = call.data[done + K + 1]
  BY <1>1, <1>4 DEF IBlocks
<1>8. disk' = [disk EXCEPT ![call.disk][call.at + done + K] = secbuf]
  BY <1>2, <1>3, <1>4, <1>6
<1>9. UNCHANGED <<pc, call, way, done, cache, moved, got, result>>
  BY DEF fwVars, callVars
<1>10. disk'[call.disk][call.at + done + K] = secbuf
  BY <1>1, <1>6, <1>8 DEF IDisk
<1>11. ASSUME NEW j \in 0..done + K
       PROVE  On(j)' = call.data[j + 1]
  <2>1. CASE j = done + K
    <3>1. call.at + done + K = call.at + j
      BY <2>1, <1>6
    <3>2. QED
      BY <2>1, <3>1, <1>7, <1>9, <1>10 DEF On
  <2>2. CASE j # done + K
    <3>1. j \in 0..done + K - 1 /\ call.at + j # call.at + done + K
      BY <2>2, <1>6
    <3>2. On(j) = call.data[j + 1]
      BY <3>1, <1>6 DEF Moved
    <3>3. disk'[call.disk][call.at + j] = disk[call.disk][call.at + j]
      BY <3>1, <1>6, <1>8
    <3>4. QED
      BY <3>2, <3>3, <1>9 DEF On
  <2>3. QED
    BY <2>1, <2>2
<1>12. /\ Total' = Total /\ ChunkLen' = ChunkLen /\ Target' = Target
       /\ InCall' = InCall
  BY <1>9 DEF Total, ChunkLen, Target, InCall
<1>13. ICall'
  <2>1. \A j \in 0..done - 1 : On(j)' = call.data[j + 1]
    BY <1>6, <1>11
  <2>2. QED
    BY <2>1, <1>1, <1>9, <1>12 DEF ICall
<1>14. ISent'
  <2>1. \A c : View(c)' = View(c)
    BY <1>2, <1>9 DEF View
  <2>2. QED
    BY <2>1, <1>2, <1>9, <1>12 DEF IStore, ISent
<1>15. IFetched'
  BY <1>6, <1>9, <1>12 DEF IFetched
<1>16. ILines' /\ INoDownload'
  BY <1>2, <1>9, <1>12 DEF IStore, ILines, INoDownload
<1>17. \A n : n = K + 1 => Moved(n)'
  <2>1. SUFFICES ASSUME NEW n, n = K + 1 PROVE Moved(n)'
    OBVIOUS
  <2>2. 0..done + n - 1 = 0..done + K
    BY <2>1, <1>6
  <2>3. ~(call'.rd > 0)
    BY <1>6, <1>9
  <2>4. QED
    BY <2>2, <2>3, <1>9, <1>11 DEF Moved
<1>18. IEngine' /\ IBlocks' /\ IServes'
  <2>1. \/ state' = "done" /\ K + 1 = ChunkLen
        \/ /\ state' = "fill"
           /\ K' = K + 1 /\ K + 1 \in 0..ChunkLen - 1
           /\ op'.left = ChunkLen - (K + 1) /\ op'.cell = Target + (K + 1)
           /\ op'.at = call.at + done + (K + 1)
           /\ op'.disk = op.disk /\ op'.wr = op.wr
    BY <1>3, <1>4, <1>5, <1>12, NextBlockGives DEF Busy, Writing
  <2>2. IServes'
    BY <2>1, <1>2 DEF IServes, IdleHps
  <2>3. CASE state' = "done" /\ K + 1 = ChunkLen
    <3>1. Moved(ChunkLen)'
      BY <2>3, <1>12, <1>17
    <3>2. IEngine'
      BY <2>3, <3>1, <1>1, <1>2, <1>6, <1>9, <1>12 DEF IEngine
    <3>3. IBlocks'
      BY <2>3 DEF IBlocks, Busy, Writing, Reading
    <3>4. QED
      BY <2>2, <3>2, <3>3
  <2>4. CASE state' = "fill" /\ K' = K + 1
    <3>1. IEngine'
      BY <2>4, <1>1, <1>2, <1>6, <1>9, <1>12 DEF IEngine
    <3>2. Moved(K)'
      BY <2>4, <1>17
    <3>3. IBlocks'
      BY <2>1, <2>4, <3>2, <1>1, <1>3, <1>6, <1>9, <1>12 DEF IBlocks
    <3>4. QED
      BY <2>2, <3>1, <3>3
  <2>5. QED
    BY <2>1, <2>3, <2>4
<1>19. \E i \in DOMAIN call.data : Store!StoreBlock(i)
  <2>1. /\ call.data \in Seq(STRING) /\ Total = Len(call.data)
        /\ Total \in Nat
    BY <1>1, <1>6, CallNumbers DEF ICall
  <2>2. /\ done + K + 1 \in DOMAIN call.data
        /\ call.at + (done + K + 1) - 1 = call.at + done + K
    BY <2>1, <1>6
  <2>3. Store!StoreBlock(done + K + 1)
    BY <2>2, <1>7, <1>8, <1>9 DEF Store!StoreBlock, Store!Sector
  <2>4. QED
    BY <2>2, <2>3
<1>20. QED
  BY <1>13, <1>14, <1>15, <1>16, <1>18, <1>19 DEF IStore

\* An image changes, or the clock switch goes on: with a restart or without.
LEMMA RestartKeeps ==
  ASSUME Steady, IStore, IImage, IIngest, Alongside, Mount \/ SetPause
  PROVE  IStore' /\ [Store!Next]_Store!storeVars
<1>1. IEngine /\ IBlocks /\ IServes /\ ICall /\ IAsked /\ IWrites
  BY DEF IStore, IImage
<1>2. /\ UNCHANGED <<disk, mem, todo, dl, dlSeen, load, hps>>
      /\ UNCHANGED <<state, op, secbuf, err>> /\ Registers
  BY DEF Mount, SetPause, fsmVars, ingestVars, senderVars, loadVars
<1>3. INoDownload'
  BY <1>2 DEF IStore, INoDownload
<1>4. CASE ~Restarts
  <2>1. UNCHANGED fwVars /\ UNCHANGED <<strobe, req, dsDone, dsErr>>
    BY <1>2, <1>4 DEF Alongside, Registers, engineVars
  <2>2. /\ ICall' /\ ISent' /\ IFetched' /\ ILines'
        /\ Total' = Total /\ ChunkLen' = ChunkLen /\ Target' = Target
        /\ InCall' = InCall /\ \A j : On(j)' = On(j)
        /\ \A n : Moved(n)' = Moved(n)
    BY <2>1, <1>2, CallApart, MemoryApart, MovedApart
  <2>3. UNCHANGED <<pc, call, way, done, got, result>>
    BY <2>1 DEF fwVars, callVars
  <2>4. K' = K
    BY <2>2, <1>2 DEF K
  <2>5. IEngine' /\ IBlocks' /\ IServes'
    BY <2>1, <2>2, <2>3, <2>4, <1>1, <1>2 DEF IEngine, IBlocks, IServes
  <2>6. UNCHANGED Store!storeVars
    BY <2>3, <1>2 DEF Store!storeVars
  <2>7. QED
    BY <2>2, <2>5, <2>6, <1>3 DEF IStore
<1>5. CASE Restarts
  <2>1. /\ pc' = "app" /\ call' = Nothing /\ way' = way
        /\ result' = IF call = Nothing THEN result ELSE "error"
        /\ cache' = [c \in Cells |-> NoLine] /\ got' = got
        /\ strobe' = "none"
    BY <1>2, <1>5 DEF Alongside, CoreReset, Registers
  <2>2. state = "idle"
    <3>1. state # "boot"
      BY NoDownload
    <3>2. CASE Mount
      BY <3>1, <3>2 DEF Mount, Steady
    <3>3. CASE SetPause
      BY <3>3, <1>5 DEF SetPause, PauseQuiet, Restarts, imageVars
    <3>4. QED
      BY <3>2, <3>3
  <2>3. ~InCall'
    BY <2>1 DEF InCall
  <2>4. ICall'
    BY <2>1, <2>3, <1>1 DEF ICall
  <2>5. IEngine' /\ IBlocks' /\ IServes'
    BY <2>1, <2>2, <1>1, <1>2 DEF IEngine, IBlocks, IServes, Busy, Writing,
       Reading
  <2>6. ISent' /\ IFetched'
    BY <2>3 DEF ISent, IFetched
  <2>7. ILines'
    <3>1. \A c : c \in Cells => cache'[c].st # "dirty"
      BY <2>1 DEF NoLine
    <3>2. \A j \in 0..Chunk - 1 : Scratch + j \in Cells
      BY BufferAssumption, CallAssumption
    <3>3. QED
      BY <2>1, <2>3, <3>1, <3>2, <1>2 DEF IStore, ILines
  <2>8. [Store!Next]_Store!storeVars
    <3>1. CASE call = Nothing
      BY <3>1, <2>1, <1>2 DEF Store!storeVars
    <3>2. CASE call # Nothing
      BY <3>2, <2>1, <1>2 DEF Store!Next, Store!Fail, Store!Nothing, Nothing
    <3>3. QED
      BY <3>1, <3>2
  <2>9. QED
    BY <2>4, <2>5, <2>6, <2>7, <2>8, <1>3 DEF IStore
<1>6. QED
  BY <1>4, <1>5

\* Only they restart the core.
LEMMA RestartsSeldom ==
  ASSUME Steady, IStore, IIngest, Bridge, ~Mount, ~SetPause
  PROVE  ~Restarts
<1>1. ~Ingest /\ ~Sender /\ ~DlStart
  BY NoDownload
<1>2. Engine \/ Watchdog \/ Pick \/ AckRise \/ AckFall
  BY <1>1 DEF Bridge
<1>3. UNCHANGED <<size, loaded, pause>>
  <2>1. CASE Engine
    BY <2>1 DEF Engine, Dispatch, Fill, Drain, Capture, Release, imageVars,
       ingestVars
  <2>2. CASE Watchdog \/ Pick \/ AckRise \/ AckFall
    BY <2>2 DEF Watchdog, Pick, AckRise, AckFall, imageVars, ingestVars
  <2>3. QED
    BY <1>2, <2>1, <2>2
<1>4. QED
  BY <1>3 DEF Restarts

LEMMA BridgeKeeps ==
  ASSUME Steady, IStore, IImage, IIngest, BridgeStep
  PROVE  IStore' /\ [Store!Next]_Store!storeVars
<1>1. Bridge /\ Alongside
  BY DEF BridgeStep
<1>2. CASE Mount \/ SetPause
  BY <1>1, <1>2, RestartKeeps
<1>3. CASE ~Mount /\ ~SetPause
  <2>1. UNCHANGED fwVars
    BY <1>1, <1>3, RestartsSeldom DEF Alongside
  <2>2. UNCHANGED <<call, got, result>>
    BY <2>1 DEF fwVars, callVars
  <2>3. CASE AckFall /\ hps.wr
    BY <2>1, <2>3, AckFallWriteKeeps DEF Store!Next
  <2>4. CASE ~(AckFall /\ hps.wr)
    <3>1. IStore' /\ UNCHANGED disk
      BY <1>1, <1>3, <2>1, <2>4, NoDownload, EngineKeeps, HpsKeeps, FillKeeps,
         DrainKeeps, AckFallReadKeeps DEF Bridge, Engine
    <3>2. QED
      BY <2>2, <3>1 DEF Store!storeVars
  <2>5. QED
    BY <2>3, <2>4
<1>4. QED
  BY <1>2, <1>3

-----------------------------------------------------------------------------
\* The firmware's steps.

\* The steps of the firmware that do not touch the bridge's side of a call.
LEMMA BridgeApart ==
  ASSUME IStore, UNCHANGED <<hps, fsmVars, todo, dl, dlSeen, load>>,
         pc # "wait", UNCHANGED strobe, pc' # "wait"
  PROVE  IEngine' /\ IBlocks' /\ IServes' /\ INoDownload'
<1>1. /\ strobe = "none" /\ state \in {"idle", "done"}
      /\ UNCHANGED <<state, op, hps>>
  BY DEF IStore, IEngine, fsmVars
<1>2. QED
  BY <1>1 DEF IStore, IEngine, IBlocks, IServes, INoDownload, Busy, Writing,
     Reading

\* A call returns: what it was about is forgotten.
LEMMA ReturnKeeps ==
  ASSUME IStore, UNCHANGED <<hps, fsmVars, todo, dl, dlSeen, load>>,
         UNCHANGED <<mem, cache, way, strobe>>,
         state \in {"idle", "done"}, strobe = "none",
         pc' = "app", call' = Nothing
  PROVE  IStore'
<1>1. ~InCall'
  BY DEF InCall
<1>2. IEngine' /\ IBlocks' /\ IServes' /\ INoDownload'
  BY DEF IStore, IEngine, IBlocks, IServes, INoDownload, Busy, Writing, Reading,
     fsmVars
<1>3. ICall'
  BY <1>1 DEF IStore, ICall
<1>4. ISent' /\ IFetched' /\ ILines'
  BY <1>1 DEF IStore, ISent, IFetched, ILines
<1>5. QED
  BY <1>2, <1>3, <1>4 DEF IStore

\* What the call finds when it waits for a command that has ended.
LEMMA Ended ==
  ASSUME IStore, pc = "wait", dsDone
  PROVE  /\ strobe = "none" /\ state \in {"idle", "done"}
         /\ dsErr = 0 => Moved(ChunkLen)
BY DEF IStore, IEngine

LEMMA FailedKeeps ==
  ASSUME Steady, IStore, Failed
  PROVE  IStore' /\ [Store!Next]_Store!storeVars
<1>1. /\ pc = "wait" /\ strobe = "none" /\ state \in {"idle", "done"}
      /\ UNCHANGED <<hps, fsmVars, todo, dl, dlSeen, load, mem, cache, way>>
      /\ UNCHANGED <<strobe, disk, got>>
  BY Ended DEF Failed, bridgeVars, engineVars, ingestVars, senderVars, loadVars
<1>2. CASE Repeats
  <2>1. pc' = "gate" /\ UNCHANGED <<call, done, moved, result>>
    BY <1>2 DEF Failed
  <2>2. /\ Total' = Total /\ ChunkLen' = ChunkLen /\ Target' = Target
        /\ InCall' = InCall /\ \A j : On(j)' = On(j) /\ View(j)' = View(j)
    BY <2>1, <1>1 DEF Total, ChunkLen, Target, InCall, On, View
  <2>3. ICall'
    BY <2>1, <2>2, <1>1 DEF IStore, ICall
  <2>4. IEngine' /\ IBlocks' /\ IServes' /\ INoDownload'
    BY <2>1, <1>1 DEF IStore, IEngine, IBlocks, IServes, INoDownload, Busy,
       Writing, Reading, fsmVars
  <2>5. ISent' /\ IFetched' /\ ILines'
    BY <2>1, <2>2, <1>1 DEF IStore, ISent, IFetched, ILines
  <2>6. QED
    BY <2>1, <2>3, <2>4, <2>5, <1>1 DEF IStore, Store!storeVars
<1>3. CASE ~Repeats
  <2>1. pc' = "app" /\ call' = Nothing /\ result' = "error"
    BY <1>3 DEF Failed, Return
  <2>2. IStore'
    BY <2>1, <1>1, ReturnKeeps
  <2>3. Store!Fail
    BY <2>1, <1>1 DEF Store!Fail, Store!Nothing, Nothing
  <2>4. QED
    BY <2>2, <2>3 DEF Store!Next
<1>4. QED
  BY <1>2, <1>3

\* The processor gives up before a command, never in one.
LEMMA CpuTimeoutKeeps ==
  ASSUME Steady, IStore, CpuTimeout
  PROVE  IStore' /\ [Store!Next]_Store!storeVars
<1>1. /\ UNCHANGED <<hps, fsmVars, todo, dl, dlSeen, load, mem, cache, way>>
      /\ UNCHANGED <<strobe, disk, got>>
      /\ pc' = "app" /\ call' = Nothing /\ result' = "error" /\ pc # "wait"
  BY DEF CpuTimeout, Return, Steady, bridgeVars, engineVars, ingestVars,
     senderVars, loadVars
<1>2. strobe = "none" /\ state \in {"idle", "done"}
  BY <1>1 DEF IStore, IEngine
<1>3. IStore'
  BY <1>1, <1>2, ReturnKeeps
<1>4. Store!Fail
  BY <1>1 DEF Store!Fail, Store!Nothing, Nothing
<1>5. QED
  BY <1>3, <1>4 DEF Store!Next

\* What a successful call returns is what the store would have returned.
LEMMA FinishKeeps ==
  ASSUME Steady, IStore, Finish
  PROVE  IStore' /\ [Store!Next]_Store!storeVars
<1>1. /\ UNCHANGED <<hps, fsmVars, todo, dl, dlSeen, load, mem, cache, way>>
      /\ UNCHANGED <<strobe, disk>>
      /\ pc = "ret" /\ pc' = "app" /\ call' = Nothing /\ result' = "ok"
      /\ got' = IF call.rd > 0 THEN Found ELSE got
  BY DEF Finish, Return, bridgeVars, engineVars, ingestVars, senderVars,
     loadVars
<1>2. strobe = "none" /\ state \in {"idle", "done"}
  BY <1>1 DEF IStore, IEngine
<1>3. IStore'
  BY <1>1, <1>2, ReturnKeeps
<1>4. /\ ICall /\ InCall /\ done = Total /\ Total \in Nat \ {0}
      /\ Buffer \in Int /\ call.at \in Nat /\ call.rd \in Nat
      /\ call.rd > 0 => Total = call.rd /\ call.data = <<>>
      /\ call.rd = 0 => Total = Len(call.data) /\ call.data \in Seq(STRING)
      /\ way \in {"cached", "uncached", "bounce"}
  BY <1>1, CallNumbers DEF IStore, ICall, InCall
<1>5. call # Nothing
  BY <1>4 DEF Nothing
<1>6. \A i \in DOMAIN call.data :
        disk[call.disk][Store!Sector(i)] = call.data[i]
  <2>1. SUFFICES ASSUME NEW i \in DOMAIN call.data
                 PROVE  disk[call.disk][Store!Sector(i)] = call.data[i]
    OBVIOUS
  <2>2. CASE call.rd > 0
    BY <1>4, <2>2
  <2>3. CASE call.rd = 0
    <3>1. i \in 1..Total
      BY <1>4, <2>3
    <3>2. /\ i - 1 \in 0..done - 1 /\ (i - 1) + 1 = i
          /\ call.at + (i - 1) = call.at + i - 1
      BY <3>1, <1>4
    <3>3. On(i - 1) = call.data[(i - 1) + 1]
      BY <3>2, <2>3, <1>4 DEF ICall
    <3>4. QED
      BY <3>2, <3>3 DEF On, Store!Sector
  <2>4. QED
    BY <2>2, <2>3, <1>4
<1>7. call.rd > 0 =>
        Found = [i \in 1..call.rd |-> disk[call.disk][Store!Sector(i)]]
  <2>1. SUFFICES ASSUME call.rd > 0
        PROVE Found = [i \in 1..call.rd |-> disk[call.disk][Store!Sector(i)]]
    OBVIOUS
  <2>2. ASSUME NEW i \in 1..call.rd
        PROVE  /\ i - 1 \in 0..done - 1 /\ Buffer + (i - 1) = Buffer + i - 1
               /\ On(i - 1) = disk[call.disk][Store!Sector(i)]
    <3>1. /\ i - 1 \in 0..done - 1 /\ Buffer + (i - 1) = Buffer + i - 1
          /\ call.at + (i - 1) = call.at + i - 1
      BY <2>1, <1>4
    <3>2. QED
      BY <3>1 DEF On, Store!Sector
  <2>3. CASE way = "cached"
    <3>1. ASSUME NEW i \in 1..call.rd
          PROVE  View(Buffer + i - 1) = disk[call.disk][Store!Sector(i)]
      <4>1. /\ mem[Buffer + (i - 1)] = On(i - 1)
            /\ cache[Buffer + (i - 1)].st = "none"
        BY <2>1, <2>2, <2>3, <1>4 DEF IStore, IFetched
      <4>2. QED
        BY <4>1, <2>2 DEF View
    <3>2. QED
      BY <2>3, <3>1 DEF Found
  <2>4. CASE way = "uncached"
    <3>1. ASSUME NEW i \in 1..call.rd
          PROVE  mem[Buffer + i - 1] = disk[call.disk][Store!Sector(i)]
      <4>1. mem[Buffer + (i - 1)] = On(i - 1)
        BY <2>1, <2>2, <2>4, <1>4 DEF IStore, IFetched
      <4>2. QED
        BY <4>1, <2>2
    <3>2. QED
      BY <2>4, <3>1 DEF Found
  <2>5. CASE way = "bounce"
    <3>1. moved = [i \in 1..done |-> On(i - 1)]
      BY <2>1, <2>5, <1>4 DEF IStore, IFetched
    <3>2. QED
      BY <2>1, <2>2, <2>5, <3>1, <1>4 DEF Found
  <2>6. QED
    BY <2>3, <2>4, <2>5, <1>4
<1>8. Store!Succeed
  <2>1. got' = IF call.rd = 0 THEN got
               ELSE [i \in 1..call.rd |-> disk[call.disk][Store!Sector(i)]]
    BY <1>1, <1>4, <1>7
  <2>2. QED
    BY <2>1, <1>1, <1>5, <1>6 DEF Store!Succeed, Store!Nothing, Nothing
<1>9. QED
  BY <1>3, <1>8 DEF Store!Next

\* What stays of a call when only its place and the memory change.
LEMMA SameCall ==
  ASSUME IStore, InCall, InCall', UNCHANGED <<call, way, done, disk>>,
                                              pc' # "ret"
  PROVE  /\ ICall'
         /\ Total' = Total /\ ChunkLen' = ChunkLen /\ Target' = Target
         /\ \A j : On(j)' = On(j)
<1>1. /\ Total' = Total /\ \A j : On(j)' = On(j)
  BY DEF Total, On
<1>2. ChunkLen' = ChunkLen /\ Target' = Target
  BY <1>1 DEF ChunkLen, Target
<1>3. ICall'
  BY <1>1 DEF IStore, ICall
<1>4. QED
  BY <1>1, <1>2, <1>3

\* Before a command: what it sends is in memory, nothing lies over what it
\* fetches.
LEMMA StartChunkKeeps ==
  ASSUME Steady, IStore, IImage, StartChunk
  PROVE  IStore' /\ [Store!Next]_Store!storeVars
<1> USE DEF InCall
<1>1. /\ pc = "chunk" /\ pc' = "gate"
      /\ UNCHANGED <<hps, fsmVars, todo, dl, dlSeen, load, disk, strobe>>
      /\ UNCHANGED <<call, way, done, moved, got, result>>
  BY DEF StartChunk, callVars, engineVars, ingestVars, senderVars, loadVars
<1>2. /\ ICall' /\ Total' = Total /\ ChunkLen' = ChunkLen /\ Target' = Target
      /\ \A j : On(j)' = On(j)
  BY <1>1, SameCall
<1>3. IEngine' /\ IBlocks' /\ IServes' /\ INoDownload'
  BY <1>1, BridgeApart
<1>4. [Store!Next]_Store!storeVars
  BY <1>1 DEF Store!storeVars
<1>5. /\ ICall /\ ISent /\ IFetched /\ ILines
      /\ way \in {"cached", "uncached", "bounce"}
      /\ DOMAIN mem = Cells /\ DOMAIN cache = Cells
  BY DEF IStore, ICall, ILines
<1>6. /\ done < Total /\ Total \in Nat /\ done \in Nat /\ call.rd \in Nat
      /\ Buffer \in Int /\ Scratch \in Int /\ Chunk \in Nat
      /\ Buffer + Total <= Scratch
  BY <1>1, <1>5, CallNumbers DEF IImage, IAsked
<1>7. /\ ChunkLen \in Nat \ {0} /\ ChunkLen <= Chunk
      /\ done + ChunkLen <= Total /\ Target \in Int
      /\ way = "bounce" => Target = Scratch
      /\ way # "bounce" => Target = Buffer + done
      /\ \A j \in 0..ChunkLen - 1 : Target + j \in Cells
      /\ ChunkCells = {Target + j : j \in 0..ChunkLen - 1}
  BY <1>1, <1>5, <1>6, ChunkNumbers
<1>8. \A j \in 0..ChunkLen - 1 : Target + j \in ChunkCells
  BY <1>7
<1>9. \A j \in 0..Total - 1 : Buffer + j \in Cells
  BY <1>1, <1>5, BufferNumbers
<1>10. \A j \in 0..Chunk - 1 : Scratch + j \in Cells
  BY <1>6, BufferAssumption
<1>11. CASE call.rd > 0 /\ way = "cached"
  <2>1. mem' = mem
        /\ cache' = [c \in Cells |-> IF c \in ChunkCells THEN NoLine
                                     ELSE cache[c]]
    BY <1>1, <1>11 DEF StartChunk, Inval, With
  <2>2. \A c \in Cells : cache'[c] \in {NoLine, cache[c]}
    BY <2>1
  <2>3. ILines'
    <3>1. \A j \in 0..Chunk - 1 : cache'[Scratch + j].st # "dirty"
      BY <2>2, <1>5, <1>10 DEF ILines, NoLine
    <3>2. \A j \in 0..ChunkLen - 1 : cache'[Target + j].st # "dirty"
      BY <2>1, <1>7, <1>8 DEF NoLine
    <3>3. QED
      BY <2>1, <3>1, <3>2, <1>1, <1>2, <1>5, <1>11 DEF ILines
  <2>4. IFetched'
    <3>1. \A j \in 0..done - 1 : cache'[Buffer + j].st = "none"
      <4>1. ASSUME NEW j \in 0..done - 1
            PROVE  cache'[Buffer + j].st = "none"
        <5>1. Buffer + j \in Cells /\ cache[Buffer + j].st = "none"
          BY <1>1, <1>5, <1>6, <1>9, <1>11 DEF IFetched
        <5>2. QED
          BY <5>1, <2>2 DEF NoLine
      <4>2. QED
        BY <4>1
    <3>2. QED
      BY <2>1, <3>1, <1>1, <1>2, <1>5, <1>11 DEF IFetched
  <2>5. ISent'
    BY <1>1, <1>11 DEF ISent
  <2>6. QED
    BY <2>3, <2>4, <2>5, <1>2, <1>3, <1>4 DEF IStore
<1>12. CASE call.rd = 0 /\ way = "cached"
  <2>1. /\ mem' = [c \in Cells |-> IF c \in ChunkCells THEN View(c) ELSE mem[c]]
        /\ cache' = [c \in Cells |-> IF c \in ChunkCells
                                     THEN IF cache[c].st = "dirty"
                                          THEN Clean(View(c)) ELSE cache[c]
                                     ELSE cache[c]]
    BY <1>1, <1>12 DEF StartChunk, CleanRange, With
  <2>2. \A c \in Cells : View(c)' = View(c)
    BY <2>1 DEF View, Clean
  <2>3. \A c \in Cells : cache'[c].st = "dirty" =>
            cache[c].st = "dirty" /\ c \notin ChunkCells
    BY <2>1 DEF Clean
  <2>4. ILines'
    <3>1. \A j \in 0..Chunk - 1 : cache'[Scratch + j].st # "dirty"
      BY <2>3, <1>5, <1>10 DEF ILines
    <3>2. \A j \in 0..ChunkLen - 1 : cache'[Target + j].st # "dirty"
      BY <2>3, <1>7, <1>8
    <3>3. QED
      BY <2>1, <3>1, <3>2, <1>1, <1>2, <1>5, <1>12 DEF ILines
  <2>5. ISent'
    <3>1. \A j \in 0..Total - 1 : View(Buffer + j) = call.data[j + 1]
      BY <1>1, <1>5, <1>12 DEF ISent
    <3>2. ASSUME NEW j \in 0..ChunkLen - 1
          PROVE  mem'[Target + j] = call.data[done + j + 1]
      <4>1. /\ Target + j = Buffer + (done + j) /\ done + j \in 0..Total - 1
            /\ (done + j) + 1 = done + j + 1
        BY <1>6, <1>7, <1>12
      <4>2. mem'[Target + j] = View(Target + j)
        BY <2>1, <1>7, <1>8
      <4>3. QED
        BY <3>1, <4>1, <4>2
    <3>3. \A j \in 0..Total - 1 : View(Buffer + j)' = call.data[j + 1]
      BY <2>2, <3>1, <1>9, <1>1
    <3>4. QED
      BY <3>2, <3>3, <1>1, <1>2, <1>12 DEF ISent
  <2>6. IFetched'
    BY <1>1, <1>12 DEF IFetched
  <2>7. QED
    BY <2>4, <2>5, <2>6, <1>2, <1>3, <1>4 DEF IStore
<1>13. CASE call.rd = 0 /\ way = "bounce"
  <2> DEFINE val(c) == call.data[done + c - Scratch + 1]
  <2>1. /\ mem' = [c \in Cells |-> IF c \in ChunkCells THEN val(c) ELSE mem[c]]
        /\ cache' = [c \in Cells |-> IF c \in ChunkCells
                                     THEN Clean(val(c)) ELSE cache[c]]
    BY <1>1, <1>13 DEF StartChunk, With
  <2> HIDE DEF val
  <2>2. \A c \in Cells : cache'[c].st = "dirty" =>
            cache[c].st = "dirty" /\ c \notin ChunkCells
    BY <2>1 DEF Clean
  <2>3. ILines'
    <3>1. \A j \in 0..Chunk - 1 : cache'[Scratch + j].st # "dirty"
      BY <2>2, <1>5, <1>10 DEF ILines
    <3>2. \A j \in 0..ChunkLen - 1 : cache'[Target + j].st # "dirty"
      BY <2>2, <1>7, <1>8
    <3>3. QED
      BY <2>1, <3>1, <3>2, <1>1, <1>2, <1>5, <1>13 DEF ILines
  <2>4. ASSUME NEW j \in 0..ChunkLen - 1
        PROVE  mem'[Target + j] = call.data[done + j + 1]
    <3>1. mem'[Target + j] = val(Target + j) /\ Target = Scratch
      BY <2>1, <1>7, <1>8, <1>13
    <3>2. done + (Scratch + j) - Scratch + 1 = done + j + 1
      BY <1>6, <1>7
    <3>3. QED
      BY <3>1, <3>2 DEF val
  <2>5. ISent'
    BY <2>4, <1>1, <1>2, <1>13 DEF ISent
  <2>6. IFetched'
    BY <1>1, <1>13 DEF IFetched
  <2>7. QED
    BY <2>3, <2>5, <2>6, <1>2, <1>3, <1>4 DEF IStore
<1>14. CASE way = "uncached" \/ (call.rd > 0 /\ way = "bounce")
  <2>1. UNCHANGED <<mem, cache>>
    BY <1>1, <1>6, <1>14 DEF StartChunk
  <2>2. ILines'
    <3>1. \A j \in 0..ChunkLen - 1 : cache[Target + j].st # "dirty"
      <4>1. CASE way = "uncached"
        <5>1. ASSUME NEW j \in 0..ChunkLen - 1
              PROVE  /\ Target + j = Buffer + (done + j)
                      /\ done + j \in 0..Total - 1
          BY <1>6, <1>7, <4>1
        <5>2. QED
          BY <5>1, <4>1, <1>1, <1>5 DEF ILines
      <4>2. CASE way = "bounce"
        <5>1. ASSUME NEW j \in 0..ChunkLen - 1
              PROVE  Target + j = Scratch + j /\ j \in 0..Chunk - 1
          BY <1>6, <1>7, <4>2
        <5>2. QED
          BY <5>1, <4>2, <1>1, <1>5 DEF ILines
      <4>3. QED
        BY <4>1, <4>2, <1>14
    <3>2. QED
      BY <2>1, <3>1, <1>1, <1>2, <1>5 DEF ILines
  <2>3. IFetched'
    BY <2>1, <1>1, <1>2, <1>5 DEF IFetched
  <2>4. ISent'
    <3>1. ASSUME call.rd = 0, NEW j \in 0..ChunkLen - 1
          PROVE  mem[Target + j] = call.data[done + j + 1]
      <4>1. way = "uncached"
        BY <3>1, <1>14
      <4>2. /\ Target + j = Buffer + (done + j) /\ done + j \in 0..Total - 1
            /\ (done + j) + 1 = done + j + 1
        BY <4>1, <1>6, <1>7
      <4>3. mem[Buffer + (done + j)] = call.data[(done + j) + 1]
        BY <3>1, <4>1, <4>2, <1>1, <1>5 DEF ISent
      <4>4. QED
        BY <4>2, <4>3
    <3>2. QED
      BY <2>1, <3>1, <1>1, <1>2, <1>5, <1>14 DEF ISent
  <2>5. QED
    BY <2>2, <2>3, <2>4, <1>2, <1>3, <1>4 DEF IStore
<1>15. QED
  BY <1>5, <1>6, <1>11, <1>12, <1>13, <1>14

\* The command itself; the engine has done with the last one.
LEMMA CommandKeeps ==
  ASSUME Steady, IStore, IImage, Command
  PROVE  IStore' /\ [Store!Next]_Store!storeVars
<1> USE DEF InCall
<1>1. /\ pc = "gate" /\ pc' = "wait" /\ Gate
      /\ UNCHANGED <<hps, fsmVars, todo, dl, dlSeen, load, disk, mem, cache>>
      /\ UNCHANGED <<call, way, done, moved, got, result>>
      /\ req' = [disk |-> call.disk, at |-> (call.at + done) % Addressable,
                 cell |-> Target, n |-> ChunkLen]
      /\ strobe' = IF call.rd > 0 THEN "read" ELSE "write"
      /\ dsDone' = FALSE /\ dsErr' = 0
  BY DEF Command, callVars, engineVars, ingestVars, senderVars, loadVars
<1>2. /\ ICall' /\ Total' = Total /\ ChunkLen' = ChunkLen /\ Target' = Target
      /\ \A j : On(j)' = On(j)
  BY <1>1, SameCall
<1>3. state = "idle" /\ UNCHANGED <<state, op>>
  BY <1>1 DEF Gate, Ready, AckUp, IStore, IEngine, fsmVars
<1>4. (call.at + done) % Addressable = call.at + done
  <2>1. /\ call.at \in Nat /\ done \in Nat /\ done < Total /\ Total \in Nat
        /\ call.at + Total <= Addressable /\ Addressable \in Nat \ {0}
    BY <1>1, CallNumbers, CallAssumption DEF IStore, IImage, IAsked
  <2>2. call.at + done \in 0..Addressable - 1
    BY <2>1
  <2>3. QED
    BY <2>1, <2>2
<1>5. IEngine'
  BY <1>1, <1>2, <1>3, <1>4 DEF IEngine
<1>6. IBlocks' /\ IServes' /\ INoDownload'
  BY <1>1, <1>3 DEF IStore, IBlocks, IServes, INoDownload, Busy, Writing,
     Reading
<1>7. ISent' /\ IFetched' /\ ILines'
  BY <1>1, <1>2 DEF IStore, ISent, IFetched, ILines, View
<1>8. QED
  BY <1>1, <1>2, <1>5, <1>6, <1>7 DEF IStore, Store!storeVars

\* After a command: its blocks join those before, seen past every stale line.
LEMMA LandedKeeps ==
  ASSUME Steady, IStore, IImage, Landed
  PROVE  IStore' /\ [Store!Next]_Store!storeVars
<1> USE DEF InCall
<1>1. /\ pc = "wait" /\ dsDone /\ dsErr = 0
      /\ UNCHANGED <<hps, fsmVars, todo, dl, dlSeen, load, disk, strobe>>
      /\ UNCHANGED <<call, way, got, result>>
      /\ done' = done + ChunkLen
      /\ pc' = IF done' = Total THEN "ret" ELSE "chunk"
      /\ mem' = mem
  BY DEF Landed, Inval, callVars, engineVars, ingestVars, senderVars, loadVars
<1>2. strobe = "none" /\ state \in {"idle", "done"} /\ Moved(ChunkLen)
  BY <1>1, Ended
<1>3. /\ ICall /\ ISent /\ IFetched /\ ILines
      /\ way \in {"cached", "uncached", "bounce"}
      /\ DOMAIN mem = Cells /\ DOMAIN cache = Cells
  BY DEF IStore, ICall, ILines
<1>4. /\ done < Total /\ Total \in Nat /\ done \in Nat /\ call.rd \in Nat
      /\ Buffer \in Int /\ Scratch \in Int /\ Chunk \in Nat
      /\ Buffer + Total <= Scratch
  BY <1>1, <1>3, CallNumbers DEF IImage, IAsked
<1>5. /\ ChunkLen \in Nat \ {0} /\ ChunkLen <= Chunk
      /\ done + ChunkLen <= Total /\ Target \in Int
      /\ way = "bounce" => Target = Scratch
      /\ way # "bounce" => Target = Buffer + done
      /\ \A j \in 0..ChunkLen - 1 : Target + j \in Cells
      /\ ChunkCells = {Target + j : j \in 0..ChunkLen - 1}
  BY <1>1, <1>3, <1>4, ChunkNumbers
<1>6. \A j \in 0..ChunkLen - 1 : Target + j \in ChunkCells
  BY <1>5
<1>7. \A j \in 0..Total - 1 : Buffer + j \in Cells
  BY <1>1, <1>3, BufferNumbers
<1>8. \A j \in 0..Chunk - 1 : Scratch + j \in Cells
  BY <1>4, BufferAssumption
<1>9. Total' = Total /\ \A j : On(j)' = On(j)
  BY <1>1 DEF Total, On
<1>10. done' \in 0..Total /\ InCall' /\ pc' \notin {"gate", "wait"}
  BY <1>1, <1>4, <1>5
\* The blocks done then are those done before and the command's.
<1>11. \A j \in 0..done' - 1 : j \in 0..done + ChunkLen - 1
  <2>1. \A m : m = done + ChunkLen =>
            \A j \in 0..m - 1 : j \in 0..done + ChunkLen - 1
    BY <1>4, <1>5
  <2>2. QED
    BY <2>1, <1>1
<1>12. CASE call.rd > 0 /\ way # "uncached"
  <2>1. cache' = [c \in Cells |-> IF c \in ChunkCells THEN NoLine ELSE cache[c]]
    BY <1>1, <1>12 DEF Landed, Inval, With
  <2>2. ILines'
    <3>1. \A j \in 0..Chunk - 1 : cache'[Scratch + j].st # "dirty"
      BY <2>1, <1>3, <1>8 DEF ILines, NoLine
    <3>2. QED
      BY <2>1, <3>1, <1>1, <1>3, <1>9, <1>10, <1>12 DEF ILines
  <2>3. ICall'
    BY <1>1, <1>3, <1>9, <1>10, <1>12 DEF ICall
  <2>4. ISent'
    BY <1>1, <1>12 DEF ISent
  <2>5. ASSUME NEW j \in done..done + ChunkLen - 1
        PROVE  /\ mem[Target + (j - done)] = On(j)
               /\ j - done \in 0..ChunkLen - 1
    <3>1. j - done \in 0..ChunkLen - 1 /\ done + (j - done) = j
      BY <1>4, <1>5
    <3>2. QED
      BY <3>1, <1>2, <1>12 DEF Moved
  <2>6. ASSUME way = "cached", NEW j \in 0..done + ChunkLen - 1
        PROVE  mem[Buffer + j] = On(j) /\ cache'[Buffer + j].st = "none"
    <3>1. Buffer + j \in Cells
      BY <1>4, <1>5, <1>7
    <3>2. CASE j < done
      <4>1. j \in 0..done - 1
        BY <3>2, <1>4, <1>5
      <4>2. mem[Buffer + j] = On(j) /\ cache[Buffer + j].st = "none"
        BY <4>1, <2>6, <1>1, <1>3, <1>12 DEF IFetched
      <4>3. QED
        BY <4>2, <3>1, <2>1 DEF NoLine
    <3>3. CASE ~(j < done)
      <4>1. /\ j \in done..done + ChunkLen - 1
            /\ Target + (j - done) = Buffer + j
        BY <3>3, <2>6, <1>4, <1>5
      <4>2. Buffer + j \in ChunkCells
        BY <4>1, <2>5, <1>6
      <4>3. QED
        BY <4>1, <4>2, <3>1, <2>1, <2>5 DEF NoLine
    <3>4. QED
      BY <3>2, <3>3
  <2>7. ASSUME way = "bounce"
        PROVE  moved' = [i \in 1..done + ChunkLen |-> On(i - 1)]
    <3> DEFINE V == {On(j) : j \in Int}
               new == [i \in 1..ChunkLen |-> On(done + i - 1)]
    <3>1. moved' = moved \o [i \in 1..ChunkLen |-> View(Scratch + i - 1)']
      BY <2>7, <1>12 DEF Landed
    <3>2. ASSUME NEW i \in 1..ChunkLen
          PROVE  View(Scratch + i - 1)' = On(done + i - 1)
      <4>1. /\ i - 1 \in 0..ChunkLen - 1 /\ Scratch + i - 1 = Target + (i - 1)
            /\ done + (i - 1) = done + i - 1
        BY <2>7, <1>4, <1>5
      <4>2. /\ Scratch + i - 1 \in Cells /\ Scratch + i - 1 \in ChunkCells
            /\ mem[Scratch + i - 1] = On(done + i - 1)
        BY <4>1, <1>2, <1>5, <1>6, <1>12 DEF Moved
      <4>3. QED
        BY <4>2, <2>1, <1>1 DEF View, NoLine
    <3>3. moved' = moved \o new
      BY <3>1, <3>2
    <3>4. moved = [i \in 1..done |-> On(i - 1)]
      BY <2>7, <1>1, <1>3, <1>12 DEF IFetched
    <3>5. \A i \in Int : On(i) \in V
      OBVIOUS
    <3> HIDE DEF V
    <3>6. moved \in Seq(V) /\ Len(moved) = done
      BY <3>4, <3>5, <1>4
    <3>7. new \in Seq(V) /\ Len(new) = ChunkLen
      BY <3>5, <1>4, <1>5
    <3> HIDE DEF new
    <3>8. /\ Len(moved \o new) = done + ChunkLen /\ moved \o new \in Seq(V)
          /\ \A i \in 1..done + ChunkLen :
               (moved \o new)[i] = IF i <= done THEN moved[i] ELSE new[i - done]
      BY <3>6, <3>7, ConcatProperties
    <3>9. ASSUME NEW i \in 1..done + ChunkLen
          PROVE  (moved \o new)[i] = On(i - 1)
      <4>1. CASE i <= done
        BY <4>1, <3>4, <3>8, <1>4
      <4>2. CASE ~(i <= done)
        <5>1. i - done \in 1..ChunkLen /\ done + (i - done) - 1 = i - 1
          BY <4>2, <1>4, <1>5
        <5>2. new[i - done] = On(done + (i - done) - 1)
          BY <5>1 DEF new
        <5>3. QED
          BY <5>1, <5>2, <4>2, <3>8
      <4>3. QED
        BY <4>1, <4>2
    <3>10. moved \o new = [i \in 1..done + ChunkLen |-> (moved \o new)[i]]
      <4>1. \A q \in Seq(V) : q = [i \in 1..Len(q) |-> q[i]]
        OBVIOUS
      <4>2. QED
        BY <4>1, <3>8
    <3>11. QED
      BY <3>3, <3>9, <3>10
  <2>8. IFetched'
    <3>1. way' = way /\ call' = call /\ done' = done + ChunkLen /\ mem' = mem
      BY <1>1
    <3>2. way = "cached" =>
            \A j \in 0..done' - 1 :
              mem'[Buffer + j] = On(j)' /\ cache'[Buffer + j].st = "none"
      BY <2>6, <3>1, <1>9, <1>11
    <3>3. way = "bounce" => moved' = [i \in 1..done' |-> On(i - 1)']
      BY <2>7, <3>1, <1>9
    <3>4. QED
      BY <3>1, <3>2, <3>3, <1>3, <1>12 DEF IFetched
  <2>9. QED
    BY <2>2, <2>3, <2>4, <2>8, <1>1, <1>2, <1>10 DEF IStore, IEngine, IBlocks,
       IServes, INoDownload, Busy, Writing, Reading, fsmVars, Store!storeVars
<1>13. CASE call.rd > 0 /\ way = "uncached"
  <2>1. cache' = cache
    BY <1>1, <1>13 DEF Landed
  <2>2. ILines' /\ ICall' /\ ISent'
    BY <2>1, <1>1, <1>3, <1>9, <1>10, <1>13 DEF ILines, ICall, ISent
  <2>3. ASSUME NEW j \in 0..done + ChunkLen - 1
        PROVE  mem[Buffer + j] = On(j)
    <3>1. CASE j < done
      <4>1. j \in 0..done - 1
        BY <3>1, <1>4, <1>5
      <4>2. QED
        BY <4>1, <1>1, <1>3, <1>13 DEF IFetched
    <3>2. CASE ~(j < done)
      <4>1. /\ j - done \in 0..ChunkLen - 1 /\ done + (j - done) = j
            /\ Target + (j - done) = Buffer + j
        BY <3>2, <1>4, <1>5, <1>13
      <4>2. mem[Target + (j - done)] = On(done + (j - done))
        BY <4>1, <1>2, <1>13 DEF Moved
      <4>3. QED
        BY <4>1, <4>2
    <3>3. QED
      BY <3>1, <3>2
  <2>4. IFetched'
    BY <2>3, <1>1, <1>9, <1>13, <1>11 DEF IFetched
  <2>5. QED
    BY <2>2, <2>4, <1>1, <1>2, <1>10 DEF IStore, IEngine, IBlocks,
       IServes, INoDownload, Busy, Writing, Reading, fsmVars, Store!storeVars
<1>14. CASE call.rd = 0
  <2>1. cache' = cache
    BY <1>1, <1>14 DEF Landed
  <2>2. \A j \in 0..done' - 1 : On(j) = call.data[j + 1]
    <3>1. \A j \in 0..done + ChunkLen - 1 : On(j) = call.data[j + 1]
      BY <1>2, <1>14 DEF Moved
    <3>2. QED
      BY <3>1, <1>11
  <2>3. ICall'
    BY <2>2, <1>1, <1>3, <1>9, <1>10, <1>14 DEF ICall
  <2>4. ILines' /\ ISent' /\ IFetched'
    BY <2>1, <1>1, <1>3, <1>9, <1>10, <1>14 DEF ILines, ISent, IFetched, View
  <2>5. QED
    BY <2>3, <2>4, <1>1, <1>2, <1>10 DEF IStore, IEngine, IBlocks,
       IServes, INoDownload, Busy, Writing, Reading, fsmVars, Store!storeVars
<1>15. QED
  BY <1>4, <1>12, <1>13, <1>14

\* The buffer that a call is made with.
LEMMA PrepareGives ==
  ASSUME ILines, way' \in {"cached", "uncached", "bounce"},
         NEW data, NEW dirty \in BOOLEAN, NEW n \in Nat, DOMAIN data = 1..n,
         Buffer + n <= Scratch, Prepare(data, dirty)
  PROVE  /\ DOMAIN mem' = Cells /\ DOMAIN cache' = Cells
         /\ \A j \in 0..Chunk - 1 : cache'[Scratch + j].st # "dirty"
         /\ way' = "uncached" =>
              \A j \in 0..n - 1 : cache'[Buffer + j].st # "dirty"
         /\ dirty /\ way' = "cached" =>
              \A j \in 0..n - 1 : cache'[Buffer + j] = Dirty(data[j + 1])
         /\ dirty /\ way' = "uncached" =>
              \A j \in 0..n - 1 : mem'[Buffer + j] = data[j + 1]
<1> DEFINE used == {Buffer + i - 1 : i \in DOMAIN data}
           val(c) == data[c - Buffer + 1]
<1>1. /\ Buffer \in Int /\ Scratch \in Int /\ Buffer <= Scratch
      /\ Chunk \in Nat \ {0}
  BY BufferAssumption, CallAssumption
<1>2. /\ DOMAIN mem = Cells /\ DOMAIN cache = Cells
      /\ \A j \in 0..Chunk - 1 : cache[Scratch + j].st # "dirty"
  BY DEF ILines
<1>3. \A j \in 0..Chunk - 1 : Scratch + j \in Cells /\ Scratch + j \notin used
  <2>1. ASSUME NEW j \in 0..Chunk - 1
        PROVE  Scratch + j \in Cells /\ Scratch + j \notin Buffer..Scratch - 1
    BY <1>1, BufferAssumption
  <2>2. used \subseteq Buffer..Scratch - 1
    BY <1>1
  <2>3. QED
    BY <2>1, <2>2
<1>4. ASSUME NEW j \in 0..n - 1
      PROVE  /\ Buffer + j \in Cells /\ Buffer + j \in used
             /\ Buffer + j \in Buffer..Scratch - 1
             /\ val(Buffer + j) = data[j + 1]
  <2>1. /\ j + 1 \in DOMAIN data /\ Buffer + (j + 1) - 1 = Buffer + j
        /\ (Buffer + j) - Buffer + 1 = j + 1
        /\ Buffer + j \in Buffer..Scratch - 1
        /\ Buffer + j \in Buffer..Scratch + Chunk - 1
    BY <1>1
  <2>2. Buffer + j \in used
    <3>1. Buffer + (j + 1) - 1 \in used
      BY <2>1
    <3>2. QED
      BY <2>1, <3>1
  <2>3. val(Buffer + j) = data[j + 1]
    BY <2>1
  <2>4. Buffer + j \in Cells
    BY <2>1, BufferAssumption
  <2>5. QED
    BY <2>1, <2>2, <2>3, <2>4
<1>5. CASE way' = "cached" /\ dirty
  <2>1. /\ cache' = [c \in Cells |-> IF c \in used THEN Dirty(val(c))
                                     ELSE cache[c]]
        /\ mem' = mem
    BY <1>5 DEF Prepare, With
  <2> HIDE DEF used, val
  <2>2. QED
    BY <2>1, <1>2, <1>3, <1>4, <1>5
<1>6. CASE way' = "uncached"
  <2>1. /\ cache' = [c \in Cells |-> IF c \in Buffer..Scratch - 1 THEN NoLine
                                     ELSE cache[c]]
        /\ mem' = IF dirty
                  THEN [c \in Cells |-> IF c \in used THEN val(c) ELSE mem[c]]
                  ELSE mem
    BY <1>6 DEF Prepare, With
  <2> HIDE DEF used, val
  <2>2. \A c \in Cells : cache'[c] \in {NoLine, cache[c]}
    BY <2>1
  <2>3. QED
    BY <2>1, <2>2, <1>2, <1>3, <1>4, <1>6 DEF NoLine
<1>7. CASE way' # "uncached" /\ ~(way' = "cached" /\ dirty)
  <2>1. UNCHANGED <<cache, mem>>
    BY <1>7 DEF Prepare
  <2>2. QED
    BY <2>1, <1>2, <1>7
<1>8. QED
  BY <1>5, <1>6, <1>7

\* A call is made, or refused at once.
LEMMA BeginKeeps ==
  ASSUME Steady, IStore,
         NEW d \in Disks, NEW at \in Starts, NEW n, NEW data,
         \/ n \in Counts /\ data = <<>>
         \/ n = 0 /\ data \in Payloads,
         Begin(d, at, n, data)
  PROVE  IStore' /\ [Store!Next]_Store!storeVars
<1> USE DEF InCall
<1>1. /\ pc = "app" /\ way' \in {"cached", "uncached", "bounce"}
      /\ UNCHANGED <<hps, fsmVars, todo, dl, dlSeen, load, disk, strobe, got>>
      /\ done' = 0 /\ moved' = <<>>
  BY BufferAssumption DEF Begin, engineVars, ingestVars, senderVars, loadVars
<1>2. ICall /\ ILines /\ call = Nothing
  BY <1>1 DEF IStore, ICall
<1>3. CASE pc' = "app"
  <2>1. result' = "error" /\ UNCHANGED <<pc, call, cache, mem>>
    BY <1>1, <1>3 DEF Begin
  <2>2. IEngine' /\ IBlocks' /\ IServes' /\ INoDownload'
    BY <2>1, <1>1, BridgeApart
  <2>3. ICall' /\ ISent' /\ IFetched' /\ ILines'
    BY <2>1, <1>1, <1>2 DEF ICall, ISent, IFetched, ILines
  <2>4. Store!Fail
    BY <2>1, <1>1, <1>2 DEF Store!Fail, Store!Nothing, Nothing
  <2>5. QED
    BY <2>2, <2>3, <2>4 DEF IStore, Store!Next
<1>4. CASE pc' # "app"
  <2>1. /\ pc' = "chunk" /\ result' = result
        /\ ~(at + n + Len(data) > Addressable)
        /\ call' = [disk |-> d, at |-> at, data |-> data, rd |-> n]
        /\ IF n = 0 THEN Prepare(data, TRUE)
           ELSE \E dirty \in BOOLEAN : Prepare([i \in 1..n |-> "old"], dirty)
    BY <1>1, <1>4 DEF Begin
  <2>2. /\ at \in Nat /\ at \in Sectors /\ Addressable \in Nat
        /\ Buffer \in Int /\ Scratch \in Int
    BY CallAssumption, BufferAssumption
  <2>3. IEngine' /\ IBlocks' /\ IServes' /\ INoDownload'
    BY <2>1, <1>1, BridgeApart
  <2>4. CASE n \in Counts /\ data = <<>>
    <3>1. /\ n \in Nat \ {0} /\ Len(data) = 0 /\ Buffer + n <= Scratch
          /\ Total' = n /\ at + n <= Addressable
      <4>1. n \in Nat \ {0} /\ Len(data) = 0 /\ Buffer + n <= Scratch
        BY <2>4, CallAssumption, BufferAssumption
      <4>2. QED
        BY <4>1, <2>1, <2>2 DEF Total
    <3>2. ICall'
      BY <3>1, <2>1, <2>2, <2>4, <1>1, <1>2 DEF ICall
    <3>3. PICK dirty \in BOOLEAN : Prepare([i \in 1..n |-> "old"], dirty)
      BY <2>1, <3>1
    <3>4. /\ DOMAIN mem' = Cells /\ DOMAIN cache' = Cells
          /\ \A j \in 0..Chunk - 1 : cache'[Scratch + j].st # "dirty"
          /\ way' = "uncached" =>
               \A j \in 0..n - 1 : cache'[Buffer + j].st # "dirty"
      BY <3>1, <3>3, <1>1, <1>2, PrepareGives
    <3>5. ILines'
      BY <3>1, <3>4, <2>1 DEF ILines
    <3>6. ISent'
      BY <3>1, <2>1 DEF ISent
    <3>7. IFetched'
      <4>1. 0..0 - 1 = {} /\ 1..0 = {}
        OBVIOUS
      <4>2. \A j : On(j)' = disk[d][at + j]
        BY <2>1, <1>1 DEF On
      <4>3. moved' = [i \in 1..0 |-> On(i - 1)']
        BY <1>1, <4>1
      <4>4. QED
        BY <4>1, <4>3, <1>1 DEF IFetched
    <3>8. Store!Read(d, at, n)
      BY <2>1, <2>4, <1>1, <1>2 DEF Store!Read, Store!Nothing, Nothing
    <3>9. QED
      BY <3>2, <3>5, <3>6, <3>7, <3>8, <2>2, <2>3, <2>4 DEF IStore, Store!Next
  <2>5. CASE n = 0 /\ data \in Payloads
    <3>1. /\ data \in Seq(STRING) /\ Len(data) \in Nat
          /\ Buffer + Len(data) <= Scratch /\ DOMAIN data = 1..Len(data)
          /\ Total' = Len(data) /\ at + Len(data) <= Addressable
      <4>1. data \in Seq(STRING) /\ Buffer + Len(data) <= Scratch
        BY <2>5, CallAssumption, BufferAssumption
      <4>2. Len(data) \in Nat /\ DOMAIN data = 1..Len(data)
        BY <4>1
      <4>3. QED
        BY <4>1, <4>2, <2>1, <2>2, <2>5 DEF Total
    <3>2. ICall'
      <4>1. 0..0 - 1 = {} /\ 0 \in 0..Len(data)
        BY <3>1
      <4>2. QED
        BY <4>1, <3>1, <2>1, <2>2, <2>5, <1>1, <1>2 DEF ICall
    <3>3. Prepare(data, TRUE)
      BY <2>1, <2>5
    <3>4. /\ DOMAIN mem' = Cells /\ DOMAIN cache' = Cells
          /\ \A j \in 0..Chunk - 1 : cache'[Scratch + j].st # "dirty"
          /\ way' = "uncached" =>
               \A j \in 0..Len(data) - 1 : cache'[Buffer + j].st # "dirty"
          /\ way' = "cached" =>
               \A j \in 0..Len(data) - 1 :
                  cache'[Buffer + j] = Dirty(data[j + 1])
          /\ way' = "uncached" =>
               \A j \in 0..Len(data) - 1 : mem'[Buffer + j] = data[j + 1]
      BY <3>1, <3>3, <1>1, <1>2, PrepareGives
    <3>5. ILines'
      BY <3>1, <3>4, <2>1 DEF ILines
    <3>6. ISent'
      <4>1. /\ call'.rd = 0 /\ call'.data = data /\ done' = 0
            /\ Total' = Len(data)
        BY <3>1, <2>1, <2>5, <1>1
      <4>2. way' = "cached" =>
              \A j \in 0..Len(data) - 1 : View(Buffer + j)' = data[j + 1]
        <5>1. ASSUME way' = "cached", NEW j \in 0..Len(data) - 1
              PROVE  View(Buffer + j)' = data[j + 1]
          <6>1. cache'[Buffer + j] = Dirty(data[j + 1])
            BY <3>4, <5>1
          <6>2. /\ cache'[Buffer + j].st = "dirty"
                /\ cache'[Buffer + j].v = data[j + 1]
            BY <6>1 DEF Dirty
          <6>3. QED
            BY <6>2 DEF View
        <5>2. QED
          BY <5>1
      <4>3. QED
        BY <4>1, <4>2, <3>4, <2>1 DEF ISent
    <3>7. IFetched'
      BY <2>1, <2>5 DEF IFetched
    <3>8. Store!Write(d, at, data)
      BY <2>1, <2>5, <1>1, <1>2 DEF Store!Write, Store!Nothing, Nothing
    <3>9. QED
      BY <3>2, <3>5, <3>6, <3>7, <3>8, <2>2, <2>3, <2>5 DEF IStore, Store!Next
  <2>6. QED
    BY <2>4, <2>5
<1>5. QED
  BY <1>3, <1>4

\* What the cache does unasked to the lines of a command.
LEMMA CacheStepKeeps ==
  ASSUME Steady, IStore, IImage, CacheStep
  PROVE  IStore' /\ [Store!Next]_Store!storeVars
<1> USE DEF InCall
<1>1. /\ pc \in {"gate", "wait"}
      /\ UNCHANGED <<hps, fsmVars, todo, dl, dlSeen, load, disk>>
      /\ UNCHANGED <<strobe, req, dsDone, dsErr>>
      /\ UNCHANGED <<pc, call, way, done, moved, got, result>>
  BY DEF CacheStep, callVars, engineVars, ingestVars, senderVars, loadVars
<1>2. PICK c \in ChunkCells : LineFill(c) \/ Evict(c)
  BY DEF CacheStep
<1>3. /\ ICall /\ ISent /\ IFetched /\ ILines
      /\ way \in {"cached", "uncached", "bounce"}
      /\ DOMAIN mem = Cells /\ DOMAIN cache = Cells
  BY DEF IStore, ICall, ILines
<1>4. /\ done < Total /\ Total \in Nat /\ done \in Nat /\ call.rd \in Nat
      /\ Buffer \in Int
  BY <1>1, <1>3, CallNumbers DEF IImage, IAsked
<1>5. /\ ChunkLen \in Nat \ {0} /\ done + ChunkLen <= Total /\ Target \in Int
      /\ way # "bounce" => Target = Buffer + done
      /\ \A j \in 0..ChunkLen - 1 : Target + j \in Cells
      /\ ChunkCells = {Target + j : j \in 0..ChunkLen - 1}
  BY <1>1, <1>3, <1>4, ChunkNumbers
<1>6. PICK i \in 0..ChunkLen - 1 : c = Target + i
  BY <1>5
<1>7. c \in Cells /\ cache[c].st # "dirty"
  BY <1>1, <1>3, <1>5, <1>6 DEF ILines
<1>8. /\ mem' = mem
      /\ cache' \in {[cache EXCEPT ![c] = Clean(mem[c])],
                     [cache EXCEPT ![c] = NoLine]}
  BY <1>2, <1>7 DEF LineFill, Evict
<1>9. /\ DOMAIN cache' = Cells /\ cache'[c].st # "dirty"
      /\ View(c)' = mem[c]
      /\ \A a : a # c => cache'[a] = cache[a] \/ a \notin Cells
  BY <1>3, <1>7, <1>8 DEF Clean, NoLine, View
<1>10. /\ Total' = Total /\ \A j : On(j)' = On(j)
  BY <1>1 DEF Total, On
<1>11. ChunkLen' = ChunkLen /\ Target' = Target
  BY <1>1, <1>10 DEF ChunkLen, Target
<1>12. ICall'
  BY <1>1, <1>3, <1>10 DEF ICall
<1>13. IEngine' /\ IBlocks' /\ IServes' /\ INoDownload'
  <2>1. UNCHANGED <<state, op, secbuf, err>>
    BY <1>1 DEF fsmVars
  <2>2. \A n : Moved(n)' = Moved(n)
    BY <1>1, <1>8, <1>10, <1>11 DEF Moved
  <2>3. K' = K
    BY <2>1, <1>11 DEF K
  <2>4. QED
    BY <2>1, <2>2, <2>3, <1>1, <1>10, <1>11 DEF IStore, IEngine, IBlocks,
       IServes,
       INoDownload
<1>14. ILines'
  <2>1. \A a : cache[a].st # "dirty" /\ a \in Cells => cache'[a].st # "dirty"
    BY <1>9
  <2>2. \A j \in 0..Chunk - 1 : Scratch + j \in Cells
    BY CallAssumption, BufferAssumption
  <2>3. \A j \in 0..Total - 1 : Buffer + j \in Cells
    BY <1>1, <1>3, BufferNumbers
  <2>4. QED
    BY <2>1, <2>2, <2>3, <1>1, <1>3, <1>5, <1>8, <1>9, <1>10, <1>11 DEF ILines
<1>15. ISent'
  <2>1. ASSUME call.rd = 0, way = "cached", NEW j \in 0..Total - 1
        PROVE  View(Buffer + j)' = call.data[j + 1]
    <3>1. View(Buffer + j) = call.data[j + 1] /\ Buffer + j \in Cells
      BY <2>1, <1>1, <1>3, BufferNumbers DEF ISent
    <3>2. CASE Buffer + j = c
      <4>1. j + 1 = done + i + 1
        BY <2>1, <3>2, <1>4, <1>5, <1>6
      <4>2. mem[c] = call.data[done + i + 1]
        BY <2>1, <1>1, <1>3, <1>6 DEF ISent
      <4>3. View(Buffer + j)' = mem[c]
        BY <3>2, <1>9
      <4>4. QED
        BY <4>1, <4>2, <4>3
    <3>3. CASE Buffer + j # c
      BY <3>1, <3>3, <1>8, <1>9 DEF View
    <3>4. QED
      BY <3>2, <3>3
  <2>2. QED
    BY <2>1, <1>1, <1>3, <1>8, <1>10, <1>11 DEF ISent
<1>16. IFetched'
  <2>1. ASSUME call.rd > 0, way = "cached", NEW j \in 0..done - 1
        PROVE  cache'[Buffer + j].st = "none"
    <3>1. Buffer + j # c /\ j \in 0..Total - 1
      BY <2>1, <1>4, <1>5, <1>6
    <3>2. Buffer + j \in Cells /\ cache[Buffer + j].st = "none"
      BY <2>1, <3>1, <1>1, <1>3, BufferNumbers DEF IFetched
    <3>3. QED
      BY <3>1, <3>2, <1>9
  <2>2. QED
    BY <2>1, <1>1, <1>3, <1>8, <1>10 DEF IFetched
<1>17. QED
  BY <1>1, <1>12, <1>13, <1>14, <1>15, <1>16 DEF IStore, Store!storeVars

\* The steps that no call takes part in.
LEMMA OthersKeep ==
  ASSUME IStore,
         \/ SizeBegin \/ SizeHi \/ SizeLo \/ SizeHi2
         \/ EnableRetries \/ UNCHANGED vars
  PROVE  IStore' /\ UNCHANGED Store!storeVars
<1> USE DEF InCall
<1>1. /\ UNCHANGED <<disk, hps, fsmVars, todo, dl, dlSeen, load, strobe, req>>
      /\ UNCHANGED <<dsDone, dsErr, mem, cache, call, way, done, moved, got>>
      /\ UNCHANGED result
      /\ (~InCall /\ ~InCall') \/ UNCHANGED pc
  BY DEF SizeBegin, SizeHi, SizeLo, SizeHi2, EnableRetries, vars, fwVars,
     callVars, bridgeVars, engineVars, ingestVars, senderVars, loadVars
<1>2. UNCHANGED Store!storeVars
  BY <1>1 DEF Store!storeVars
<1>3. CASE UNCHANGED pc
  <2>1. UNCHANGED <<state, op, secbuf, err>>
    BY <1>1 DEF fsmVars
  <2>2. IStore'
    BY <2>1, <1>1, <1>3 DEF IStore, ICall, IEngine, IBlocks, IServes, ISent,
       IFetched, ILines, INoDownload, Total, ChunkLen, Target, K, On, Moved,
       View
  <2>3. QED
    BY <1>2, <2>2
<1>4. CASE ~InCall /\ ~InCall'
  <2>1. IEngine' /\ IBlocks' /\ IServes' /\ INoDownload'
    BY <1>1, <1>4, BridgeApart
  <2>2. ICall' /\ ISent' /\ IFetched' /\ ILines'
    BY <1>1, <1>4 DEF IStore, ICall, ISent, IFetched, ILines
  <2>3. QED
    BY <1>2, <2>1, <2>2 DEF IStore
<1>5. QED
  BY <1>1, <1>3, <1>4

LEMMA StoreInit ==
  ASSUME Steady, Init
  PROVE  IStore /\ Store!Init
<1> USE DEF InCall
<1>1. /\ disk = Blank /\ hps = IdleHps /\ strobe = "none" /\ state = "idle"
      /\ mem = [c \in Cells |-> "empty"] /\ todo = 0 /\ dl = "none"
      /\ ~dlSeen /\ load = "boot" /\ pc = "app" /\ call = Nothing
      /\ way \in Ways /\ cache = [c \in Cells |-> NoLine]
      /\ got = <<>> /\ result = "ok"
  BY DEF Init, BridgeInit, Steady
<1>2. \A j \in 0..Chunk - 1 : Scratch + j \in Cells
  BY CallAssumption, BufferAssumption
<1>3. ILines
  BY <1>1, <1>2 DEF ILines, NoLine
<1>4. ICall /\ IEngine /\ ISent /\ IFetched /\ INoDownload
  BY <1>1, BufferAssumption DEF ICall, IEngine, ISent, IFetched, INoDownload
<1>5. IBlocks /\ IServes
  BY <1>1 DEF IBlocks, IServes, IdleHps, Busy, Writing, Reading
<1>6. Store!Init
  BY <1>1 DEF Store!Init, Store!Nothing, Nothing
<1>7. QED
  BY <1>3, <1>4, <1>5, <1>6 DEF IStore

\* Every step is the store's, or none of it.
LEMMA StoreStep ==
  ASSUME Steady, IStore, IImage, IIngest, [Next]_vars
  PROVE  IStore' /\ [Store!Next]_Store!storeVars
<1>1. CASE BridgeStep
  BY <1>1, BridgeKeeps
<1>2. CASE Firmware
  <2>1. CASE StartChunk
    BY <2>1, StartChunkKeeps
  <2>2. CASE Command
    BY <2>2, CommandKeeps
  <2>3. CASE Failed
    BY <2>3, FailedKeeps
  <2>4. CASE Landed
    BY <2>4, LandedKeeps
  <2>5. CASE Finish
    BY <2>5, FinishKeeps
  <2>6. CASE SizeHi \/ SizeLo \/ SizeHi2
    BY <2>6, OthersKeep
  <2>7. QED
    BY <1>2, <2>1, <2>2, <2>3, <2>4, <2>5, <2>6 DEF Firmware
<1>3. CASE CacheStep
  BY <1>3, CacheStepKeeps
<1>4. CASE Read
  <2>1. PICK d \in Disks, at \in Starts, n \in Counts : Begin(d, at, n, <<>>)
    BY <1>4 DEF Read
  <2>2. QED
    BY <2>1, BeginKeeps
<1>5. CASE Write
  <2>1. PICK d \in Disks, at \in Starts, data \in Payloads :
            Begin(d, at, 0, data)
    BY <1>5 DEF Write
  <2>2. QED
    BY <2>1, BeginKeeps
<1>6. CASE SizeBegin \/ EnableRetries \/ UNCHANGED vars
  BY <1>6, OthersKeep
<1>7. CASE CpuTimeout
  BY <1>7, CpuTimeoutKeeps
<1>8. QED
  BY <1>1, <1>2, <1>3, <1>4, <1>5, <1>6, <1>7 DEF Next

\* ImplementsStore, where nothing restarts the core and no request is given up
\* behind a call's back: a read that succeeds has what the disk holds, a write
\* that succeeds is on it, for every way to the buffer and every cut of the
\* call into commands.
THEOREM ImplementsStoreHolds ==
  ASSUME Steady
  PROVE  Spec => ImplementsStore
<1>1. Init => IStore /\ Store!Init
  BY StoreInit
<1>2. Spec => [](IIngest /\ IImage)
  <2>1. IImage /\ [Next]_vars => IImage'
    BY ImageStep DEF Steady
  <2>2. QED
    BY <2>1, ImageInit, Downloads_IIngest, PTL DEF Spec
<1>3. IStore /\ IIngest /\ IImage /\ [Next]_vars =>
        IStore' /\ [Store!Next]_Store!storeVars
  BY StoreStep
<1>4. QED
  BY <1>1, <1>2, <1>3, PTL DEF Spec, ImplementsStore, Store!Spec
=============================================================================

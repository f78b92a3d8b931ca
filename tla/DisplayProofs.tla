---------------------------- MODULE DisplayProofs ----------------------------
(***************************************************************************)
(* Proofs about the framebuffers and the palette: for any programs of      *)
(* calls, any number of frames, palettes and menus, and any interleaving   *)
(* with the scanout, the GPU and the vertical-sync interrupt.              *)
(***************************************************************************)
EXTENDS Display, SequenceTheorems, FiniteSetTheorems, TLAPS

\* What is left of a call before its n-th step.
Left(c, n) == SubSeq(Steps[c], n, Len(Steps[c]))
Before(c, n) == todo = Left(c, n)

PaletteSteps == {"set0", "set1", "next1", "claim", "try", "release", "ready",
                 "rewind", "write", "commit", "late", "clean"}
VideoSteps == {"read", "use", "choose", "kick", "mark", "free", "fence", "spin",
               "rekick", "roles", "clear", "zero"}
MaybeBuffer == Buffers \cup {None}
Samples == [pend : BOOLEAN, disp : Buffers]

\* Nothing went wrong that the properties make an exception for.
Good == ~gaveUp /\ ~torn

\* Comparisons, for the provers to treat as atoms.
NotAfter(m, n) == m <= n
AtMost(n, S) == n <= Cardinality(S)

-----------------------------------------------------------------------------
(***************************************************************************)
(* The buffers from the one on the screen to the one flipped last, f being *)
(* a buffer that was flipped and is not yet noted in buf_ready, or None.   *)
(***************************************************************************)

Top == IF next # None THEN next ELSE display
LastOf(f) == IF f # None THEN f ELSE Top

\* The last flip is on the screen, queued for the next vertical blank, behind
\* an empty swap slot, or behind a buffer in the swap slot.
Shown(f) == queue = <<>> /\ ~pending /\ showing = LastOf(f)
Queued(f) ==
    /\ queue = <<>> /\ pending /\ ready = LastOf(f) /\ ready # showing
    /\ IF f # None THEN showing = Top ELSE next # None /\ showing = display
Behind(f) ==
    f # None /\ queue = <<f>> /\ ~pending /\ showing = Top /\ f # showing
Third(f) ==
    /\ f # None /\ queue = <<f>> /\ pending /\ next # None /\ ready = next
    /\ showing = display /\ ready # showing /\ f # showing /\ f # ready
Pipe(f) == Shown(f) \/ Queued(f) \/ Behind(f) \/ Third(f)

\* A register value as old as the kernel's view is.
Fits(s, f) ==
    IF next # None
    THEN IF next = s.disp \/ ~s.pend THEN ~(pending /\ ready = next)
                                     ELSE s.disp = display
    ELSE \/ s.disp = display
         \/ /\ f # None /\ s.disp = f
            /\ showing = f /\ ~pending /\ queue = <<>>

(***************************************************************************)
(* The frames in them; d: a frame was drawn that is not yet noted.         *)
(***************************************************************************)

OnScreen == (seen \cup {content[showing]}) \ {0}
Uncounted(d) ==
    (IF next # None /\ fresh THEN {content[next]} ELSE {})
    \cup (IF d THEN {frames} ELSE {})

Scanned == phase = "active" \/ ~consumed => content[showing] \in seen

Pictures(f, d) ==
    /\ pending => NotAfter(content[showing], content[ready])
    /\ f # None => content[f] = frames
    /\ f # None /\ next # None /\ showing = f => content[next] \in seen
    /\ Scanned
    /\ next # None => content[next] # 0
    /\ d => frames # 0
    /\ d /\ next # None => content[next] # frames

\* The presents counted are of frames that were shown, other than those yet to
\* be counted.
Bound(d) == AtMost(presents, OnScreen \ Uncounted(d))

View(f, d) ==
    /\ Pipe(f)
    /\ next # None => kicked
    /\ isr # Idle => Fits(isr, f)
    /\ Pictures(f, d)
    /\ Bound(d)

Quiet == next = None /\ ~pending /\ queue = <<>> /\ showing = display
Spare == draw # display /\ draw # next
Fresh(s, f) == s # Idle /\ (Good => isr = Idle /\ Fits(s, f))
Drawn(f) == Quiet /\ draw = f /\ f # display /\ content[f] = frames
Cleared == Quiet /\ draw # display /\ \A b \in Buffers : content[b] = frames
Waited(s) == ~pending /\ ~s.pend
Rekicked ==
    /\ next = None /\ queue = <<>> /\ showing = display
    /\ pending => ready = display
    /\ isr # Idle => isr.disp = display
    /\ Scanned /\ Bound(FALSE)

-----------------------------------------------------------------------------
(* Where a call stands, and what it knows there. *)

AtRest ==
    /\ todo \in Seq(PaletteSteps) /\ flipped = None
    /\ Good => View(None, FALSE) /\ Spare /\ (settled => Quiet)

\* of_video_flip: the frame is drawn; the register is read; the swap is
\* kicked; the buffer is noted.
FlipDrawn(f) ==
    /\ Before("flip", 1) \/ Before("flip", 3) \/ Before("flip", 4)
    /\ Good => View(None, TRUE) /\ Drawn(f)
FlipSampled(f) ==
    /\ Before("flip", 2) /\ Fresh(sample, None)
    /\ Good => View(None, TRUE) /\ Drawn(f)
FlipKicked(f) ==
    /\ Before("flip", 5)
    /\ Good => View(f, TRUE) /\ next = None /\ queue = <<>>
FlipMarked ==
    /\ Before("flip", 6)
    /\ Good => View(None, FALSE)

AtFlip(f) ==
    /\ flipped = f /\ ~settled
    /\ FlipDrawn(f) \/ FlipSampled(f) \/ FlipKicked(f) \/ FlipMarked

\* of_gpu_flip_to and of_video_acquire_next: the buffer is with the GPU; its
\* flip is retired; the one before it is on the screen; it is noted.
AcqGiven(f) ==
    /\ Before("acquire", 1) \/ Before("acquire", 3)
    /\ Good => View(f, TRUE)
AcqSampled(f) ==
    /\ Before("acquire", 2) /\ Fresh(sample, f)
    /\ Good => View(f, TRUE)
AcqRetired(f) ==
    /\ Before("acquire", 4)
    /\ Good => View(f, TRUE) /\ queue = <<>>
AcqSeen(f) ==
    /\ Before("acquire", 5) /\ Fresh(sample, f)
    /\ Good => /\ View(f, TRUE) /\ queue = <<>>
               /\ next # None => next = sample.disp \/ ~sample.pend
AcqSynced(f) ==
    /\ Before("acquire", 6)
    /\ Good => View(f, TRUE) /\ next = None /\ queue = <<>>
AcqMarked ==
    /\ Before("acquire", 7) \/ Before("acquire", 9)
    /\ Good => View(None, FALSE)
AcqAgain ==
    /\ Before("acquire", 8) /\ Fresh(sample, None)
    /\ Good => View(None, FALSE)

AtAcquire(f) ==
    /\ flipped = f /\ ~settled
    /\ \/ AcqGiven(f) \/ AcqSampled(f) \/ AcqRetired(f) \/ AcqSeen(f)
       \/ AcqSynced(f) \/ AcqMarked \/ AcqAgain

\* of_video_wait_flip.
WaitBegun ==
    /\ Before("wait", 1)
    /\ Good => View(None, FALSE) /\ Spare
WaitSpun ==
    /\ Before("wait", 2)
    /\ Good => View(None, FALSE) /\ Spare /\ ~pending
WaitSampled ==
    /\ Before("wait", 3) /\ Fresh(sample, None)
    /\ Good => View(None, FALSE) /\ Spare /\ Waited(sample)

AtWait == flipped = None /\ (WaitBegun \/ WaitSpun \/ WaitSampled)

\* of_video_vsync.
VsyncBegun ==
    /\ Before("vsync", 1)
    /\ Good => View(None, FALSE) /\ Spare /\ Quiet
VsyncKicked ==
    /\ Before("vsync", 2)
    /\ Good => Rekicked /\ Spare

AtVsync == flipped = None /\ (VsyncBegun \/ VsyncKicked)

\* of_video_set_mode: the buffers are cleared and one of them is presented.
ModeBegun ==
    /\ Before("mode", 1) \/ Before("mode", 2)
    /\ Good => View(None, FALSE) /\ Quiet
ModeReset ==
    /\ Before("mode", 3)
    /\ Good => View(None, FALSE) /\ Quiet /\ draw # display
ModeCleared ==
    /\ Before("mode", 4) \/ Before("mode", 6) \/ Before("mode", 7)
    /\ Good => View(None, TRUE) /\ Cleared
ModeSampled ==
    /\ Before("mode", 5) /\ Fresh(sample, None)
    /\ Good => View(None, TRUE) /\ Cleared
ModeKicked(f) ==
    /\ Before("mode", 8) /\ draw = f
    /\ Good => View(f, TRUE) /\ next = None /\ queue = <<>>
ModeMarked ==
    /\ Before("mode", 9)
    /\ Good => View(None, FALSE)
ModeSpun ==
    /\ Before("mode", 10)
    /\ Good => View(None, FALSE) /\ ~pending
ModeSeen ==
    /\ Before("mode", 11) /\ Fresh(sample, None)
    /\ Good => View(None, FALSE) /\ Waited(sample)
ModeSynced ==
    /\ Before("mode", 12)
    /\ Good => View(None, FALSE) /\ Quiet

AtMode(f) ==
    /\ flipped = None
    /\ \/ ModeBegun \/ ModeReset \/ ModeCleared \/ ModeSampled \/ ModeKicked(f)
       \/ ModeMarked \/ ModeSpun \/ ModeSeen \/ ModeSynced

\* of_video_init.
InitBegun ==
    /\ Before("init", 1) \/ Before("init", 2)
    /\ Good => View(None, FALSE) /\ Quiet
InitReset ==
    /\ Before("init", 3) \/ Before("init", 4)
    /\ Good => View(None, FALSE) /\ Quiet /\ draw # display

AtInit == flipped = None /\ (InitBegun \/ InitReset)

IVideo ==
    \/ AtRest \/ AtWait \/ AtVsync \/ AtInit
    \/ \E f \in Buffers : AtFlip(f) \/ AtAcquire(f) \/ AtMode(f)

-----------------------------------------------------------------------------
(***************************************************************************)
(* The palette: what is or may become visible.                             *)
(***************************************************************************)

Dimmed == {[i \in Entries |-> -p[i]] : p \in whole}
Visible == whole \cup Dimmed

\* What the next commit or the next retry makes visible.
MayShow == busy => staged \in Visible
Coming == ~torn => shadow \in whole /\ MayShow

SetFirst == <<"set0", "claim">>
SetSecond == <<"set1", "claim">>
SetBoth == <<"set0", "next1", "claim">>
SetRest == <<"next1", "claim">>
ClaimOnly == <<"claim">>
LateOnly == <<"late", "release">>
ReleaseOnly == <<"release">>
\* The writing of a bank, by the overlay and by an upload.
Bank1 == <<"rewind", "write", "write", "commit">>
Bank2 == <<"write", "write", "commit">>
Bank3 == <<"write", "commit">>
Bank4 == <<"commit">>
Load1 == <<"rewind", "write", "write", "commit", "clean", "release">>
Load2 == <<"write", "write", "commit", "clean", "release">>
Load3 == <<"write", "commit", "clean", "release">>
Load4 == <<"commit", "clean", "release">>
Load5 == <<"clean", "release">>

Away == todo \in Seq(VideoSteps) /\ ~uploading /\ Coming
Asked ==
    /\ todo \in {SetFirst, SetSecond, SetBoth, ClaimOnly}
    /\ ~uploading /\ Coming
Half == todo = SetRest /\ ~uploading /\ (~torn => isr = Idle /\ MayShow)
Waits == todo = Install /\ overlay /\ ~uploading /\ Coming
Claimed ==
    /\ todo \in {Upload, LateOnly, Load5, ReleaseOnly}
    /\ uploading /\ Coming

\* The bank being written is nobody else's.
Writes(t, u) ==
    /\ ~busy /\ Coming
    /\ \/ todo = t /\ overlay /\ ~uploading
       \/ todo = u /\ uploading
Rewinds == Writes(Bank1, Load1)
First == Writes(Bank2, Load2) /\ index = 0
Second ==
    Writes(Bank3, Load3) /\ index = 1 /\ staged[0] = Shade(shadow[0])
Commits ==
    Writes(Bank4, Load4) /\ staged = [i \in Entries |-> Shade(shadow[i])]

IPalette ==
    /\ ~torn => live \in Visible
    /\ \/ Away \/ Asked \/ Half \/ Waits \/ Claimed
       \/ Rewinds \/ First \/ Second \/ Commits
-----------------------------------------------------------------------------
(***************************************************************************)
(* The steps of a call.                                                    *)
(***************************************************************************)

FlipCall == <<"read", "use", "choose", "kick", "mark", "free">>
AcquireCall ==
    <<"read", "use", "fence", "read", "use", "mark", "read", "use", "free">>
WaitCall == <<"spin", "read", "use">>
VsyncCall == <<"rekick", "spin">>
ModeCall == <<"spin", "roles", "clear", "read", "use", "free", "kick", "mark",
              "spin", "read", "use", "roles">>
InitCall == <<"spin", "roles", "zero", "clear">>

\* u is s followed by t.
Joins(S, s, t, u) ==
    /\ s \in Seq(S) /\ t \in Seq(S) /\ u \in Seq(S)
    /\ Len(u) = Len(s) + Len(t)
    /\ \A i \in 1..Len(s) : u[i] = s[i]
    /\ \A i \in 1..Len(t) : u[Len(s) + i] = t[i]

LEMMA Join == \A S, s, t, u : Joins(S, s, t, u) => s \o t = u
BY DEF Joins

LEMMA FlipSteps == Steps["flip"] = FlipCall
<1>1. Joins(VideoSteps, Sync, <<"choose", "kick", "mark", "free">>, FlipCall)
  BY DEF Joins, VideoSteps, FlipCall, Sync
<1>2. Steps["flip"] = Sync \o <<"choose", "kick", "mark", "free">>
  BY DEF Steps
<1> QED
  BY <1>1, <1>2, Join, Zenon

LEMMA AcquireSteps == Steps["acquire"] = AcquireCall
<1> DEFINE s3 == <<"read", "use", "fence">>
           s5 == <<"read", "use", "fence", "read", "use">>
           s6 == <<"read", "use", "fence", "read", "use", "mark">>
           s8 == <<"read", "use", "fence", "read", "use", "mark", "read",
                   "use">>
<1>1. /\ Joins(VideoSteps, Sync, <<"fence">>, s3)
      /\ Joins(VideoSteps, s3, Sync, s5)
  BY DEF Joins, VideoSteps, Sync
<1>2. Joins(VideoSteps, s5, <<"mark">>, s6) /\ Joins(VideoSteps, s6, Sync, s8)
  BY DEF Joins, VideoSteps, Sync
<1>3. Joins(VideoSteps, s8, <<"free">>, AcquireCall)
  BY DEF Joins, VideoSteps, AcquireCall
<1>4. Steps["acquire"]
        = Sync \o <<"fence">> \o Sync \o <<"mark">> \o Sync \o <<"free">>
  BY DEF Steps
<1> HIDE DEF s3, s5, s6, s8
<1>5. Sync \o <<"fence">> = s3 /\ s3 \o Sync = s5 /\ s5 \o <<"mark">> = s6
      /\ s6 \o Sync = s8 /\ s8 \o <<"free">> = AcquireCall
  BY <1>1, <1>2, <1>3, Join, Zenon
<1> QED
  BY <1>4, <1>5, Zenon

LEMMA WaitSteps == Steps["wait"] = WaitCall
<1>1. Joins(VideoSteps, <<"spin">>, Sync, WaitCall)
  BY DEF Joins, VideoSteps, WaitCall, Sync
<1>2. Steps["wait"] = <<"spin">> \o Sync
  BY DEF Steps, Waiting
<1> QED
  BY <1>1, <1>2, Join, Zenon

LEMMA ModeSteps == Steps["mode"] = ModeCall
<1> DEFINE s6 == <<"read", "use", "free", "kick", "mark", "spin">>
           s8 == <<"read", "use", "free", "kick", "mark", "spin", "read",
                   "use">>
           s9 == <<"read", "use", "free", "kick", "mark", "spin", "read",
                   "use", "roles">>
<1>1. /\ Joins(VideoSteps, Sync, <<"free", "kick", "mark", "spin">>, s6)
      /\ Joins(VideoSteps, s6, Sync, s8)
  BY DEF Joins, VideoSteps, Sync
<1>2. Joins(VideoSteps, s8, <<"roles">>, s9)
  BY DEF Joins, VideoSteps
<1>3. Joins(VideoSteps, <<"spin", "roles", "clear">>, s9, ModeCall)
  BY DEF Joins, VideoSteps, ModeCall
<1>4. Steps["mode"] = <<"spin", "roles", "clear">> \o Clean
  BY DEF Steps
<1> HIDE DEF s6, s8, s9
<1>5. Clean = s9
  <2>1. Sync \o <<"free", "kick", "mark", "spin">> = s6 /\ s6 \o Sync = s8
        /\ s8 \o <<"roles">> = s9
    BY <1>1, <1>2, Join, Zenon
  <2> QED
    BY <2>1, Zenon DEF Clean
<1>6. <<"spin", "roles", "clear">> \o s9 = ModeCall
  BY <1>3, Join, Zenon
<1> QED
  BY <1>4, <1>5, <1>6, Zenon

VideoCalls == {"flip", "acquire", "wait", "vsync", "mode", "init"}

LEMMA CallSteps ==
    /\ Steps["flip"] = FlipCall /\ Steps["acquire"] = AcquireCall
    /\ Steps["wait"] = WaitCall /\ Steps["vsync"] = VsyncCall
    /\ Steps["mode"] = ModeCall /\ Steps["init"] = InitCall
<1>1. Steps["vsync"] = VsyncCall /\ Steps["init"] = InitCall
  BY DEF Steps, VsyncCall, InitCall
<1> QED
  BY <1>1, FlipSteps, AcquireSteps, WaitSteps, ModeSteps, Zenon

LEMMA CallsTyped ==
    \A c \in VideoCalls : Steps[c] \in Seq(VideoSteps)
<1>1. FlipCall \in Seq(VideoSteps) /\ AcquireCall \in Seq(VideoSteps)
      /\ WaitCall \in Seq(VideoSteps)
  BY DEF FlipCall, AcquireCall, WaitCall, VideoSteps
<1>2. VsyncCall \in Seq(VideoSteps) /\ ModeCall \in Seq(VideoSteps)
      /\ InitCall \in Seq(VideoSteps)
  BY DEF VsyncCall, ModeCall, InitCall, VideoSteps
<1> QED
  BY <1>1, <1>2, CallSteps, Zenon DEF VideoCalls

\* A step takes its name off the call.
LEMMA StepOff ==
    \A c \in VideoCalls : \A n \in 1..Len(Steps[c]) :
        /\ Left(c, n) \in Seq(VideoSteps) /\ Left(c, n) # <<>>
        /\ Head(Left(c, n)) = Steps[c][n]
        /\ <<>> \o Tail(Left(c, n)) = Left(c, n + 1)
<1> SUFFICES ASSUME NEW c \in VideoCalls, NEW n \in 1..Len(Steps[c])
             PROVE  /\ Left(c, n) \in Seq(VideoSteps) /\ Left(c, n) # <<>>
                    /\ Head(Left(c, n)) = Steps[c][n]
                    /\ <<>> \o Tail(Left(c, n)) = Left(c, n + 1)
  OBVIOUS
<1> DEFINE s == Steps[c]
           t == SubSeq(s, n, Len(s))
<1>0. s \in Seq(VideoSteps) /\ n \in 1..Len(s)
  BY CallsTyped
<1> HIDE DEF s
<1>1. /\ t \in Seq(VideoSteps) /\ Len(t) = Len(s) - n + 1
  <2>1. \A i \in n..Len(s) : s[i] \in VideoSteps
    BY <1>0, ElementOfSeq
  <2>2. n \in Int /\ Len(s) \in Int /\ n <= Len(s)
    BY <1>0
  <2> HIDE DEF t
  <2> QED
    BY <2>1, <2>2, SubSeqProperties DEF t
<1>2. Head(t) = s[n] /\ Tail(t) = SubSeq(s, n + 1, Len(s))
  <2>1. Len(s) \in n..Len(s)
    BY <1>0
  <2> QED
    BY <1>0, <2>1, HeadTailOfSubSeq
<1>3. t # <<>>
  <2>1. Len(t) # 0
    BY <1>0, <1>1
  <2> HIDE DEF t
  <2> QED
    BY <2>1
<1>4. Tail(t) \in Seq(VideoSteps)
  BY <1>1, <1>3, HeadTailProperties
<1>5. <<>> \o Tail(t) = Tail(t)
  BY <1>4, ConcatEmptySeq
<1> QED
  BY <1>1, <1>2, <1>3, <1>5 DEF Left, s

\* A call whose steps are all done.
LEMMA CallOver ==
    /\ Left("flip", 7) = <<>> /\ Left("acquire", 10) = <<>>
    /\ Left("wait", 4) = <<>> /\ Left("vsync", 3) = <<>>
    /\ Left("mode", 13) = <<>> /\ Left("init", 5) = <<>>
<1>1. /\ Len(FlipCall) = 6 /\ Len(AcquireCall) = 9 /\ Len(WaitCall) = 3
      /\ Len(VsyncCall) = 2 /\ Len(ModeCall) = 12 /\ Len(InitCall) = 4
  BY DEF FlipCall, AcquireCall, WaitCall, VsyncCall, ModeCall, InitCall
<1>2. SubSeq(FlipCall, 7, 6) = <<>> /\ SubSeq(AcquireCall, 10, 9) = <<>>
      /\ SubSeq(WaitCall, 4, 3) = <<>> /\ SubSeq(VsyncCall, 3, 2) = <<>>
      /\ SubSeq(ModeCall, 13, 12) = <<>> /\ SubSeq(InitCall, 5, 4) = <<>>
  BY SubSeqEmpty
<1> QED
  BY <1>1, <1>2, CallSteps, Zenon DEF Left

\* The n-th step of call c is named s.
Goes(c, n, s) ==
    /\ Left(c, n) \in Seq(VideoSteps) /\ Left(c, n) # <<>>
    /\ Head(Left(c, n)) = s
    /\ <<>> \o Tail(Left(c, n)) = Left(c, n + 1)

LEMMA GoesBySteps ==
    \A c \in VideoCalls : \A n \in 1..Len(Steps[c]) : Goes(c, n, Steps[c][n])
BY StepOff, Zenon DEF Goes

LEMMA FlipGoes ==
    /\ Goes("flip", 1, "read") /\ Goes("flip", 2, "use")
    /\ Goes("flip", 3, "choose") /\ Goes("flip", 4, "kick")
    /\ Goes("flip", 5, "mark") /\ Goes("flip", 6, "free")
<1>1. \A n \in 1..6 : Goes("flip", n, FlipCall[n])
  <2>1. Len(FlipCall) = 6
    BY DEF FlipCall
  <2> QED
    BY <2>1, GoesBySteps, CallSteps, Zenon DEF VideoCalls
<1>2. 1 \in 1..6 /\ 2 \in 1..6 /\ 3 \in 1..6 /\ 4 \in 1..6 /\ 5 \in 1..6
      /\ 6 \in 1..6
  OBVIOUS
<1> QED
  BY <1>1, <1>2 DEF FlipCall

LEMMA AcquireGoes ==
    /\ Goes("acquire", 1, "read") /\ Goes("acquire", 2, "use")
    /\ Goes("acquire", 3, "fence") /\ Goes("acquire", 4, "read")
    /\ Goes("acquire", 5, "use") /\ Goes("acquire", 6, "mark")
    /\ Goes("acquire", 7, "read") /\ Goes("acquire", 8, "use")
    /\ Goes("acquire", 9, "free")
<1>1. \A n \in 1..9 : Goes("acquire", n, AcquireCall[n])
  <2>1. Len(AcquireCall) = 9
    BY DEF AcquireCall
  <2> QED
    BY <2>1, GoesBySteps, CallSteps, Zenon DEF VideoCalls
<1>2. 1 \in 1..9 /\ 2 \in 1..9 /\ 3 \in 1..9 /\ 4 \in 1..9 /\ 5 \in 1..9
      /\ 6 \in 1..9 /\ 7 \in 1..9 /\ 8 \in 1..9 /\ 9 \in 1..9
  OBVIOUS
<1> QED
  BY <1>1, <1>2 DEF AcquireCall

LEMMA WaitGoes ==
    /\ Goes("wait", 1, "spin") /\ Goes("wait", 2, "read")
    /\ Goes("wait", 3, "use")
<1>1. \A n \in 1..3 : Goes("wait", n, WaitCall[n])
  <2>1. Len(WaitCall) = 3
    BY DEF WaitCall
  <2> QED
    BY <2>1, GoesBySteps, CallSteps, Zenon DEF VideoCalls
<1>2. 1 \in 1..3 /\ 2 \in 1..3 /\ 3 \in 1..3
  OBVIOUS
<1> QED
  BY <1>1, <1>2 DEF WaitCall

LEMMA VsyncGoes == Goes("vsync", 1, "rekick") /\ Goes("vsync", 2, "spin")
<1>1. \A n \in 1..2 : Goes("vsync", n, VsyncCall[n])
  <2>1. Len(VsyncCall) = 2
    BY DEF VsyncCall
  <2> QED
    BY <2>1, GoesBySteps, CallSteps, Zenon DEF VideoCalls
<1>2. 1 \in 1..2 /\ 2 \in 1..2
  OBVIOUS
<1> QED
  BY <1>1, <1>2 DEF VsyncCall

LEMMA ModeGoes ==
    /\ Goes("mode", 1, "spin") /\ Goes("mode", 2, "roles")
    /\ Goes("mode", 3, "clear") /\ Goes("mode", 4, "read")
    /\ Goes("mode", 5, "use") /\ Goes("mode", 6, "free")
    /\ Goes("mode", 7, "kick") /\ Goes("mode", 8, "mark")
    /\ Goes("mode", 9, "spin") /\ Goes("mode", 10, "read")
    /\ Goes("mode", 11, "use") /\ Goes("mode", 12, "roles")
<1>1. \A n \in 1..12 : Goes("mode", n, ModeCall[n])
  <2>1. Len(ModeCall) = 12
    BY DEF ModeCall
  <2> QED
    BY <2>1, GoesBySteps, CallSteps, Zenon DEF VideoCalls
<1>2. /\ 1 \in 1..12 /\ 2 \in 1..12 /\ 3 \in 1..12 /\ 4 \in 1..12
      /\ 5 \in 1..12 /\ 6 \in 1..12 /\ 7 \in 1..12 /\ 8 \in 1..12
      /\ 9 \in 1..12 /\ 10 \in 1..12 /\ 11 \in 1..12 /\ 12 \in 1..12
  OBVIOUS
<1> QED
  BY <1>1, <1>2 DEF ModeCall

LEMMA InitGoes ==
    /\ Goes("init", 1, "spin") /\ Goes("init", 2, "roles")
    /\ Goes("init", 3, "zero") /\ Goes("init", 4, "clear")
<1>1. \A n \in 1..4 : Goes("init", n, InitCall[n])
  <2>1. Len(InitCall) = 4
    BY DEF InitCall
  <2> QED
    BY <2>1, GoesBySteps, CallSteps, Zenon DEF VideoCalls
<1>2. 1 \in 1..4 /\ 2 \in 1..4 /\ 3 \in 1..4 /\ 4 \in 1..4
  OBVIOUS
<1> QED
  BY <1>1, <1>2 DEF InitCall

-----------------------------------------------------------------------------
(***************************************************************************)
(* Which action a step of a call is, by its name.                          *)
(***************************************************************************)

LEMMA VideoStepIs ==
    ASSUME CallStep
    PROVE  /\ todo # <<>> /\ isr = Idle
           /\ Head(todo) = "read" => ReadSwap
           /\ Head(todo) = "use" => UseSwap
           /\ Head(todo) = "choose" => Choose
           /\ Head(todo) = "free" => Choose
           /\ Head(todo) = "kick" => Kick
           /\ Head(todo) = "rekick" => Kick
           /\ Head(todo) = "mark" => Mark
           /\ Head(todo) = "spin" => Spin
           /\ Head(todo) = "fence" => Fence
           /\ Head(todo) = "roles" => Roles
           /\ Head(todo) = "zero" => Roles
           /\ Head(todo) = "clear" => Clear
BY DEF CallStep, ReadSwap, UseSwap, Choose, Kick, Mark, Spin, Fence, Roles,
       Clear, Store, Claim, TryUpload, WaitReady, WriteBank, Commit, Settle, Do

PaletteStep ==
    Store \/ Claim \/ TryUpload \/ WaitReady \/ WriteBank \/ Commit \/ Settle

LEMMA PaletteStepIs ==
    ASSUME CallStep, Head(todo) \in PaletteSteps
    PROVE  PaletteStep
BY DEF CallStep, ReadSwap, UseSwap, Choose, Kick, Mark, Spin, Fence, Roles,
       Clear, PaletteStep, PaletteSteps, Do

\* The steps of the palette leave the pictures and the roles alone.
LEMMA PaletteStepKeeps ==
    ASSUME PaletteStep
    PROVE  /\ isr = Idle /\ Head(todo) \in PaletteSteps /\ todo # <<>>
           /\ UNCHANGED <<phase, showing, ready, pending, consumed, irq, frozen,
                          opened, queue, draw, display, next, kicked, fresh,
                          presents, program, sample, isr, content, frames, seen,
                          settled, gaveUp, torn>>
           /\ flipped' = IF todo' = <<>> THEN None ELSE flipped
           /\ masked' = (masked /\ todo' # <<>>)
BY DEF PaletteStep, Store, Claim, TryUpload, WaitReady, WriteBank, Commit,
       Settle, Do, SameVideo, SameCall, SameSwap, SameRoles, hwVars, menuVars,
       roleVars, frameVars, PaletteSteps
-----------------------------------------------------------------------------
(***************************************************************************)
(* Sets of frames.                                                         *)
(***************************************************************************)

LEMMA AtMostMore ==
    \A n, S, T : n \in Int /\ AtMost(n, S) /\ S \subseteq T /\ IsFiniteSet(T)
                    => AtMost(n, T)
<1> SUFFICES ASSUME NEW n \in Int, NEW S, NEW T, AtMost(n, S), S \subseteq T,
                    IsFiniteSet(T)
             PROVE  AtMost(n, T)
  OBVIOUS
<1>1. IsFiniteSet(S) /\ Cardinality(S) <= Cardinality(T)
  BY FS_Subset
<1>2. Cardinality(S) \in Nat /\ Cardinality(T) \in Nat
  BY <1>1, FS_CardinalityType
<1> QED
  BY <1>1, <1>2 DEF AtMost

LEMMA AtMostOneMore ==
    \A n, S, x, T : n \in Int /\ AtMost(n, S) /\ x \in T \ S /\ S \subseteq T
                       /\ IsFiniteSet(T)
                    => AtMost(n + 1, T)
<1> SUFFICES ASSUME NEW n \in Int, NEW S, NEW x, NEW T, AtMost(n, S),
                    x \in T \ S, S \subseteq T, IsFiniteSet(T)
             PROVE  AtMost(n + 1, T)
  OBVIOUS
<1>1. IsFiniteSet(S)
  BY FS_Subset
<1>2. IsFiniteSet(S \cup {x}) /\ Cardinality(S \cup {x}) = Cardinality(S) + 1
  BY <1>1, FS_AddElement
<1>3. S \cup {x} \subseteq T
  OBVIOUS
<1>4. Cardinality(S \cup {x}) <= Cardinality(T)
  BY <1>3, FS_Subset
<1>5. Cardinality(S) \in Nat /\ Cardinality(T) \in Nat
  BY <1>1, FS_CardinalityType
<1> QED
  BY <1>2, <1>4, <1>5 DEF AtMost

\* What the proofs about the pictures need of TypeOK.
Shapes ==
    /\ showing \in Buffers /\ ready \in Buffers
    /\ draw \in Buffers /\ display \in Buffers
    /\ next \in MaybeBuffer /\ flipped \in MaybeBuffer
    /\ sample \in Samples \cup {Idle} /\ isr \in Samples \cup {Idle}
    /\ queue \in Seq(Buffers)
    /\ presents \in Nat /\ frames \in Nat
    /\ {fresh, kicked, pending, settled} \subseteq BOOLEAN
    /\ content \in [Buffers -> 0..frames] /\ seen \subseteq 0..frames

FinitePictures == \A d \in BOOLEAN : IsFiniteSet(OnScreen \ Uncounted(d))

LEMMA FinitelyShown == Shapes => FinitePictures
<1> SUFFICES ASSUME Shapes PROVE FinitePictures
  OBVIOUS
<1>1. IsFiniteSet(0..frames)
  BY FS_Interval DEF Shapes
<1>2. OnScreen \subseteq 0..frames
  BY DEF OnScreen, Shapes
<1> QED
  BY <1>1, <1>2, FS_Subset DEF FinitePictures

-----------------------------------------------------------------------------
(***************************************************************************)
(* What the scanout, the GPU and the menu do to the buffers.               *)
(***************************************************************************)

viewVars == <<queue, pending, showing, ready, next, display, kicked, isr,
              content, frames, seen, phase, consumed, fresh, presents>>

\* Everything but the scanout's place and the swap slot.
Kernel == UNCHANGED <<next, display, kicked, isr, content, frames, fresh,
                      presents>>

Taken ==
    /\ pending /\ (phase = "active" \/ ~consumed)
    /\ showing' = ready /\ pending' = FALSE /\ consumed' = TRUE
    /\ phase' = "blank"
    /\ UNCHANGED <<ready, queue, seen>> /\ Kernel
Blanked ==
    /\ phase = "active"
    /\ UNCHANGED <<showing, ready, pending, queue, seen>> /\ Kernel
Lit ==
    /\ seen' = seen \cup {content[showing]}
    /\ UNCHANGED <<showing, ready, pending, queue, consumed>> /\ Kernel
Retired ==
    /\ queue # <<>> /\ ~pending
    /\ ready' = Head(queue) /\ pending' = TRUE /\ queue' = Tail(queue)
    /\ UNCHANGED <<showing, seen, consumed, phase>> /\ Kernel

LEMMA TakenKeeps ==
    ASSUME Shapes, Taken, NEW f \in MaybeBuffer, NEW d \in BOOLEAN, View(f, d),
           Shapes'
    PROVE  View(f, d)'
<1>1. Pipe(f)'
  BY DEF View, Pipe, Shown, Queued, Behind, Third, LastOf, Top, Taken, Kernel,
         Shapes, MaybeBuffer, Buffers, None
<1>2. (next # None => kicked)' /\ (isr # Idle => Fits(isr, f))'
  BY DEF View, Fits, Taken, Kernel
<1>3. Pictures(f, d)'
  BY DEF View, Pictures, Scanned, Taken, Kernel, Pipe, Shown, Queued, Behind,
         Third, LastOf, Top, Shapes
<1>4. Bound(d)'
  <2>1. OnScreen \ Uncounted(d) \subseteq (OnScreen \ Uncounted(d))'
    BY DEF OnScreen, Uncounted, Taken, Kernel, View, Pictures, Scanned
  <2>2. IsFiniteSet((OnScreen \ Uncounted(d))')
    <3>1. FinitePictures'
      BY FinitelyShown, PTL
    <3> QED
      BY <3>1 DEF FinitePictures
  <2>3. presents' = presents /\ presents \in Int
    BY DEF Taken, Kernel, Shapes
  <2> QED
    BY <2>1, <2>2, <2>3, AtMostMore DEF View, Bound
<1> QED
  BY <1>1, <1>2, <1>3, <1>4 DEF View

LEMMA BlankedKeeps ==
    ASSUME Shapes, Blanked, NEW f \in MaybeBuffer, NEW d \in BOOLEAN, View(f, d)
    PROVE  View(f, d)'
<1>1. Pipe(f)'
  BY DEF View, Pipe, Shown, Queued, Behind, Third, LastOf, Top, Blanked, Kernel
<1>2. (next # None => kicked)' /\ (isr # Idle => Fits(isr, f))'
  BY DEF View, Fits, Blanked, Kernel
<1>3. Pictures(f, d)'
  BY DEF View, Pictures, Scanned, Blanked, Kernel
<1>4. Bound(d)'
  BY DEF View, Bound, OnScreen, Uncounted, Blanked, Kernel
<1> QED
  BY <1>1, <1>2, <1>3, <1>4 DEF View

LEMMA LitKeeps ==
    ASSUME Shapes, Lit, NEW f \in MaybeBuffer, NEW d \in BOOLEAN, View(f, d)
    PROVE  View(f, d)'
<1>1. Pipe(f)'
  BY DEF View, Pipe, Shown, Queued, Behind, Third, LastOf, Top, Lit, Kernel
<1>2. (next # None => kicked)' /\ (isr # Idle => Fits(isr, f))'
  BY DEF View, Fits, Lit, Kernel
<1>3. Pictures(f, d)'
  BY DEF View, Pictures, Scanned, Lit, Kernel
<1>4. Bound(d)'
  <2>1. (OnScreen \ Uncounted(d))' = OnScreen \ Uncounted(d)
    BY DEF OnScreen, Uncounted, Lit, Kernel
  <2> QED
    BY <2>1 DEF View, Bound, Lit, Kernel
<1> QED
  BY <1>1, <1>2, <1>3, <1>4 DEF View

LEMMA RetiredKeeps ==
    ASSUME Shapes, Retired, NEW f \in MaybeBuffer, NEW d \in BOOLEAN, View(f, d)
    PROVE  View(f, d)'
<1>1. Behind(f)
  BY DEF View, Pipe, Shown, Queued, Behind, Third, Retired
<1>2. ready' = f /\ queue' = <<>>
  BY <1>1 DEF Behind, Retired
<1>3. Pipe(f)'
  BY <1>1, <1>2 DEF Pipe, Queued, Behind, LastOf, Top, Retired, Kernel
<1>4. f # next
  BY <1>1 DEF Behind, Top
<1>5. (next # None => kicked)' /\ (isr # Idle => Fits(isr, f))'
  BY <1>1, <1>2, <1>4 DEF View, Fits, Retired, Kernel, Behind
<1>6. Pictures(f, d)'
  <2>1. NotAfter(content[showing], content[f])
    BY <1>1 DEF View, Pictures, Behind, NotAfter, Shapes, MaybeBuffer
  <2>2. content'[showing'] = content[showing] /\ content'[ready'] = content[f]
    BY <1>2 DEF Retired, Kernel
  <2>3. NotAfter(content'[showing'], content'[ready'])
    BY <2>1, <2>2
  <2> QED
    BY <1>1, <2>3 DEF View, Pictures, Scanned, Behind, Retired, Kernel
<1>7. Bound(d)'
  BY DEF View, Bound, OnScreen, Uncounted, Retired, Kernel
<1> QED
  BY <1>3, <1>5, <1>6, <1>7 DEF View

\* A register value read now fits the kernel's view.
LEMMA SwapFits ==
    ASSUME Shapes, NEW f \in MaybeBuffer, NEW d \in BOOLEAN, View(f, d)
    PROVE  Fits(Swap, f)
BY DEF View, Fits, Pipe, Shown, Queued, Behind, Third, LastOf, Top, Swap,
   Shapes,
       MaybeBuffer, Buffers, None

\* What is kept when only what does not concern the buffers changes.
LEMMA SameKeeps ==
    ASSUME UNCHANGED viewVars, NEW f, NEW d, View(f, d)
    PROVE  View(f, d)'
BY DEF viewVars, View, Pipe, Shown, Queued, Behind, Third, LastOf, Top, Fits,
       Pictures, Scanned, Bound, OnScreen, Uncounted

-----------------------------------------------------------------------------
(***************************************************************************)
(* sync_swap_state with a register value that fits.                        *)
(***************************************************************************)

Synced(s) ==
    /\ s \in Samples /\ SyncWith(s) /\ isr' = Idle
    /\ UNCHANGED <<queue, pending, showing, ready, content, frames, seen, phase,
                   consumed>>

LEMMA SyncedKeeps ==
    ASSUME Shapes, NEW s, Synced(s), NEW f \in MaybeBuffer, NEW d \in BOOLEAN,
           View(f, d), Fits(s, f), Shapes'
    PROVE  /\ View(f, d)'
           /\ next = None => next' = None /\ display' = s.disp
           /\ next # None /\ (next = s.disp \/ ~s.pend)
                 => next' = None /\ display' = next
           /\ next # None /\ ~(next = s.disp \/ ~s.pend)
                 => next' = next /\ display' = display
<1> DEFINE retires == next = s.disp \/ ~s.pend
<1>0. s.pend \in BOOLEAN /\ s.disp \in Buffers
  BY DEF Synced, Samples
<1>1. CASE next = None
  <2>1. /\ presents' = presents /\ fresh' = fresh /\ display' = s.disp
        /\ next' = None
    BY <1>1 DEF Synced, SyncWith, Presented, Shapes
  <2>2. Pipe(f)'
    BY <1>1, <2>1 DEF View, Fits, Pipe, Shown, Queued, Behind, Third, LastOf,
       Top, Synced
  <2>3. Pictures(f, d)'
    BY <1>1, <2>1 DEF View, Pictures, Scanned, Synced
  <2>4. Bound(d)'
    BY <1>1, <2>1 DEF View, Bound, OnScreen, Uncounted, Synced
  <2> QED
    BY <1>1, <2>1, <2>2, <2>3, <2>4 DEF View, Synced
<1>2. CASE next # None /\ ~retires
  <2>1. /\ presents' = presents /\ fresh' = fresh /\ display' = display
        /\ next' = next /\ kicked' = TRUE
    BY <1>0, <1>2 DEF Synced, SyncWith, Presented, Fits, Shapes
  <2>2. Pipe(f)'
    BY <1>2, <2>1 DEF View, Pipe, Shown, Queued, Behind, Third, LastOf, Top,
       Synced
  <2>3. Pictures(f, d)'
    BY <1>2, <2>1 DEF View, Pictures, Scanned, Synced
  <2>4. Bound(d)'
    BY <1>2, <2>1 DEF View, Bound, OnScreen, Uncounted, Synced
  <2> QED
    BY <1>2, <2>1, <2>2, <2>3, <2>4 DEF View, Synced
<1>3. CASE next # None /\ retires
  <2>1. kicked
    BY <1>3 DEF View
  <2>2. /\ display' = next /\ next' = None
        /\ fresh' = (fresh /\ s.pend)
        /\ presents' = IF ~s.pend /\ fresh THEN presents + 1 ELSE presents
    BY <1>0, <1>3, <2>1 DEF Synced, SyncWith, Presented
  <2>3. ~(pending /\ ready = next)
    BY <1>3 DEF Fits
  <2>4. Pipe(f)'
    BY <1>3, <2>2, <2>3 DEF View, Pipe, Shown, Queued, Behind, Third, LastOf,
       Top, Synced
  <2>5. Pictures(f, d)'
    BY <1>3, <2>2 DEF View, Pictures, Scanned, Synced
  <2>6. content[next] \in OnScreen
    <3>1. showing = next \/ (f # None /\ showing = f)
      BY <1>3, <2>3 DEF View, Pipe, Shown, Queued, Behind, Third, LastOf, Top
    <3> QED
      BY <1>3, <3>1 DEF View, Pictures, OnScreen
  <2>7. Bound(d)'
    <3> DEFINE S == OnScreen \ Uncounted(d)
               T == (OnScreen \ Uncounted(d))'
    <3>1. S \subseteq T
      BY <1>3, <2>2 DEF OnScreen, Uncounted, Synced
    <3>2. IsFiniteSet(T)
      <4>1. FinitePictures'
        BY FinitelyShown, PTL
      <4> QED
        BY <4>1 DEF FinitePictures
    <3>3. AtMost(presents, S) /\ presents \in Int
      BY DEF View, Bound, Shapes
    <3>4. CASE ~s.pend /\ fresh
      <4>1. content[next] \in T \ S
        BY <1>3, <2>2, <2>6, <3>4 DEF OnScreen, Uncounted, Synced, View,
           Pictures
      <4>2. presents' = presents + 1
        BY <2>2, <3>4
      <4> HIDE DEF S, T
      <4>3. AtMost(presents + 1, T)
        BY <3>1, <3>2, <3>3, <4>1, AtMostOneMore
      <4> QED
        BY <4>2, <4>3 DEF Bound, T
    <3>5. CASE ~(~s.pend /\ fresh)
      <4>1. presents' = presents
        BY <2>2, <3>5
      <4> HIDE DEF S, T
      <4>2. AtMost(presents, T)
        BY <3>1, <3>2, <3>3, AtMostMore
      <4> QED
        BY <4>1, <4>2 DEF Bound, T
    <3> QED
      BY <3>4, <3>5
  <2> QED
    BY <1>3, <2>2, <2>4, <2>5, <2>7 DEF View, Synced
<1> QED
  BY <1>1, <1>2, <1>3
-----------------------------------------------------------------------------
(***************************************************************************)
(* The steps that are not the application's.                               *)
(***************************************************************************)

Outside ==
    \/ VsyncEdge \/ EarlyBlank \/ ActiveStart \/ GpuFlip
    \/ OpenMenu \/ CloseMenu \/ Interrupt \/ Service

OutsideSame ==
    UNCHANGED <<program, todo, masked, sample, flipped, draw, content, frames,
                settled, gaveUp>>

\* A step outside the application is one of six, for the buffers.
LEMMA OutsideIs ==
    ASSUME Outside
    PROVE  /\ OutsideSame
           /\ \/ (Taken \/ Blanked \/ Lit \/ Retired) /\ torn' = torn
              \/ UNCHANGED viewVars /\ torn' = torn
              \/ /\ isr = Idle /\ isr' = Swap /\ torn' = (torn \/ InWindow)
                 /\ UNCHANGED <<queue, pending, showing, ready, next, display,
                                kicked, content, frames, seen, phase, consumed,
                                fresh, presents>>
              \/ isr # Idle /\ (isr \in Samples => Synced(isr)) /\ torn' = torn
<1>1. CASE VsyncEdge
  <2>1. OutsideSame /\ torn' = torn
    BY <1>1 DEF VsyncEdge, OutsideSame, callVars, roleVars, frameVars, noteVars
  <2>2. CASE pending /\ Running
    <3>1. Taken
      BY <1>1, <2>2 DEF VsyncEdge, Consume, Taken, Kernel, roleVars, frameVars
    <3> QED
      BY <2>1, <3>1
  <2>3. CASE ~(pending /\ Running)
    <3>1. Blanked
      BY <1>1, <2>3 DEF VsyncEdge, Blanked, Kernel, roleVars, frameVars
    <3> QED
      BY <2>1, <3>1
  <2> QED
    BY <2>2, <2>3
<1>2. CASE EarlyBlank
  <2>1. OutsideSame /\ torn' = torn
    BY <1>2 DEF EarlyBlank, OutsideSame, callVars, roleVars, frameVars, noteVars
  <2>2. Taken
    BY <1>2 DEF EarlyBlank, MaySwapLate, Consume, Taken, Kernel, roleVars,
       frameVars
  <2> QED
    BY <2>1, <2>2
<1>3. CASE ActiveStart
  <2>1. OutsideSame /\ torn' = torn
    BY <1>3 DEF ActiveStart, OutsideSame, callVars, roleVars, noteVars
  <2>2. Lit
    BY <1>3 DEF ActiveStart, Lit, Kernel, roleVars
  <2> QED
    BY <2>1, <2>2
<1>4. CASE GpuFlip
  <2>1. OutsideSame /\ torn' = torn
    BY <1>4 DEF GpuFlip, OutsideSame, callVars, roleVars, frameVars, noteVars
  <2>2. Retired
    BY <1>4 DEF GpuFlip, CanFlip, Retired, Kernel, roleVars, frameVars
  <2> QED
    BY <2>1, <2>2
<1>5. CASE OpenMenu \/ CloseMenu
  <2>1. OutsideSame /\ torn' = torn
    BY <1>5 DEF OpenMenu, CloseMenu, OutsideSame, callVars, roleVars, frameVars,
       noteVars
  <2>2. UNCHANGED viewVars
    BY <1>5 DEF OpenMenu, CloseMenu, viewVars, hwVars, roleVars, frameVars
  <2> QED
    BY <2>1, <2>2
<1>6. CASE Interrupt
  <2>1. OutsideSame
    BY <1>6 DEF Interrupt, OutsideSame, callVars, roleVars, frameVars
  <2>2. /\ isr = Idle /\ isr' = Swap /\ torn' = (torn \/ InWindow)
        /\ UNCHANGED <<queue, pending, showing, ready, next, display,
                       kicked, content, frames, seen, phase, consumed,
                       fresh, presents>>
    BY <1>6 DEF Interrupt, IrqOpen, roleVars, frameVars
  <2> QED
    BY <2>1, <2>2
<1>7. CASE Service
  <2>1. OutsideSame /\ torn' = torn
    BY <1>7 DEF Service, SyncWith, OutsideSame, callVars, frameVars, noteVars
  <2>2. isr # Idle /\ (isr \in Samples => Synced(isr))
    BY <1>7 DEF Service, Synced, hwVars, frameVars
  <2> QED
    BY <2>1, <2>2
<1> QED
  BY <1>1, <1>2, <1>3, <1>4, <1>5, <1>6, <1>7 DEF Outside

LEMMA OutsideKeeps ==
    ASSUME Shapes, Shapes', Outside, NEW f \in MaybeBuffer, NEW d \in BOOLEAN,
           View(f, d)
    PROVE  View(f, d)'
<1>1. CASE Taken
  BY <1>1, TakenKeeps
<1>2. CASE Blanked
  BY <1>2, BlankedKeeps
<1>3. CASE Lit
  BY <1>3, LitKeeps
<1>4. CASE Retired
  BY <1>4, RetiredKeeps
<1>5. CASE UNCHANGED viewVars
  BY <1>5, SameKeeps
<1>6. CASE isr' = Swap /\ UNCHANGED <<queue, pending, showing, ready, next,
                                      display, kicked, content, frames, seen,
                                      phase, consumed, fresh, presents>>
  <2>1. Fits(Swap, f)
    BY SwapFits
  <2>2. Fits(isr, f)'
    BY <1>6, <2>1 DEF Fits
  <2> QED
    BY <1>6, <2>2 DEF View, Pipe, Shown, Queued, Behind, Third, LastOf, Top,
       Pictures, Scanned, Bound, OnScreen, Uncounted
<1>7. CASE isr # Idle /\ (isr \in Samples => Synced(isr))
  <2>1. isr \in Samples /\ Synced(isr) /\ Fits(isr, f)
    BY <1>7 DEF Shapes, View
  <2> QED
    BY <2>1, SyncedKeeps
<1> QED
  BY <1>1, <1>2, <1>3, <1>4, <1>5, <1>6, <1>7, OutsideIs

\* What a step outside the application leaves true of the roles and the slots.
LEMMA OutsideLeaves ==
    ASSUME Shapes, Shapes', Outside, NEW f \in MaybeBuffer, NEW d \in BOOLEAN,
           View(f, d)
    PROVE  /\ queue = <<>> => queue' = <<>>
           /\ next = None => next' = None
           /\ queue = <<>> /\ ~pending => ~pending'
           /\ isr = Idle => next' = next /\ display' = display
           /\ f = None /\ next = None => display' = display
           /\ f = None /\ Quiet => Quiet'
           /\ f = None /\ Spare => Spare'
<1>0. OutsideSame
  BY OutsideIs
<1>1. CASE Taken \/ Blanked \/ Lit \/ UNCHANGED viewVars
  BY <1>0, <1>1 DEF Taken, Blanked, Lit, Kernel, viewVars, OutsideSame, Quiet,
     Spare
<1>2. CASE Retired
  BY <1>0, <1>2 DEF Retired, Kernel, OutsideSame, Quiet, Spare
<1>3. CASE isr' = Swap /\ UNCHANGED <<queue, pending, showing, ready, next,
                                      display, kicked, content, frames, seen,
                                      phase, consumed, fresh, presents>>
  BY <1>0, <1>3 DEF OutsideSame, Quiet, Spare
<1>4. CASE isr # Idle /\ (isr \in Samples => Synced(isr))
  <2>1. isr \in Samples /\ Synced(isr) /\ Fits(isr, f)
    BY <1>4 DEF Shapes, View
  <2>2. /\ next = None => next' = None /\ display' = isr.disp
        /\ next # None => \/ next' = None /\ display' = next
                          \/ next' = next /\ display' = display
    BY <2>1, SyncedKeeps
  <2>3. UNCHANGED <<queue, pending, showing>>
    BY <2>1 DEF Synced
  <2>4. f = None /\ next = None => isr.disp = display
    BY <2>1 DEF Fits
  <2> QED
    BY <1>0, <1>4, <2>2, <2>3, <2>4 DEF OutsideSame, Quiet, Spare, Shapes,
       Buffers, None
<1> QED
  BY <1>1, <1>2, <1>3, <1>4, OutsideIs

\* A register value that was read keeps fitting, the interrupt kept out.
LEMMA OutsideFits ==
    ASSUME Shapes, Shapes', Outside, NEW f \in MaybeBuffer, NEW d \in BOOLEAN,
           View(f, d), NEW s, Fits(s, f), isr = Idle, InWindow, ~torn'
    PROVE  isr' = Idle /\ Fits(s, f)'
<1>1. CASE Taken \/ Blanked \/ Lit \/ UNCHANGED viewVars
  BY <1>1 DEF Taken, Blanked, Lit, Kernel, viewVars, Fits
<1>2. CASE Retired
  <2>1. Behind(f)
    BY <1>2 DEF View, Pipe, Shown, Queued, Behind, Third, Retired
  <2>2. ready' = f /\ f # next
    BY <1>2, <2>1 DEF Behind, Retired, Top
  <2> QED
    BY <1>2, <2>1, <2>2 DEF Retired, Kernel, Fits, Behind
<1> QED
  BY <1>1, <1>2, OutsideIs

LEMMA OutsideRekicked ==
    ASSUME Shapes, Shapes', Outside, Rekicked
    PROVE  Rekicked' /\ display' = display /\ next' = next
<1> USE DEF Rekicked
<1>0. FinitePictures'
  BY FinitelyShown, PTL
<1>1. CASE Taken
  <2>1. showing' = showing
    BY <1>1 DEF Taken
  <2>2. Bound(FALSE)'
    BY <1>1, <2>1 DEF Taken, Kernel, Bound, OnScreen, Uncounted
  <2> QED
    BY <1>1, <2>1, <2>2 DEF Taken, Kernel, Scanned
<1>2. CASE Blanked
  BY <1>2 DEF Blanked, Kernel, Scanned, Bound, OnScreen, Uncounted
<1>3. CASE Lit
  <2>1. OnScreen' = OnScreen /\ Uncounted(FALSE)' = Uncounted(FALSE)
    BY <1>3 DEF Lit, Kernel, OnScreen, Uncounted
  <2> QED
    BY <1>3, <2>1 DEF Lit, Kernel, Scanned, Bound
<1>4. CASE UNCHANGED viewVars
  BY <1>4 DEF viewVars, Scanned, Bound, OnScreen, Uncounted
<1>5. CASE isr' = Swap /\ UNCHANGED <<queue, pending, showing, ready, next,
                                      display, kicked, content, frames, seen,
                                      phase, consumed, fresh, presents>>
  BY <1>5 DEF Swap, Scanned, Bound, OnScreen, Uncounted
<1>6. CASE isr # Idle /\ (isr \in Samples => Synced(isr))
  <2>1. isr \in Samples /\ Synced(isr) /\ isr.disp = display
    BY <1>6 DEF Shapes
  <2>2. /\ presents' = presents /\ fresh' = fresh /\ display' = display
        /\ next' = None
    BY <2>1 DEF Synced, SyncWith, Presented, Shapes
  <2> QED
    BY <2>1, <2>2 DEF Synced, Scanned, Bound, OnScreen, Uncounted
<1> QED
  BY <1>1, <1>2, <1>3, <1>4, <1>5, <1>6, OutsideIs DEF Retired

LEMMA OutsideGood ==
    ASSUME Outside
    PROVE  /\ Good' => Good /\ ~torn'
           /\ UNCHANGED <<todo, flipped, sample, settled, draw, content,
                          frames>>
<1>1. OutsideSame
  BY OutsideIs
<1>2. ~torn' => ~torn
  BY OutsideIs
<1> QED
  BY <1>1, <1>2 DEF Good, OutsideSame

\* The conjunction a place between reading and using the register keeps.
LEMMA OutsideFresh ==
    ASSUME Shapes, Shapes', Outside, NEW f \in MaybeBuffer, NEW d \in BOOLEAN,
           Good => View(f, d), Fresh(sample, f), todo # <<>>, Head(todo) = "use"
    PROVE  /\ Fresh(sample, f)'
           /\ Good' => UNCHANGED <<next, display>>
<1>1. InWindow
  BY DEF InWindow
<1>2. ASSUME Good'
      PROVE  /\ isr' = Idle /\ Fits(sample, f)'
             /\ UNCHANGED <<next, display>>
  <2>1. Good /\ ~torn'
    BY <1>2, OutsideGood
  <2>2. View(f, d) /\ isr = Idle /\ Fits(sample, f)
    BY <2>1 DEF Fresh
  <2>3. isr' = Idle /\ UNCHANGED <<next, display>>
    BY <1>1, <2>1, <2>2, OutsideFits, OutsideLeaves
  <2>4. \A s : Fits(s, f) => Fits(s, f)'
    BY <1>1, <2>1, <2>2, OutsideFits
  <2>5. sample' = sample
    BY OutsideGood
  <2>6. Fits(sample, f)'
    BY <2>2, <2>4, <2>5
  <2> QED
    BY <2>3, <2>6
<1> QED
  BY <1>2, OutsideGood DEF Fresh

LEMMA OutsideRest ==
    ASSUME Shapes, Shapes', Outside, AtRest
    PROVE  AtRest'
<1>1. ASSUME Good' PROVE View(None, FALSE)' /\ Spare' /\ (settled' => Quiet')
  <2>1. View(None, FALSE) /\ Spare /\ (settled => Quiet)
    BY <1>1, OutsideGood DEF AtRest
  <2>2. View(None, FALSE)'
    BY <2>1, OutsideKeeps DEF MaybeBuffer
  <2>3. Spare' /\ (Quiet => Quiet')
    BY <2>1, OutsideLeaves DEF MaybeBuffer
  <2>4. settled' = settled
    BY OutsideGood
  <2> QED
    BY <2>1, <2>2, <2>3, <2>4
<1> QED
  BY <1>1, OutsideGood DEF AtRest

LEMMA OutsideView ==
    ASSUME Shapes, Shapes', Outside, NEW f \in MaybeBuffer, NEW d \in BOOLEAN,
           Good => View(f, d), Good'
    PROVE  /\ Good /\ View(f, d)'
           /\ queue = <<>> => queue' = <<>>
           /\ next = None => next' = None
           /\ queue = <<>> /\ ~pending => ~pending'
           /\ f = None => queue = <<>>
           /\ f = None /\ next = None => display' = display
           /\ f = None /\ Quiet => Quiet'
           /\ f = None /\ Spare => Spare'
<1>1. Good /\ View(f, d)
  BY OutsideGood
<1>2. f = None => queue = <<>>
  BY <1>1 DEF View, Pipe, Shown, Queued, Behind, Third
<1> QED
  BY <1>1, <1>2, OutsideKeeps, OutsideLeaves

LEMMA OutsideFlip ==
    ASSUME Shapes, Shapes', Outside, NEW f \in Buffers, AtFlip(f)
    PROVE  AtFlip(f)'
<1>0. /\ f \in MaybeBuffer /\ None \in MaybeBuffer
      /\ TRUE \in BOOLEAN /\ FALSE \in BOOLEAN
  BY DEF MaybeBuffer
<1>. UNCHANGED <<todo, flipped, sample, settled, draw, content, frames>>
  BY OutsideGood
<1>1. FlipDrawn(f) => FlipDrawn(f)'
  <2> SUFFICES ASSUME FlipDrawn(f) PROVE FlipDrawn(f)'
    OBVIOUS
  <2>1. Good => View(None, TRUE)
    BY DEF FlipDrawn
  <2>2. ASSUME Good'
        PROVE  /\ Good /\ View(None, TRUE)'
               /\ queue = <<>> => queue' = <<>>
               /\ next = None => next' = None
               /\ queue = <<>> /\ ~pending => ~pending'
               /\ queue = <<>>
               /\ next = None => display' = display
               /\ (Quiet => Quiet') /\ (Spare => Spare')
    BY <1>0, <2>1, <2>2, OutsideView
  <2> QED
    BY <2>2 DEF FlipDrawn, Before, Drawn, Quiet
<1>2. FlipSampled(f) => FlipSampled(f)'
  <2> SUFFICES ASSUME FlipSampled(f) PROVE FlipSampled(f)'
    OBVIOUS
  <2>1. (Good => View(None, TRUE)) /\ Fresh(sample, None)
    BY DEF FlipSampled
  <2>2. todo # <<>> /\ Head(todo) = "use"
    BY FlipGoes DEF FlipSampled, Before, Goes
  <2>3. Fresh(sample, None)' /\ (Good' => UNCHANGED <<next, display>>)
    BY <1>0, <2>1, <2>2, OutsideFresh
  <2>4. Good' => /\ Good /\ View(None, TRUE)'
                 /\ queue = <<>> => queue' = <<>>
                 /\ queue = <<>> /\ ~pending => ~pending'
                 /\ queue = <<>> /\ (Quiet => Quiet')
                 /\ Spare => Spare'
    BY <1>0, <2>1, OutsideView
  <2> QED
    BY <2>3, <2>4 DEF FlipSampled, Before, Drawn
<1>3. FlipKicked(f) => FlipKicked(f)'
  <2> SUFFICES ASSUME FlipKicked(f) PROVE FlipKicked(f)'
    OBVIOUS
  <2>1. Good => View(f, TRUE)
    BY DEF FlipKicked
  <2>2. ASSUME Good'
        PROVE  /\ Good /\ View(f, TRUE)'
               /\ queue = <<>> => queue' = <<>>
               /\ next = None => next' = None
               /\ queue = <<>> /\ ~pending => ~pending'
    BY <1>0, <2>1, <2>2, OutsideView
  <2> QED
    BY <2>2 DEF FlipKicked, Before
<1>4. FlipMarked => FlipMarked'
  <2> SUFFICES ASSUME FlipMarked PROVE FlipMarked'
    OBVIOUS
  <2>1. Good => View(None, FALSE)
    BY DEF FlipMarked
  <2>2. ASSUME Good'
        PROVE  /\ Good /\ View(None, FALSE)'
               /\ queue = <<>> => queue' = <<>>
               /\ next = None => next' = None
               /\ queue = <<>> /\ ~pending => ~pending'
               /\ queue = <<>>
               /\ next = None => display' = display
               /\ (Quiet => Quiet') /\ (Spare => Spare')
    BY <1>0, <2>1, <2>2, OutsideView
  <2> QED
    BY <2>2 DEF FlipMarked, Before
<1> QED
  BY <1>1, <1>2, <1>3, <1>4 DEF AtFlip

LEMMA OutsideAcquire ==
    ASSUME Shapes, Shapes', Outside, NEW f \in Buffers, AtAcquire(f)
    PROVE  AtAcquire(f)'
<1>0. /\ f \in MaybeBuffer /\ None \in MaybeBuffer
      /\ TRUE \in BOOLEAN /\ FALSE \in BOOLEAN
  BY DEF MaybeBuffer
<1>. UNCHANGED <<todo, flipped, sample, settled, draw, content, frames>>
  BY OutsideGood
<1>1. AcqGiven(f) => AcqGiven(f)'
  <2> SUFFICES ASSUME AcqGiven(f) PROVE AcqGiven(f)'
    OBVIOUS
  <2>1. Good => View(f, TRUE)
    BY DEF AcqGiven
  <2>2. ASSUME Good'
        PROVE  /\ Good /\ View(f, TRUE)'
               /\ queue = <<>> => queue' = <<>>
               /\ next = None => next' = None
               /\ queue = <<>> /\ ~pending => ~pending'
    BY <1>0, <2>1, <2>2, OutsideView
  <2> QED
    BY <2>2 DEF AcqGiven, Before
<1>2. AcqSampled(f) => AcqSampled(f)'
  <2> SUFFICES ASSUME AcqSampled(f) PROVE AcqSampled(f)'
    OBVIOUS
  <2>1. (Good => View(f, TRUE)) /\ Fresh(sample, f)
    BY DEF AcqSampled
  <2>2. todo # <<>> /\ Head(todo) = "use"
    BY AcquireGoes DEF AcqSampled, Before, Goes
  <2>3. Fresh(sample, f)' /\ (Good' => UNCHANGED <<next, display>>)
    BY <1>0, <2>1, <2>2, OutsideFresh
  <2>4. Good' => /\ Good /\ View(f, TRUE)'
                 /\ queue = <<>> => queue' = <<>>
                 /\ queue = <<>> /\ ~pending => ~pending'
    BY <1>0, <2>1, OutsideView
  <2> QED
    BY <2>3, <2>4 DEF AcqSampled, Before
<1>3. AcqRetired(f) => AcqRetired(f)'
  <2> SUFFICES ASSUME AcqRetired(f) PROVE AcqRetired(f)'
    OBVIOUS
  <2>1. Good => View(f, TRUE)
    BY DEF AcqRetired
  <2>2. ASSUME Good'
        PROVE  /\ Good /\ View(f, TRUE)'
               /\ queue = <<>> => queue' = <<>>
               /\ next = None => next' = None
               /\ queue = <<>> /\ ~pending => ~pending'
    BY <1>0, <2>1, <2>2, OutsideView
  <2> QED
    BY <2>2 DEF AcqRetired, Before
<1>4. AcqSeen(f) => AcqSeen(f)'
  <2> SUFFICES ASSUME AcqSeen(f) PROVE AcqSeen(f)'
    OBVIOUS
  <2>1. (Good => View(f, TRUE)) /\ Fresh(sample, f)
    BY DEF AcqSeen
  <2>2. todo # <<>> /\ Head(todo) = "use"
    BY AcquireGoes DEF AcqSeen, Before, Goes
  <2>3. Fresh(sample, f)' /\ (Good' => UNCHANGED <<next, display>>)
    BY <1>0, <2>1, <2>2, OutsideFresh
  <2>4. Good' => /\ Good /\ View(f, TRUE)'
                 /\ queue = <<>> => queue' = <<>>
                 /\ queue = <<>> /\ ~pending => ~pending'
    BY <1>0, <2>1, OutsideView
  <2> QED
    BY <2>3, <2>4 DEF AcqSeen, Before
<1>5. AcqSynced(f) => AcqSynced(f)'
  <2> SUFFICES ASSUME AcqSynced(f) PROVE AcqSynced(f)'
    OBVIOUS
  <2>1. Good => View(f, TRUE)
    BY DEF AcqSynced
  <2>2. ASSUME Good'
        PROVE  /\ Good /\ View(f, TRUE)'
               /\ queue = <<>> => queue' = <<>>
               /\ next = None => next' = None
               /\ queue = <<>> /\ ~pending => ~pending'
    BY <1>0, <2>1, <2>2, OutsideView
  <2> QED
    BY <2>2 DEF AcqSynced, Before
<1>6. AcqMarked => AcqMarked'
  <2> SUFFICES ASSUME AcqMarked PROVE AcqMarked'
    OBVIOUS
  <2>1. Good => View(None, FALSE)
    BY DEF AcqMarked
  <2>2. ASSUME Good'
        PROVE  /\ Good /\ View(None, FALSE)'
               /\ queue = <<>> => queue' = <<>>
               /\ next = None => next' = None
               /\ queue = <<>> /\ ~pending => ~pending'
               /\ queue = <<>>
               /\ next = None => display' = display
               /\ (Quiet => Quiet') /\ (Spare => Spare')
    BY <1>0, <2>1, <2>2, OutsideView
  <2> QED
    BY <2>2 DEF AcqMarked, Before
<1>7. AcqAgain => AcqAgain'
  <2> SUFFICES ASSUME AcqAgain PROVE AcqAgain'
    OBVIOUS
  <2>1. (Good => View(None, FALSE)) /\ Fresh(sample, None)
    BY DEF AcqAgain
  <2>2. todo # <<>> /\ Head(todo) = "use"
    BY AcquireGoes DEF AcqAgain, Before, Goes
  <2>3. Fresh(sample, None)' /\ (Good' => UNCHANGED <<next, display>>)
    BY <1>0, <2>1, <2>2, OutsideFresh
  <2>4. Good' => /\ Good /\ View(None, FALSE)'
                 /\ queue = <<>> => queue' = <<>>
                 /\ queue = <<>> /\ ~pending => ~pending'
                 /\ queue = <<>> /\ (Quiet => Quiet')
                 /\ Spare => Spare'
    BY <1>0, <2>1, OutsideView
  <2> QED
    BY <2>3, <2>4 DEF AcqAgain, Before
<1> QED
  BY <1>1, <1>2, <1>3, <1>4, <1>5, <1>6, <1>7 DEF AtAcquire

LEMMA OutsideWait ==
    ASSUME Shapes, Shapes', Outside, AtWait
    PROVE  AtWait'
<1>0. None \in MaybeBuffer /\ TRUE \in BOOLEAN /\ FALSE \in BOOLEAN
  BY DEF MaybeBuffer
<1>. UNCHANGED <<todo, flipped, sample, settled, draw, content, frames>>
  BY OutsideGood
<1>1. WaitBegun => WaitBegun'
  <2> SUFFICES ASSUME WaitBegun PROVE WaitBegun'
    OBVIOUS
  <2>1. Good => View(None, FALSE)
    BY DEF WaitBegun
  <2>2. ASSUME Good'
        PROVE  /\ Good /\ View(None, FALSE)'
               /\ queue = <<>> => queue' = <<>>
               /\ next = None => next' = None
               /\ queue = <<>> /\ ~pending => ~pending'
               /\ queue = <<>>
               /\ next = None => display' = display
               /\ (Quiet => Quiet') /\ (Spare => Spare')
    BY <1>0, <2>1, <2>2, OutsideView
  <2> QED
    BY <2>2 DEF WaitBegun, Before
<1>2. WaitSpun => WaitSpun'
  <2> SUFFICES ASSUME WaitSpun PROVE WaitSpun'
    OBVIOUS
  <2>1. Good => View(None, FALSE)
    BY DEF WaitSpun
  <2>2. ASSUME Good'
        PROVE  /\ Good /\ View(None, FALSE)'
               /\ queue = <<>> => queue' = <<>>
               /\ next = None => next' = None
               /\ queue = <<>> /\ ~pending => ~pending'
               /\ queue = <<>>
               /\ next = None => display' = display
               /\ (Quiet => Quiet') /\ (Spare => Spare')
    BY <1>0, <2>1, <2>2, OutsideView
  <2> QED
    BY <2>2 DEF WaitSpun, Before
<1>3. WaitSampled => WaitSampled'
  <2> SUFFICES ASSUME WaitSampled PROVE WaitSampled'
    OBVIOUS
  <2>1. (Good => View(None, FALSE)) /\ Fresh(sample, None)
    BY DEF WaitSampled
  <2>2. todo # <<>> /\ Head(todo) = "use"
    BY WaitGoes DEF WaitSampled, Before, Goes
  <2>3. Fresh(sample, None)' /\ (Good' => UNCHANGED <<next, display>>)
    BY <1>0, <2>1, <2>2, OutsideFresh
  <2>4. Good' => /\ Good /\ View(None, FALSE)'
                 /\ queue = <<>> => queue' = <<>>
                 /\ queue = <<>> /\ ~pending => ~pending'
                 /\ queue = <<>> /\ (Quiet => Quiet')
                 /\ Spare => Spare'
    BY <1>0, <2>1, OutsideView
  <2> QED
    BY <2>3, <2>4 DEF WaitSampled, Before, Waited
<1> QED
  BY <1>1, <1>2, <1>3 DEF AtWait

LEMMA OutsideMode ==
    ASSUME Shapes, Shapes', Outside, NEW f \in Buffers, AtMode(f)
    PROVE  AtMode(f)'
<1>0. /\ f \in MaybeBuffer /\ None \in MaybeBuffer
      /\ TRUE \in BOOLEAN /\ FALSE \in BOOLEAN
  BY DEF MaybeBuffer
<1>. UNCHANGED <<todo, flipped, sample, settled, draw, content, frames>>
  BY OutsideGood
<1>1. ModeBegun => ModeBegun'
  <2> SUFFICES ASSUME ModeBegun PROVE ModeBegun'
    OBVIOUS
  <2>1. Good => View(None, FALSE)
    BY DEF ModeBegun
  <2>2. ASSUME Good'
        PROVE  /\ Good /\ View(None, FALSE)'
               /\ queue = <<>> => queue' = <<>>
               /\ next = None => next' = None
               /\ queue = <<>> /\ ~pending => ~pending'
               /\ queue = <<>>
               /\ next = None => display' = display
               /\ (Quiet => Quiet') /\ (Spare => Spare')
    BY <1>0, <2>1, <2>2, OutsideView
  <2> QED
    BY <2>2 DEF ModeBegun, Before
<1>2. ModeReset => ModeReset'
  <2> SUFFICES ASSUME ModeReset PROVE ModeReset'
    OBVIOUS
  <2>1. Good => View(None, FALSE)
    BY DEF ModeReset
  <2>2. ASSUME Good'
        PROVE  /\ Good /\ View(None, FALSE)'
               /\ queue = <<>> => queue' = <<>>
               /\ next = None => next' = None
               /\ queue = <<>> /\ ~pending => ~pending'
               /\ queue = <<>>
               /\ next = None => display' = display
               /\ (Quiet => Quiet') /\ (Spare => Spare')
    BY <1>0, <2>1, <2>2, OutsideView
  <2> QED
    BY <2>2 DEF ModeReset, Before, Quiet
<1>3. ModeCleared => ModeCleared'
  <2> SUFFICES ASSUME ModeCleared PROVE ModeCleared'
    OBVIOUS
  <2>1. Good => View(None, TRUE)
    BY DEF ModeCleared
  <2>2. ASSUME Good'
        PROVE  /\ Good /\ View(None, TRUE)'
               /\ queue = <<>> => queue' = <<>>
               /\ next = None => next' = None
               /\ queue = <<>> /\ ~pending => ~pending'
               /\ queue = <<>>
               /\ next = None => display' = display
               /\ (Quiet => Quiet') /\ (Spare => Spare')
    BY <1>0, <2>1, <2>2, OutsideView
  <2> QED
    BY <2>2 DEF ModeCleared, Before, Cleared, Quiet
<1>4. ModeSampled => ModeSampled'
  <2> SUFFICES ASSUME ModeSampled PROVE ModeSampled'
    OBVIOUS
  <2>1. (Good => View(None, TRUE)) /\ Fresh(sample, None)
    BY DEF ModeSampled
  <2>2. todo # <<>> /\ Head(todo) = "use"
    BY ModeGoes DEF ModeSampled, Before, Goes
  <2>3. Fresh(sample, None)' /\ (Good' => UNCHANGED <<next, display>>)
    BY <1>0, <2>1, <2>2, OutsideFresh
  <2>4. Good' => /\ Good /\ View(None, TRUE)'
                 /\ queue = <<>> => queue' = <<>>
                 /\ queue = <<>> /\ ~pending => ~pending'
                 /\ queue = <<>> /\ (Quiet => Quiet')
                 /\ Spare => Spare'
    BY <1>0, <2>1, OutsideView
  <2> QED
    BY <2>3, <2>4 DEF ModeSampled, Before, Cleared
<1>5. ModeKicked(f) => ModeKicked(f)'
  <2> SUFFICES ASSUME ModeKicked(f) PROVE ModeKicked(f)'
    OBVIOUS
  <2>1. Good => View(f, TRUE)
    BY DEF ModeKicked
  <2>2. ASSUME Good'
        PROVE  /\ Good /\ View(f, TRUE)'
               /\ queue = <<>> => queue' = <<>>
               /\ next = None => next' = None
               /\ queue = <<>> /\ ~pending => ~pending'
    BY <1>0, <2>1, <2>2, OutsideView
  <2> QED
    BY <2>2 DEF ModeKicked, Before
<1>6. ModeMarked => ModeMarked'
  <2> SUFFICES ASSUME ModeMarked PROVE ModeMarked'
    OBVIOUS
  <2>1. Good => View(None, FALSE)
    BY DEF ModeMarked
  <2>2. ASSUME Good'
        PROVE  /\ Good /\ View(None, FALSE)'
               /\ queue = <<>> => queue' = <<>>
               /\ next = None => next' = None
               /\ queue = <<>> /\ ~pending => ~pending'
               /\ queue = <<>>
               /\ next = None => display' = display
               /\ (Quiet => Quiet') /\ (Spare => Spare')
    BY <1>0, <2>1, <2>2, OutsideView
  <2> QED
    BY <2>2 DEF ModeMarked, Before
<1>7. ModeSpun => ModeSpun'
  <2> SUFFICES ASSUME ModeSpun PROVE ModeSpun'
    OBVIOUS
  <2>1. Good => View(None, FALSE)
    BY DEF ModeSpun
  <2>2. ASSUME Good'
        PROVE  /\ Good /\ View(None, FALSE)'
               /\ queue = <<>> => queue' = <<>>
               /\ next = None => next' = None
               /\ queue = <<>> /\ ~pending => ~pending'
               /\ queue = <<>>
               /\ next = None => display' = display
               /\ (Quiet => Quiet') /\ (Spare => Spare')
    BY <1>0, <2>1, <2>2, OutsideView
  <2> QED
    BY <2>2 DEF ModeSpun, Before
<1>8. ModeSeen => ModeSeen'
  <2> SUFFICES ASSUME ModeSeen PROVE ModeSeen'
    OBVIOUS
  <2>1. (Good => View(None, FALSE)) /\ Fresh(sample, None)
    BY DEF ModeSeen
  <2>2. todo # <<>> /\ Head(todo) = "use"
    BY ModeGoes DEF ModeSeen, Before, Goes
  <2>3. Fresh(sample, None)' /\ (Good' => UNCHANGED <<next, display>>)
    BY <1>0, <2>1, <2>2, OutsideFresh
  <2>4. Good' => /\ Good /\ View(None, FALSE)'
                 /\ queue = <<>> => queue' = <<>>
                 /\ queue = <<>> /\ ~pending => ~pending'
                 /\ queue = <<>> /\ (Quiet => Quiet')
                 /\ Spare => Spare'
    BY <1>0, <2>1, OutsideView
  <2> QED
    BY <2>3, <2>4 DEF ModeSeen, Before, Waited
<1>9. ModeSynced => ModeSynced'
  <2> SUFFICES ASSUME ModeSynced PROVE ModeSynced'
    OBVIOUS
  <2>1. Good => View(None, FALSE)
    BY DEF ModeSynced
  <2>2. ASSUME Good'
        PROVE  /\ Good /\ View(None, FALSE)'
               /\ queue = <<>> => queue' = <<>>
               /\ next = None => next' = None
               /\ queue = <<>> /\ ~pending => ~pending'
               /\ queue = <<>>
               /\ next = None => display' = display
               /\ (Quiet => Quiet') /\ (Spare => Spare')
    BY <1>0, <2>1, <2>2, OutsideView
  <2> QED
    BY <2>2 DEF ModeSynced, Before
<1> QED
  BY <1>1, <1>2, <1>3, <1>4, <1>5, <1>6, <1>7, <1>8, <1>9 DEF AtMode

LEMMA OutsideInit ==
    ASSUME Shapes, Shapes', Outside, AtInit
    PROVE  AtInit'
<1>0. None \in MaybeBuffer /\ TRUE \in BOOLEAN /\ FALSE \in BOOLEAN
  BY DEF MaybeBuffer
<1>. UNCHANGED <<todo, flipped, sample, settled, draw, content, frames>>
  BY OutsideGood
<1>1. InitBegun => InitBegun'
  <2> SUFFICES ASSUME InitBegun PROVE InitBegun'
    OBVIOUS
  <2>1. Good => View(None, FALSE)
    BY DEF InitBegun
  <2>2. ASSUME Good'
        PROVE  /\ Good /\ View(None, FALSE)'
               /\ queue = <<>> => queue' = <<>>
               /\ next = None => next' = None
               /\ queue = <<>> /\ ~pending => ~pending'
               /\ queue = <<>>
               /\ next = None => display' = display
               /\ (Quiet => Quiet') /\ (Spare => Spare')
    BY <1>0, <2>1, <2>2, OutsideView
  <2> QED
    BY <2>2 DEF InitBegun, Before
<1>2. InitReset => InitReset'
  <2> SUFFICES ASSUME InitReset PROVE InitReset'
    OBVIOUS
  <2>1. Good => View(None, FALSE)
    BY DEF InitReset
  <2>2. ASSUME Good'
        PROVE  /\ Good /\ View(None, FALSE)'
               /\ queue = <<>> => queue' = <<>>
               /\ next = None => next' = None
               /\ queue = <<>> /\ ~pending => ~pending'
               /\ queue = <<>>
               /\ next = None => display' = display
               /\ (Quiet => Quiet') /\ (Spare => Spare')
    BY <1>0, <2>1, <2>2, OutsideView
  <2> QED
    BY <2>2 DEF InitReset, Before, Quiet
<1> QED
  BY <1>1, <1>2 DEF AtInit

LEMMA OutsideVsync ==
    ASSUME Shapes, Shapes', Outside, AtVsync
    PROVE  AtVsync'
<1>0. None \in MaybeBuffer /\ FALSE \in BOOLEAN
  BY DEF MaybeBuffer
<1>. UNCHANGED <<todo, flipped, sample, settled, draw, content, frames>>
  BY OutsideGood
<1>1. VsyncBegun => VsyncBegun'
  <2> SUFFICES ASSUME VsyncBegun PROVE VsyncBegun'
    OBVIOUS
  <2>1. Good => View(None, FALSE)
    BY DEF VsyncBegun
  <2>2. ASSUME Good'
        PROVE  /\ Good /\ View(None, FALSE)'
               /\ (Quiet => Quiet') /\ (Spare => Spare')
    BY <1>0, <2>1, <2>2, OutsideView
  <2> QED
    BY <2>2 DEF VsyncBegun, Before
<1>2. VsyncKicked => VsyncKicked'
  <2> SUFFICES ASSUME VsyncKicked, Good' PROVE Rekicked' /\ Spare'
    BY DEF VsyncKicked, Before
  <2>1. Rekicked /\ Spare
    BY OutsideGood DEF VsyncKicked
  <2>2. Rekicked' /\ display' = display /\ next' = next
    BY <2>1, OutsideRekicked
  <2> QED
    BY <2>1, <2>2 DEF Spare
<1> QED
  BY <1>1, <1>2 DEF AtVsync

LEMMA OutsideVideo ==
    ASSUME Shapes, Shapes', Outside, IVideo
    PROVE  IVideo'
<1>1. CASE AtRest \/ AtWait \/ AtVsync \/ AtInit
  BY <1>1, OutsideRest, OutsideWait, OutsideVsync, OutsideInit DEF IVideo
<1>2. CASE \E f \in Buffers : AtFlip(f) \/ AtAcquire(f) \/ AtMode(f)
  <2>1. PICK f \in Buffers : AtFlip(f) \/ AtAcquire(f) \/ AtMode(f)
    BY <1>2
  <2>2. AtFlip(f)' \/ AtAcquire(f)' \/ AtMode(f)'
    BY <2>1, OutsideFlip, OutsideAcquire, OutsideMode
  <2> QED
    BY <2>2 DEF IVideo
<1> QED
  BY <1>1, <1>2 DEF IVideo
-----------------------------------------------------------------------------
(***************************************************************************)
(* What each step of a call does, by the variables it concerns.            *)
(***************************************************************************)

FlippedNext == flipped' = IF todo' = <<>> THEN None ELSE flipped

LEMMA FreeBuffer ==
    ASSUME display \in Buffers, next \in MaybeBuffer
    PROVE  PickFree \in Free
<1>1. \E i \in Free : \A j \in Free : i <= j
  <2>1. CASE 0 \in Free
    BY <2>1 DEF Free, Buffers
  <2>2. CASE 0 \notin Free /\ 1 \in Free
    BY <2>2 DEF Free, Buffers
  <2>3. CASE 0 \notin Free /\ 1 \notin Free
    <3>1. 2 \in Free
      BY <2>3 DEF Free, Buffers, MaybeBuffer, None
    <3> QED
      BY <2>3, <3>1 DEF Free, Buffers
  <2> QED
    BY <2>1, <2>2, <2>3
<1> QED
  BY <1>1 DEF PickFree

LEMMA ReadDoes ==
    ASSUME ReadSwap
    PROVE  /\ Proceed /\ FlippedNext /\ isr = Idle
           /\ sample' = Swap
           /\ UNCHANGED viewVars
           /\ UNCHANGED <<draw, settled, gaveUp, torn>>
BY DEF ReadSwap, Do, SameCall, SameSwap, hwVars, roleVars, frameVars, viewVars,
       FlippedNext

LEMMA UseDoes ==
    ASSUME UseSwap
    PROVE  /\ Proceed /\ FlippedNext /\ isr = Idle
           /\ sample \in Samples => Synced(sample)
           /\ UNCHANGED <<draw, settled, gaveUp, torn>>
<1>1. SyncWith(sample) /\ draw' = draw
  BY DEF UseSwap, SyncWith
<1> QED
  BY <1>1 DEF UseSwap, Do, SameCall, SameSwap, hwVars, frameVars, Synced,
              FlippedNext

LEMMA ChooseDoes ==
    ASSUME Shapes, Choose
    PROVE  /\ Proceed /\ FlippedNext /\ isr = Idle
           /\ draw' \in Free
           /\ draw \in Free /\ Head(todo) = "choose" => draw' = draw
           /\ UNCHANGED viewVars
           /\ UNCHANGED <<settled, gaveUp, torn>>
<1>1. PickFree \in Free
  BY FreeBuffer DEF Shapes
<1>2. draw' \in Free /\ (draw \in Free /\ Head(todo) = "choose" => draw' = draw)
  BY <1>1 DEF Choose, Do
<1> QED
  BY <1>2 DEF Choose, Do, SameCall, SameSwap, hwVars, frameVars, viewVars,
              FlippedNext

LEMMA KickDoes ==
    ASSUME Kick
    PROVE  /\ Proceed /\ FlippedNext /\ isr = Idle
           /\ Head(todo) = "kick" => ready' = draw
           /\ Head(todo) = "rekick" => ready' = display
           /\ pending' = TRUE
           /\ UNCHANGED <<queue, showing, next, display, kicked, isr, content,
                          frames, seen, phase, consumed, fresh, presents>>
           /\ UNCHANGED <<draw, settled, gaveUp, torn>>
BY DEF Kick, Do, SameCall, SameRoles, roleVars, frameVars, FlippedNext

LEMMA MarkDoes ==
    ASSUME Mark
    PROVE  /\ Proceed /\ FlippedNext /\ isr = Idle
           /\ kicked' = TRUE /\ fresh' = TRUE
           /\ next' = IF flipped = None THEN draw ELSE flipped
           /\ UNCHANGED <<queue, pending, showing, ready, display, isr, content,
                          frames, seen, phase, consumed, presents>>
           /\ UNCHANGED <<draw, settled, gaveUp, torn>>
BY DEF Mark, Do, SameCall, SameSwap, hwVars, frameVars, FlippedNext

LEMMA SpinDoes ==
    ASSUME Spin
    PROVE  /\ Proceed /\ FlippedNext /\ isr = Idle
           /\ Good' => Good /\ ~pending
           /\ UNCHANGED viewVars
           /\ UNCHANGED <<draw, settled, sample, torn>>
<1>1. ~gaveUp' => ~gaveUp /\ ~pending
  BY DEF Spin
<1> QED
  BY <1>1 DEF Spin, Do, SameCall, SameSwap, SameRoles, hwVars, roleVars,
              frameVars, viewVars, FlippedNext, Good

LEMMA FenceDoes ==
    ASSUME Fence
    PROVE  /\ Proceed /\ FlippedNext /\ isr = Idle
           /\ Good' => Good /\ queue = <<>> /\ UNCHANGED viewVars
           /\ UNCHANGED <<draw, settled, sample, torn>>
<1>1. ~gaveUp' => ~gaveUp /\ queue = <<>>
  BY DEF Fence
<1>2. queue = <<>> => UNCHANGED viewVars
  BY DEF Fence, SameCall, SameRoles, roleVars, frameVars, viewVars
<1> QED
  BY <1>1, <1>2 DEF Fence, Do, SameCall, SameRoles, roleVars, frameVars,
                    FlippedNext, Good

LEMMA RolesDoes ==
    ASSUME Roles
    PROVE  /\ Proceed /\ FlippedNext /\ isr = Idle
           /\ Head(todo) = "roles" => ResetRoles
           /\ Head(todo) = "zero"
                => presents' = 0 /\ UNCHANGED <<draw, display, next, kicked,
                                                fresh>>
           /\ UNCHANGED <<queue, pending, showing, ready, isr, content, frames,
                          seen, phase, consumed>>
           /\ UNCHANGED <<settled, gaveUp, torn>>
BY DEF Roles, Do, SameCall, SameSwap, hwVars, frameVars, FlippedNext

LEMMA ClearDoes ==
    ASSUME Clear
    PROVE  /\ Proceed /\ FlippedNext /\ isr = Idle
           /\ frames' = frames + 1
           /\ content' = [b \in Buffers |-> frames + 1]
           /\ seen' = seen \cup {content[showing], frames + 1}
           /\ UNCHANGED <<queue, pending, showing, ready, next, display, kicked,
                          isr, phase, consumed, fresh, presents>>
           /\ UNCHANGED <<draw, settled, gaveUp, torn>>
BY DEF Clear, Do, SameCall, SameSwap, hwVars, roleVars, FlippedNext

-----------------------------------------------------------------------------
(***************************************************************************)
(* What the steps of a call do to the buffers.                             *)
(***************************************************************************)

\* The frame just drawn is put in the swap slot.
LEMMA Kicks ==
    ASSUME Shapes, Kick, Head(todo) = "kick", View(None, TRUE), Quiet,
           NEW f \in Buffers, draw = f, f # display, content[f] = frames
    PROVE  View(f, TRUE)' /\ next' = None /\ queue' = <<>>
<1>. /\ ready' = f /\ pending' = TRUE /\ isr = Idle
     /\ UNCHANGED <<queue, showing, next, display, kicked, isr, content,
                    frames, seen, phase, consumed, fresh, presents>>
  BY KickDoes
<1>1. Pipe(f)'
  BY DEF Pipe, Queued, LastOf, Top, Quiet, Buffers, None
<1>2. Pictures(f, TRUE)'
  <2>1. NotAfter(content[showing], content[f])
    BY DEF NotAfter, Shapes
  <2>2. NotAfter(content'[showing'], content'[ready'])
    BY <2>1
  <2> QED
    BY <2>2 DEF View, Pictures, Scanned, Quiet
<1>3. Bound(TRUE)'
  BY DEF View, Bound, OnScreen, Uncounted
<1> QED
  BY <1>1, <1>2, <1>3 DEF View, Quiet

\* The buffer flipped becomes buf_ready.
LEMMA Marks ==
    ASSUME Shapes, Mark, NEW f \in Buffers, View(f, TRUE), next = None,
           queue = <<>>, f = IF flipped = None THEN draw ELSE flipped
    PROVE  View(None, FALSE)'
<1>. /\ kicked' = TRUE /\ fresh' = TRUE /\ next' = f /\ isr = Idle
     /\ UNCHANGED <<queue, pending, showing, ready, display, isr, content,
                    frames, seen, phase, consumed, presents>>
  BY MarkDoes
<1>0. f # None
  BY DEF Buffers, None
<1>1. Pipe(None)'
  BY <1>0 DEF View, Pipe, Shown, Queued, Behind, Third, LastOf, Top
<1>2. Pictures(None, FALSE)'
  BY <1>0 DEF View, Pictures, Scanned
<1>3. Bound(FALSE)'
  BY <1>0 DEF View, Bound, OnScreen, Uncounted, Pictures
<1> QED
  BY <1>1, <1>2, <1>3 DEF View

\* All buffers are cleared, none of them queued.
LEMMA Clears ==
    ASSUME Shapes, Shapes', Clear, View(None, FALSE), Quiet, draw # display,
           NEW d \in BOOLEAN
    PROVE  View(None, d)' /\ Cleared'
<1>. /\ frames' = frames + 1 /\ isr = Idle
     /\ content' = [b \in Buffers |-> frames + 1]
     /\ seen' = seen \cup {content[showing], frames + 1}
     /\ UNCHANGED <<queue, pending, showing, ready, next, display, kicked, isr,
                    phase, consumed, fresh, presents>>
     /\ draw' = draw
  BY ClearDoes
<1>0. showing \in Buffers /\ content'[showing'] = frames + 1
  BY DEF Shapes
<1>1. Pipe(None)'
  BY DEF Pipe, Shown, LastOf, Top, Quiet
<1>2. Pictures(None, d)'
  BY <1>0 DEF Pictures, Scanned, Quiet, Shapes
<1>3. Bound(d)'
  <2> DEFINE S == OnScreen \ Uncounted(FALSE)
             T == (OnScreen \ Uncounted(d))'
  <2>1. S \subseteq T
    BY <1>0 DEF OnScreen, Uncounted, Quiet, Shapes
  <2>2. IsFiniteSet(T)
    <3>1. FinitePictures'
      BY FinitelyShown, PTL
    <3> QED
      BY <3>1 DEF FinitePictures
  <2>3. AtMost(presents, S) /\ presents \in Int
    BY DEF View, Bound, Shapes
  <2> HIDE DEF S, T
  <2>4. AtMost(presents, T)
    BY <2>1, <2>2, <2>3, AtMostMore
  <2> QED
    BY <2>4 DEF Bound, T
<1>4. Cleared'
  BY DEF Cleared, Quiet
<1> QED
  BY <1>1, <1>2, <1>3, <1>4 DEF View, Quiet

\* The roles start over while nothing is queued.
LEMMA Resets ==
    ASSUME Shapes, Roles, Head(todo) = "roles", View(None, FALSE), Quiet
    PROVE  /\ View(None, FALSE)' /\ Quiet' /\ Spare'
<1>. /\ display' = showing /\ draw' = IF showing = 0 THEN 1 ELSE 0
     /\ next' = None /\ kicked' = FALSE /\ fresh' = FALSE
     /\ presents' = presents
     /\ isr = Idle
     /\ UNCHANGED <<queue, pending, showing, ready, isr, content, frames,
                    seen, phase, consumed>>
  BY RolesDoes DEF ResetRoles
<1>1. Pipe(None)'
  BY DEF Pipe, Shown, LastOf, Top, Quiet
<1>2. Pictures(None, FALSE)'
  BY DEF View, Pictures, Scanned, Quiet
<1>3. Bound(FALSE)'
  BY DEF View, Bound, OnScreen, Uncounted, Quiet
<1>4. View(None, FALSE)'
  BY <1>1, <1>2, <1>3 DEF View
<1>5. Quiet' /\ Spare'
  BY DEF Quiet, Spare, Shapes, Buffers, None
<1> QED
  BY <1>4, <1>5

\* of_video_init forgets the presents counted.
LEMMA Zeroes ==
    ASSUME Shapes, Roles, Head(todo) = "zero", View(None, FALSE), Quiet
    PROVE  View(None, FALSE)' /\ Quiet' /\ UNCHANGED <<draw, display>>
<1>. /\ presents' = 0 /\ isr = Idle
     /\ UNCHANGED <<draw, display, next, kicked, fresh>>
     /\ UNCHANGED <<queue, pending, showing, ready, isr, content, frames,
                    seen, phase, consumed>>
  BY RolesDoes
<1>1. Pipe(None)' /\ Pictures(None, FALSE)'
  BY DEF View, Pipe, Shown, Queued, Behind, Third, LastOf, Top, Pictures,
         Scanned
<1>2. Bound(FALSE)'
  <2> DEFINE S == OnScreen \ Uncounted(FALSE)
  <2>1. AtMost(0, S)
    <3>1. IsFiniteSet(S)
      BY FinitelyShown DEF FinitePictures
    <3>2. Cardinality(S) \in Nat
      BY <3>1, FS_CardinalityType
    <3> HIDE DEF S
    <3> QED
      BY <3>2 DEF AtMost
  <2>2. (OnScreen \ Uncounted(FALSE))' = S
    BY DEF OnScreen, Uncounted
  <2> QED
    BY <2>1, <2>2 DEF Bound
<1> QED
  BY <1>1, <1>2 DEF View, Quiet

\* sync_swap_state with the value read just before.
LEMMA Uses ==
    ASSUME Shapes, Shapes', UseSwap, NEW f \in MaybeBuffer, NEW d \in BOOLEAN,
           Good => View(f, d), Fresh(sample, f), Good'
    PROVE  /\ View(f, d)'
           /\ UNCHANGED <<draw, queue, pending, showing, content, frames>>
           /\ next = None => next' = None
           /\ next # None /\ (next = sample.disp \/ ~sample.pend)
                => next' = None /\ display' = next
           /\ f = None /\ next = None => display' = display
           /\ f = None /\ Spare => Spare'
           /\ f = None /\ Quiet => Quiet'
<1>1. Good /\ sample \in Samples /\ Synced(sample)
  BY UseDoes DEF Good, Fresh, Shapes
<1>2. View(f, d) /\ Fits(sample, f)
  BY <1>1 DEF Fresh
<1>3. /\ View(f, d)'
      /\ next = None => next' = None /\ display' = sample.disp
      /\ next # None /\ (next = sample.disp \/ ~sample.pend)
            => next' = None /\ display' = next
      /\ next # None /\ ~(next = sample.disp \/ ~sample.pend)
            => next' = next /\ display' = display
  BY <1>1, <1>2, SyncedKeeps
<1>4. UNCHANGED <<draw, queue, pending, showing, content, frames>>
  BY <1>1, UseDoes DEF Synced
<1>5. f = None /\ next = None => display' = display
  BY <1>2, <1>3 DEF Fits
<1> QED
  BY <1>3, <1>4, <1>5 DEF Spare, Quiet, Shapes, Buffers, None

\* The register is read.
LEMMA Reads ==
    ASSUME Shapes, ReadSwap, NEW f \in MaybeBuffer, NEW d \in BOOLEAN,
           Good => View(f, d)
    PROVE  /\ Fresh(sample, f)'
           /\ Good' => /\ Good /\ View(f, d)'
                       /\ sample' = Swap
           /\ UNCHANGED viewVars /\ draw' = draw /\ settled' = settled
<1>0. /\ sample' = Swap /\ isr = Idle /\ UNCHANGED viewVars
      /\ UNCHANGED <<draw, settled, gaveUp, torn>>
  BY ReadDoes
<1>1. Swap # Idle
  BY DEF Swap, Idle, Shapes, Buffers, None
<1>2. ASSUME Good' PROVE Good /\ View(f, d)' /\ Fits(sample, f)' /\ isr' = Idle
  <2>1. Good
    BY <1>0, <1>2 DEF Good
  <2>2. View(f, d)'
    BY <1>0, <2>1, SameKeeps
  <2>3. Fits(Swap, f)
    BY <2>1, SwapFits
  <2>4. Fits(sample, f)'
    BY <1>0, <2>3 DEF Fits, viewVars
  <2> QED
    BY <1>0, <2>1, <2>2, <2>4 DEF viewVars
<1> QED
  BY <1>0, <1>1, <1>2 DEF Fresh

\* Nothing is queued after a wait.
LEMMA Spins ==
    ASSUME Spin, NEW f, NEW d, Good => View(f, d), Good'
    PROVE  /\ Good /\ View(f, d)' /\ ~pending' /\ UNCHANGED viewVars
           /\ UNCHANGED <<draw, settled>>
<1>1. Good /\ ~pending /\ UNCHANGED viewVars /\ UNCHANGED <<draw, settled>>
  BY SpinDoes
<1> QED
  BY <1>1, SameKeeps DEF viewVars
-----------------------------------------------------------------------------
(***************************************************************************)
(* The steps of each call, place by place.                                 *)
(***************************************************************************)

LEMMA Moves ==
    \A c, n, m, s, t : Goes(c, n, s) /\ m = n + 1 /\ Goes(c, m, t)
                         /\ todo = Left(c, n) /\ Proceed /\ FlippedNext
                       => todo' = Left(c, m) /\ flipped' = flipped
BY DEF Goes, Proceed, Then, FlippedNext

LEMMA Ends ==
    \A c, n, m, s : Goes(c, n, s) /\ m = n + 1 /\ Left(c, m) = <<>>
                      /\ todo = Left(c, n) /\ Proceed /\ FlippedNext
                    => todo' = <<>> /\ flipped' = None
BY DEF Goes, Proceed, Then, FlippedNext

LEMMA CallFlip ==
    ASSUME Shapes, Shapes', CallStep, NEW f \in Buffers, AtFlip(f)
    PROVE  AtFlip(f)' \/ AtRest'
<1>0. /\ f \in MaybeBuffer /\ None \in MaybeBuffer /\ f # None
      /\ TRUE \in BOOLEAN /\ FALSE \in BOOLEAN /\ flipped = f /\ ~settled
  BY DEF MaybeBuffer, Buffers, None, AtFlip
<1>1. CASE FlipDrawn(f) /\ Before("flip", 1)
  <2>1. ReadSwap
    BY <1>1, FlipGoes, VideoStepIs DEF Before, Goes
  <2>2. Before("flip", 2)' /\ flipped' = f
    BY <1>0, <1>1, <2>1, ReadDoes, FlipGoes, Moves DEF Before
  <2>3. Good => View(None, TRUE) /\ Drawn(f)
    BY <1>1 DEF FlipDrawn
  <2>4. /\ Fresh(sample, None)' /\ (Good' => Good /\ View(None, TRUE)')
        /\ UNCHANGED viewVars /\ draw' = draw /\ settled' = settled
    BY <1>0, <2>1, <2>3, Reads
  <2>5. FlipSampled(f)'
    BY <2>2, <2>3, <2>4 DEF FlipSampled, Drawn, Quiet, viewVars
  <2> QED
    BY <1>0, <2>2, <2>4, <2>5 DEF AtFlip
<1>2. CASE FlipSampled(f)
  <2>0. Before("flip", 2) /\ Fresh(sample, None)
        /\ (Good => View(None, TRUE) /\ Drawn(f))
    BY <1>2 DEF FlipSampled
  <2>1. UseSwap
    BY <2>0, FlipGoes, VideoStepIs DEF Before, Goes
  <2>2. Before("flip", 3)' /\ flipped' = f /\ settled' = settled
    BY <1>0, <2>0, <2>1, UseDoes, FlipGoes, Moves DEF Before
  <2>3. ASSUME Good' PROVE View(None, TRUE)' /\ Drawn(f)'
    <3>1. Good
      BY <2>1, <2>3, UseDoes DEF Good
    <3>2. /\ View(None, TRUE)' /\ Quiet' /\ display' = display
          /\ UNCHANGED <<draw, content, frames>>
      BY <1>0, <2>0, <2>1, <2>3, <3>1, Uses DEF Drawn, Quiet
    <3> QED
      BY <2>0, <3>1, <3>2 DEF Drawn
  <2>4. FlipDrawn(f)'
    BY <2>2, <2>3 DEF FlipDrawn
  <2> QED
    BY <1>0, <2>2, <2>4 DEF AtFlip
<1>3. CASE FlipDrawn(f) /\ Before("flip", 3)
  <2>1. Choose /\ Head(todo) = "choose"
    BY <1>3, FlipGoes, VideoStepIs DEF Before, Goes
  <2>2. Before("flip", 4)' /\ flipped' = f
    BY <1>0, <1>3, <2>1, ChooseDoes, FlipGoes, Moves DEF Before
  <2>3. /\ UNCHANGED viewVars /\ settled' = settled
        /\ draw \in Free => draw' = draw
        /\ Good' => Good
    BY <2>1, ChooseDoes DEF Good
  <2>4. ASSUME Good' PROVE View(None, TRUE)' /\ Drawn(f)'
    <3>1. View(None, TRUE) /\ Drawn(f)
      BY <1>3, <2>3, <2>4 DEF FlipDrawn
    <3>2. draw' = draw
      BY <2>3, <3>1 DEF Drawn, Quiet, Free, Shapes, Buffers, None
    <3> QED
      BY <2>3, <3>1, <3>2, SameKeeps DEF Drawn, Quiet, viewVars
  <2>5. FlipDrawn(f)'
    BY <2>2, <2>4 DEF FlipDrawn
  <2> QED
    BY <1>0, <2>2, <2>3, <2>5 DEF AtFlip
<1>4. CASE FlipDrawn(f) /\ Before("flip", 4)
  <2>1. Kick /\ Head(todo) = "kick"
    BY <1>4, FlipGoes, VideoStepIs DEF Before, Goes
  <2>2. Before("flip", 5)' /\ flipped' = f /\ settled' = settled
    BY <1>0, <1>4, <2>1, KickDoes, FlipGoes, Moves DEF Before
  <2>3. ASSUME Good' PROVE View(f, TRUE)' /\ next' = None /\ queue' = <<>>
    <3>1. Good
      BY <2>1, <2>3, KickDoes DEF Good
    <3>2. View(None, TRUE) /\ Drawn(f)
      BY <1>4, <3>1 DEF FlipDrawn
    <3> QED
      BY <2>1, <3>2, Kicks DEF Drawn
  <2>4. FlipKicked(f)'
    BY <2>2, <2>3 DEF FlipKicked
  <2> QED
    BY <1>0, <2>2, <2>4 DEF AtFlip
<1>5. CASE FlipKicked(f)
  <2>0. Before("flip", 5)
    BY <1>5 DEF FlipKicked
  <2>1. Mark
    BY <2>0, FlipGoes, VideoStepIs DEF Before, Goes
  <2>2. Before("flip", 6)' /\ flipped' = f /\ settled' = settled
    BY <1>0, <2>0, <2>1, MarkDoes, FlipGoes, Moves DEF Before
  <2>3. ASSUME Good' PROVE View(None, FALSE)'
    <3>1. Good
      BY <2>1, <2>3, MarkDoes DEF Good
    <3>2. View(f, TRUE) /\ next = None /\ queue = <<>>
      BY <1>5, <3>1 DEF FlipKicked
    <3> QED
      BY <1>0, <2>1, <3>2, Marks
  <2>4. FlipMarked'
    BY <2>2, <2>3 DEF FlipMarked
  <2> QED
    BY <1>0, <2>2, <2>4 DEF AtFlip
<1>6. CASE FlipMarked
  <2>0. Before("flip", 6)
    BY <1>6 DEF FlipMarked
  <2>1. Choose
    BY <2>0, FlipGoes, VideoStepIs DEF Before, Goes
  <2>2. todo' = <<>> /\ flipped' = None
    BY <1>0, <2>0, <2>1, ChooseDoes, FlipGoes, CallOver, Ends DEF Before
  <2>3. UNCHANGED viewVars /\ settled' = settled /\ (Good' => Good)
        /\ draw' \in Free
    BY <2>1, ChooseDoes DEF Good
  <2>4. ASSUME Good' PROVE View(None, FALSE)' /\ Spare'
    <3>1. View(None, FALSE)
      BY <1>6, <2>3, <2>4 DEF FlipMarked
    <3> QED
      BY <2>3, <3>1, SameKeeps DEF Spare, viewVars, Free
  <2>5. todo' \in Seq(PaletteSteps)
    BY <2>2
  <2> QED
    BY <1>0, <2>2, <2>3, <2>4, <2>5 DEF AtRest
<1> QED
  BY <1>1, <1>2, <1>3, <1>4, <1>5, <1>6 DEF AtFlip, FlipDrawn

LEMMA CallAcquire ==
    ASSUME Shapes, Shapes', CallStep, NEW f \in Buffers, AtAcquire(f)
    PROVE  AtAcquire(f)' \/ AtRest'
<1>0. /\ f \in MaybeBuffer /\ None \in MaybeBuffer /\ f # None
      /\ TRUE \in BOOLEAN /\ FALSE \in BOOLEAN /\ flipped = f /\ ~settled
  BY DEF MaybeBuffer, Buffers, None, AtAcquire
<1>1. CASE AcqGiven(f) /\ Before("acquire", 1)
  <2>1. ReadSwap
    BY <1>1, AcquireGoes, VideoStepIs DEF Before, Goes
  <2>2. Before("acquire", 2)' /\ flipped' = f
    <3>1. Goes("acquire", 1, "read") /\ Goes("acquire", 2, "use")
      BY AcquireGoes
    <3> QED
      BY <1>0, <1>1, <2>1, ReadDoes, <3>1, Moves DEF Before
  <2>3. Good => View(f, TRUE)
    BY <1>1 DEF AcqGiven
  <2>4. /\ Fresh(sample, f)' /\ (Good' => View(f, TRUE)')
        /\ settled' = settled
    BY <1>0, <2>1, <2>3, Reads
  <2>5. AcqSampled(f)'
    BY <2>2, <2>4 DEF AcqSampled
  <2> QED
    BY <1>0, <2>2, <2>4, <2>5 DEF AtAcquire
<1>2. CASE AcqSampled(f)
  <2>0. Before("acquire", 2) /\ Fresh(sample, f) /\ (Good => View(f, TRUE))
    BY <1>2 DEF AcqSampled
  <2>1. UseSwap
    BY <2>0, AcquireGoes, VideoStepIs DEF Before, Goes
  <2>2. Before("acquire", 3)' /\ flipped' = f /\ settled' = settled
    <3>1. Goes("acquire", 2, "use") /\ Goes("acquire", 3, "fence")
      BY AcquireGoes
    <3> QED
      BY <1>0, <2>0, <2>1, UseDoes, <3>1, Moves DEF Before
  <2>3. Good' => View(f, TRUE)'
    BY <1>0, <2>0, <2>1, Uses
  <2>4. AcqGiven(f)'
    BY <2>2, <2>3 DEF AcqGiven
  <2> QED
    BY <1>0, <2>2, <2>4 DEF AtAcquire
<1>3. CASE AcqGiven(f) /\ Before("acquire", 3)
  <2>1. Fence
    BY <1>3, AcquireGoes, VideoStepIs DEF Before, Goes
  <2>2. Before("acquire", 4)' /\ flipped' = f /\ settled' = settled
    <3>1. Goes("acquire", 3, "fence") /\ Goes("acquire", 4, "read")
      BY AcquireGoes
    <3> QED
      BY <1>0, <1>3, <2>1, FenceDoes, <3>1, Moves DEF Before
  <2>3. ASSUME Good' PROVE View(f, TRUE)' /\ queue' = <<>>
    <3>1. Good /\ queue = <<>> /\ UNCHANGED viewVars
      BY <2>1, <2>3, FenceDoes
    <3>2. View(f, TRUE)
      BY <1>3, <3>1 DEF AcqGiven
    <3> QED
      BY <3>1, <3>2, SameKeeps DEF viewVars
  <2>4. AcqRetired(f)'
    BY <2>2, <2>3 DEF AcqRetired
  <2> QED
    BY <1>0, <2>2, <2>4 DEF AtAcquire
<1>4. CASE AcqRetired(f)
  <2>0. Before("acquire", 4) /\ (Good => View(f, TRUE) /\ queue = <<>>)
    BY <1>4 DEF AcqRetired
  <2>1. ReadSwap
    BY <2>0, AcquireGoes, VideoStepIs DEF Before, Goes
  <2>2. Before("acquire", 5)' /\ flipped' = f
    <3>1. Goes("acquire", 4, "read") /\ Goes("acquire", 5, "use")
      BY AcquireGoes
    <3> QED
      BY <1>0, <2>0, <2>1, ReadDoes, <3>1, Moves DEF Before
  <2>3. /\ Fresh(sample, f)'
        /\ Good' => Good /\ View(f, TRUE)' /\ sample' = Swap
        /\ UNCHANGED viewVars /\ settled' = settled
    BY <1>0, <2>0, <2>1, Reads
  <2>4. Good /\ next # None => next = Swap.disp \/ ~Swap.pend
    BY <1>0, <2>0 DEF View, Pipe, Shown, Queued, Behind, Third, Top, Swap
  <2>5. AcqSeen(f)'
    BY <2>0, <2>2, <2>3, <2>4 DEF AcqSeen, viewVars
  <2> QED
    BY <1>0, <2>2, <2>3, <2>5 DEF AtAcquire
<1>5. CASE AcqSeen(f)
  <2>0. /\ Before("acquire", 5) /\ Fresh(sample, f)
        /\ Good => /\ View(f, TRUE) /\ queue = <<>>
                   /\ next # None => next = sample.disp \/ ~sample.pend
    BY <1>5 DEF AcqSeen
  <2>1. UseSwap
    BY <2>0, AcquireGoes, VideoStepIs DEF Before, Goes
  <2>2. Before("acquire", 6)' /\ flipped' = f /\ settled' = settled
    <3>1. Goes("acquire", 5, "use") /\ Goes("acquire", 6, "mark")
      BY AcquireGoes
    <3> QED
      BY <1>0, <2>0, <2>1, UseDoes, <3>1, Moves DEF Before
  <2>3. ASSUME Good' PROVE View(f, TRUE)' /\ next' = None /\ queue' = <<>>
    <3>1. Good
      BY <2>1, <2>3, UseDoes DEF Good
    <3>2. /\ View(f, TRUE)' /\ queue' = queue
          /\ next = None => next' = None
          /\ next # None /\ (next = sample.disp \/ ~sample.pend)
               => next' = None
      BY <1>0, <2>0, <2>1, <2>3, Uses
    <3> QED
      BY <2>0, <3>1, <3>2
  <2>4. AcqSynced(f)'
    BY <2>2, <2>3 DEF AcqSynced
  <2> QED
    BY <1>0, <2>2, <2>4 DEF AtAcquire
<1>6. CASE AcqSynced(f)
  <2>0. Before("acquire", 6)
    BY <1>6 DEF AcqSynced
  <2>1. Mark
    BY <2>0, AcquireGoes, VideoStepIs DEF Before, Goes
  <2>2. Before("acquire", 7)' /\ flipped' = f /\ settled' = settled
    <3>1. Goes("acquire", 6, "mark") /\ Goes("acquire", 7, "read")
      BY AcquireGoes
    <3> QED
      BY <1>0, <2>0, <2>1, MarkDoes, <3>1, Moves DEF Before
  <2>3. ASSUME Good' PROVE View(None, FALSE)'
    <3>1. Good
      BY <2>1, <2>3, MarkDoes DEF Good
    <3>2. View(f, TRUE) /\ next = None /\ queue = <<>>
      BY <1>6, <3>1 DEF AcqSynced
    <3> QED
      BY <1>0, <2>1, <3>2, Marks
  <2>4. AcqMarked'
    BY <2>2, <2>3 DEF AcqMarked
  <2> QED
    BY <1>0, <2>2, <2>4 DEF AtAcquire
<1>7. CASE AcqMarked /\ Before("acquire", 7)
  <2>1. ReadSwap
    BY <1>7, AcquireGoes, VideoStepIs DEF Before, Goes
  <2>2. Before("acquire", 8)' /\ flipped' = f
    <3>1. Goes("acquire", 7, "read") /\ Goes("acquire", 8, "use")
      BY AcquireGoes
    <3> QED
      BY <1>0, <1>7, <2>1, ReadDoes, <3>1, Moves DEF Before
  <2>3. Good => View(None, FALSE)
    BY <1>7 DEF AcqMarked
  <2>4. /\ Fresh(sample, None)' /\ (Good' => View(None, FALSE)')
        /\ settled' = settled
    BY <1>0, <2>1, <2>3, Reads
  <2>5. AcqAgain'
    BY <2>2, <2>4 DEF AcqAgain
  <2> QED
    BY <1>0, <2>2, <2>4, <2>5 DEF AtAcquire
<1>8. CASE AcqAgain
  <2>0. Before("acquire", 8) /\ Fresh(sample, None)
        /\ (Good => View(None, FALSE))
    BY <1>8 DEF AcqAgain
  <2>1. UseSwap
    BY <2>0, AcquireGoes, VideoStepIs DEF Before, Goes
  <2>2. Before("acquire", 9)' /\ flipped' = f /\ settled' = settled
    <3>1. Goes("acquire", 8, "use") /\ Goes("acquire", 9, "free")
      BY AcquireGoes
    <3> QED
      BY <1>0, <2>0, <2>1, UseDoes, <3>1, Moves DEF Before
  <2>3. Good' => View(None, FALSE)'
    BY <1>0, <2>0, <2>1, Uses
  <2>4. AcqMarked'
    BY <2>2, <2>3 DEF AcqMarked
  <2> QED
    BY <1>0, <2>2, <2>4 DEF AtAcquire
<1>9. CASE AcqMarked /\ Before("acquire", 9)
  <2>1. Choose
    BY <1>9, AcquireGoes, VideoStepIs DEF Before, Goes
  <2>2. todo' = <<>> /\ flipped' = None
    BY <1>0, <1>9, <2>1, ChooseDoes, AcquireGoes, CallOver, Ends DEF Before
  <2>3. UNCHANGED viewVars /\ settled' = settled /\ (Good' => Good)
        /\ draw' \in Free
    BY <2>1, ChooseDoes DEF Good
  <2>4. ASSUME Good' PROVE View(None, FALSE)' /\ Spare'
    <3>1. View(None, FALSE)
      BY <1>9, <2>3, <2>4 DEF AcqMarked
    <3> QED
      BY <2>3, <3>1, SameKeeps DEF Spare, viewVars, Free
  <2>5. todo' \in Seq(PaletteSteps)
    BY <2>2
  <2> QED
    BY <1>0, <2>2, <2>3, <2>4, <2>5 DEF AtRest
<1> QED
  BY <1>1, <1>2, <1>3, <1>4, <1>5, <1>6, <1>7, <1>8, <1>9
     DEF AtAcquire, AcqGiven, AcqMarked

LEMMA CallWait ==
    ASSUME Shapes, Shapes', CallStep, AtWait
    PROVE  AtWait' \/ AtRest'
<1>0. None \in MaybeBuffer /\ FALSE \in BOOLEAN /\ flipped = None
  BY DEF MaybeBuffer, AtWait
<1>1. CASE WaitBegun
  <2>0. Before("wait", 1) /\ (Good => View(None, FALSE) /\ Spare)
    BY <1>1 DEF WaitBegun
  <2>1. Spin
    BY <2>0, WaitGoes, VideoStepIs DEF Before, Goes
  <2>2. Before("wait", 2)' /\ flipped' = None
    BY <1>0, <2>0, <2>1, SpinDoes, WaitGoes, Moves DEF Before
  <2>3. ASSUME Good' PROVE View(None, FALSE)' /\ Spare' /\ ~pending'
    <3>1. /\ Good /\ View(None, FALSE)' /\ ~pending' /\ UNCHANGED viewVars
          /\ draw' = draw
      BY <2>0, <2>1, <2>3, Spins
    <3> QED
      BY <2>0, <3>1 DEF Spare, viewVars
  <2>4. WaitSpun'
    BY <2>2, <2>3 DEF WaitSpun
  <2> QED
    BY <2>2, <2>4 DEF AtWait
<1>2. CASE WaitSpun
  <2>0. Before("wait", 2) /\ (Good => View(None, FALSE) /\ Spare /\ ~pending)
    BY <1>2 DEF WaitSpun
  <2>1. ReadSwap
    BY <2>0, WaitGoes, VideoStepIs DEF Before, Goes
  <2>2. Before("wait", 3)' /\ flipped' = None
    BY <1>0, <2>0, <2>1, ReadDoes, WaitGoes, Moves DEF Before
  <2>3. /\ Fresh(sample, None)'
        /\ Good' => Good /\ View(None, FALSE)' /\ sample' = Swap
        /\ UNCHANGED viewVars /\ draw' = draw
    BY <1>0, <2>0, <2>1, Reads
  <2>4. Good' => Spare' /\ Waited(sample)'
    BY <2>0, <2>3 DEF Spare, Waited, Swap, viewVars
  <2>5. WaitSampled'
    BY <2>2, <2>3, <2>4 DEF WaitSampled
  <2> QED
    BY <2>2, <2>5 DEF AtWait
<1>3. CASE WaitSampled
  <2>0. /\ Before("wait", 3) /\ Fresh(sample, None)
        /\ Good => View(None, FALSE) /\ Spare /\ Waited(sample)
    BY <1>3 DEF WaitSampled
  <2>1. UseSwap
    BY <2>0, WaitGoes, VideoStepIs DEF Before, Goes
  <2>2. todo' = <<>> /\ flipped' = None
    BY <1>0, <2>0, <2>1, UseDoes, WaitGoes, CallOver, Ends DEF Before
  <2>3. ASSUME Good' PROVE View(None, FALSE)' /\ Spare' /\ Quiet'
    <3>1. Good
      BY <2>1, <2>3, UseDoes DEF Good
    <3>2. /\ View(None, FALSE)' /\ (Spare => Spare')
          /\ UNCHANGED <<queue, pending, showing>>
          /\ next = None => next' = None
          /\ next # None /\ ~sample.pend => next' = None
      BY <1>0, <2>0, <2>1, <2>3, Uses
    <3>3. next' = None /\ ~pending' /\ Spare'
      BY <2>0, <3>1, <3>2 DEF Waited
    <3>4. Quiet'
      BY <3>2, <3>3 DEF View, Pipe, Shown, Queued, Behind, Third, LastOf, Top,
         Quiet
    <3> QED
      BY <3>2, <3>3, <3>4
  <2>4. todo' \in Seq(PaletteSteps)
    BY <2>2
  <2> QED
    BY <2>2, <2>3, <2>4 DEF AtRest
<1> QED
  BY <1>1, <1>2, <1>3 DEF AtWait

LEMMA CallVsync ==
    ASSUME Shapes, Shapes', CallStep, AtVsync
    PROVE  AtVsync' \/ AtRest'
<1>0. None \in MaybeBuffer /\ flipped = None
  BY DEF MaybeBuffer, AtVsync
<1>1. CASE VsyncBegun
  <2>0. Before("vsync", 1) /\ (Good => View(None, FALSE) /\ Spare /\ Quiet)
    BY <1>1 DEF VsyncBegun
  <2>1. Kick /\ Head(todo) = "rekick"
    BY <2>0, VsyncGoes, VideoStepIs DEF Before, Goes
  <2>2. Before("vsync", 2)' /\ flipped' = None
    BY <1>0, <2>0, <2>1, KickDoes, VsyncGoes, Moves DEF Before
  <2>3. ASSUME Good' PROVE Rekicked' /\ Spare'
    <3>1. /\ Good /\ ready' = display /\ isr = Idle
          /\ UNCHANGED <<queue, showing, next, display, kicked, isr, content,
                         frames, seen, phase, consumed, fresh, presents, draw>>
      BY <2>1, <2>3, KickDoes DEF Good
    <3>2. View(None, FALSE) /\ Spare /\ Quiet
      BY <2>0, <3>1
    <3>3. Scanned' /\ Bound(FALSE)'
      BY <3>1, <3>2 DEF View, Pictures, Scanned, Bound, OnScreen, Uncounted
    <3> QED
      BY <3>1, <3>2, <3>3 DEF Quiet, Rekicked, Spare
  <2>4. VsyncKicked'
    BY <2>2, <2>3 DEF VsyncKicked
  <2> QED
    BY <2>2, <2>4 DEF AtVsync
<1>2. CASE VsyncKicked
  <2>0. Before("vsync", 2) /\ (Good => Rekicked /\ Spare)
    BY <1>2 DEF VsyncKicked
  <2>1. Spin
    BY <2>0, VsyncGoes, VideoStepIs DEF Before, Goes
  <2>2. todo' = <<>> /\ flipped' = None
    BY <1>0, <2>0, <2>1, SpinDoes, VsyncGoes, CallOver, Ends DEF Before
  <2>3. ASSUME Good' PROVE View(None, FALSE)' /\ Spare' /\ Quiet'
    <3>1. Good /\ ~pending /\ UNCHANGED viewVars /\ draw' = draw /\ isr = Idle
      BY <2>1, <2>3, SpinDoes
    <3>2. Rekicked /\ Spare
      BY <2>0, <3>1
    <3>3. View(None, FALSE)
      BY <3>1, <3>2 DEF View, Pipe, Shown, LastOf, Top, Pictures, Rekicked
    <3> QED
      BY <3>1, <3>2, <3>3, SameKeeps DEF Quiet, Rekicked, Spare, viewVars
  <2>4. todo' \in Seq(PaletteSteps)
    BY <2>2
  <2> QED
    BY <2>2, <2>3, <2>4 DEF AtRest
<1> QED
  BY <1>1, <1>2 DEF AtVsync

LEMMA CallInit ==
    ASSUME Shapes, Shapes', CallStep, AtInit
    PROVE  AtInit' \/ AtRest'
<1>0. None \in MaybeBuffer /\ FALSE \in BOOLEAN /\ flipped = None
  BY DEF MaybeBuffer, AtInit
<1>1. CASE InitBegun /\ Before("init", 1)
  <2>0. Good => View(None, FALSE) /\ Quiet
    BY <1>1 DEF InitBegun
  <2>1. Spin
    BY <1>1, InitGoes, VideoStepIs DEF Before, Goes
  <2>2. Before("init", 2)' /\ flipped' = None
    BY <1>0, <1>1, <2>1, SpinDoes, InitGoes, Moves DEF Before
  <2>3. ASSUME Good' PROVE View(None, FALSE)' /\ Quiet'
    <3>1. Good /\ View(None, FALSE)' /\ UNCHANGED viewVars
      BY <2>0, <2>1, <2>3, Spins
    <3> QED
      BY <2>0, <3>1 DEF Quiet, viewVars
  <2>4. InitBegun'
    BY <2>2, <2>3 DEF InitBegun
  <2> QED
    BY <2>2, <2>4 DEF AtInit
<1>2. CASE InitBegun /\ Before("init", 2)
  <2>0. Good => View(None, FALSE) /\ Quiet
    BY <1>2 DEF InitBegun
  <2>1. Roles /\ Head(todo) = "roles"
    BY <1>2, InitGoes, VideoStepIs DEF Before, Goes
  <2>2. Before("init", 3)' /\ flipped' = None
    BY <1>0, <1>2, <2>1, RolesDoes, InitGoes, Moves DEF Before
  <2>3. ASSUME Good' PROVE View(None, FALSE)' /\ Quiet' /\ Spare'
    <3>1. Good
      BY <2>1, <2>3, RolesDoes DEF Good
    <3> QED
      BY <2>0, <2>1, <3>1, Resets
  <2>4. InitReset'
    BY <2>2, <2>3 DEF InitReset, Spare
  <2> QED
    BY <2>2, <2>4 DEF AtInit
<1>3. CASE InitReset /\ Before("init", 3)
  <2>0. Good => View(None, FALSE) /\ Quiet /\ draw # display
    BY <1>3 DEF InitReset
  <2>1. Roles /\ Head(todo) = "zero"
    BY <1>3, InitGoes, VideoStepIs DEF Before, Goes
  <2>2. Before("init", 4)' /\ flipped' = None
    BY <1>0, <1>3, <2>1, RolesDoes, InitGoes, Moves DEF Before
  <2>3. ASSUME Good' PROVE View(None, FALSE)' /\ Quiet' /\ draw' # display'
    <3>1. Good
      BY <2>1, <2>3, RolesDoes DEF Good
    <3> QED
      BY <2>0, <2>1, <3>1, Zeroes
  <2>4. InitReset'
    BY <2>2, <2>3 DEF InitReset
  <2> QED
    BY <2>2, <2>4 DEF AtInit
<1>4. CASE InitReset /\ Before("init", 4)
  <2>0. Good => View(None, FALSE) /\ Quiet /\ draw # display
    BY <1>4 DEF InitReset
  <2>1. Clear
    BY <1>4, InitGoes, VideoStepIs DEF Before, Goes
  <2>2. todo' = <<>> /\ flipped' = None
    BY <1>0, <1>4, <2>1, ClearDoes, InitGoes, CallOver, Ends DEF Before
  <2>3. ASSUME Good' PROVE View(None, FALSE)' /\ Quiet' /\ Spare'
    <3>1. Good
      BY <2>1, <2>3, ClearDoes DEF Good
    <3>2. View(None, FALSE)' /\ Cleared'
      BY <1>0, <2>0, <2>1, <3>1, Clears
    <3>3. draw' # None
      BY DEF Shapes, Buffers, None
    <3> QED
      BY <3>2, <3>3 DEF Cleared, Quiet, Spare
  <2>4. todo' \in Seq(PaletteSteps)
    BY <2>2
  <2> QED
    BY <2>2, <2>3, <2>4 DEF AtRest
<1> QED
  BY <1>1, <1>2, <1>3, <1>4 DEF AtInit, InitBegun, InitReset

LEMMA CallMode ==
    ASSUME Shapes, Shapes', CallStep, NEW f \in Buffers, AtMode(f)
    PROVE  (\E g \in Buffers : AtMode(g)') \/ AtRest'
<1>0. /\ f \in MaybeBuffer /\ None \in MaybeBuffer /\ f # None
      /\ TRUE \in BOOLEAN /\ FALSE \in BOOLEAN /\ flipped = None
  BY DEF MaybeBuffer, Buffers, None, AtMode
<1>1. CASE ModeBegun /\ Before("mode", 1)
  <2>0. Good => View(None, FALSE) /\ Quiet
    BY <1>1 DEF ModeBegun
  <2>1. Spin
    BY <1>1, ModeGoes, VideoStepIs DEF Before, Goes
  <2>2. Before("mode", 2)' /\ flipped' = None
    <3>1. Goes("mode", 1, "spin") /\ Goes("mode", 2, "roles")
      BY ModeGoes
    <3> QED
      BY <1>0, <1>1, <2>1, SpinDoes, <3>1, Moves DEF Before
  <2>3. ASSUME Good' PROVE View(None, FALSE)' /\ Quiet'
    <3>1. Good /\ View(None, FALSE)' /\ UNCHANGED viewVars
      BY <2>0, <2>1, <2>3, Spins
    <3> QED
      BY <2>0, <3>1 DEF Quiet, viewVars
  <2>4. ModeBegun'
    BY <2>2, <2>3 DEF ModeBegun
  <2> QED
    BY <2>2, <2>4 DEF AtMode
<1>2. CASE ModeBegun /\ Before("mode", 2)
  <2>0. Good => View(None, FALSE) /\ Quiet
    BY <1>2 DEF ModeBegun
  <2>1. Roles /\ Head(todo) = "roles"
    BY <1>2, ModeGoes, VideoStepIs DEF Before, Goes
  <2>2. Before("mode", 3)' /\ flipped' = None
    <3>1. Goes("mode", 2, "roles") /\ Goes("mode", 3, "clear")
      BY ModeGoes
    <3> QED
      BY <1>0, <1>2, <2>1, RolesDoes, <3>1, Moves DEF Before
  <2>3. ASSUME Good' PROVE View(None, FALSE)' /\ Quiet' /\ Spare'
    <3>1. Good
      BY <2>1, <2>3, RolesDoes DEF Good
    <3> QED
      BY <2>0, <2>1, <3>1, Resets
  <2>4. ModeReset'
    BY <2>2, <2>3 DEF ModeReset, Spare
  <2> QED
    BY <2>2, <2>4 DEF AtMode
<1>3. CASE ModeReset
  <2>0. Before("mode", 3)
        /\ (Good => View(None, FALSE) /\ Quiet /\ draw # display)
    BY <1>3 DEF ModeReset
  <2>1. Clear
    BY <2>0, ModeGoes, VideoStepIs DEF Before, Goes
  <2>2. Before("mode", 4)' /\ flipped' = None
    <3>1. Goes("mode", 3, "clear") /\ Goes("mode", 4, "read")
      BY ModeGoes
    <3> QED
      BY <1>0, <2>0, <2>1, ClearDoes, <3>1, Moves DEF Before
  <2>3. ASSUME Good' PROVE View(None, TRUE)' /\ Cleared'
    <3>1. Good
      BY <2>1, <2>3, ClearDoes DEF Good
    <3> QED
      BY <1>0, <2>0, <2>1, <3>1, Clears
  <2>4. ModeCleared'
    BY <2>2, <2>3 DEF ModeCleared
  <2> QED
    BY <2>2, <2>4 DEF AtMode
<1>4. CASE ModeCleared /\ Before("mode", 4)
  <2>0. Good => View(None, TRUE) /\ Cleared
    BY <1>4 DEF ModeCleared
  <2>1. ReadSwap
    BY <1>4, ModeGoes, VideoStepIs DEF Before, Goes
  <2>2. Before("mode", 5)' /\ flipped' = None
    <3>1. Goes("mode", 4, "read") /\ Goes("mode", 5, "use")
      BY ModeGoes
    <3> QED
      BY <1>0, <1>4, <2>1, ReadDoes, <3>1, Moves DEF Before
  <2>3. /\ Fresh(sample, None)' /\ (Good' => Good /\ View(None, TRUE)')
        /\ UNCHANGED viewVars /\ draw' = draw
    BY <1>0, <2>0, <2>1, Reads
  <2>4. ModeSampled'
    BY <2>0, <2>2, <2>3 DEF ModeSampled, Cleared, Quiet, viewVars
  <2> QED
    BY <2>2, <2>4 DEF AtMode
<1>5. CASE ModeSampled
  <2>0. /\ Before("mode", 5) /\ Fresh(sample, None)
        /\ Good => View(None, TRUE) /\ Cleared
    BY <1>5 DEF ModeSampled
  <2>1. UseSwap
    BY <2>0, ModeGoes, VideoStepIs DEF Before, Goes
  <2>2. Before("mode", 6)' /\ flipped' = None
    <3>1. Goes("mode", 5, "use") /\ Goes("mode", 6, "free")
      BY ModeGoes
    <3> QED
      BY <1>0, <2>0, <2>1, UseDoes, <3>1, Moves DEF Before
  <2>3. ASSUME Good' PROVE View(None, TRUE)' /\ Cleared'
    <3>1. Good
      BY <2>1, <2>3, UseDoes DEF Good
    <3>2. /\ View(None, TRUE)' /\ Quiet' /\ display' = display
          /\ UNCHANGED <<draw, content, frames>>
      BY <1>0, <2>0, <2>1, <2>3, <3>1, Uses DEF Cleared, Quiet
    <3> QED
      BY <2>0, <3>1, <3>2 DEF Cleared
  <2>4. ModeCleared'
    BY <2>2, <2>3 DEF ModeCleared
  <2> QED
    BY <2>2, <2>4 DEF AtMode
<1>6. CASE ModeCleared /\ Before("mode", 6)
  <2>1. Choose
    BY <1>6, ModeGoes, VideoStepIs DEF Before, Goes
  <2>2. Before("mode", 7)' /\ flipped' = None
    <3>1. Goes("mode", 6, "free") /\ Goes("mode", 7, "kick")
      BY ModeGoes
    <3> QED
      BY <1>0, <1>6, <2>1, ChooseDoes, <3>1, Moves DEF Before
  <2>3. ASSUME Good' PROVE View(None, TRUE)' /\ Cleared'
    <3>1. Good /\ UNCHANGED viewVars /\ draw' \in Free
      BY <2>1, <2>3, ChooseDoes DEF Good
    <3>2. View(None, TRUE) /\ Cleared
      BY <1>6, <3>1 DEF ModeCleared
    <3> QED
      BY <3>1, <3>2, SameKeeps DEF Cleared, Quiet, viewVars, Free
  <2>4. ModeCleared'
    BY <2>2, <2>3 DEF ModeCleared
  <2> QED
    BY <2>2, <2>4 DEF AtMode
<1>7. CASE ModeCleared /\ Before("mode", 7)
  <2>1. Kick /\ Head(todo) = "kick"
    BY <1>7, ModeGoes, VideoStepIs DEF Before, Goes
  <2>2. Before("mode", 8)' /\ flipped' = None /\ draw' = draw
    <3>1. Goes("mode", 7, "kick") /\ Goes("mode", 8, "mark")
      BY ModeGoes
    <3> QED
      BY <1>0, <1>7, <2>1, KickDoes, <3>1, Moves DEF Before
  <2>4. PICK h \in Buffers : h = draw
    BY DEF Shapes
  <2>5. ASSUME Good' PROVE View(h, TRUE)' /\ next' = None /\ queue' = <<>>
    <3>1. Good
      BY <2>1, <2>5, KickDoes DEF Good
    <3>2. View(None, TRUE) /\ Cleared
      BY <1>7, <3>1 DEF ModeCleared
    <3>3. Quiet /\ draw = h /\ h # display /\ content[h] = frames
      BY <2>4, <3>2 DEF Cleared
    <3> QED
      BY <2>1, <3>2, <3>3, Kicks
  <2>6. ModeKicked(h)'
    BY <2>2, <2>4, <2>5 DEF ModeKicked
  <2> QED
    BY <2>2, <2>6 DEF AtMode
<1>8. CASE ModeKicked(f)
  <2>0. Before("mode", 8) /\ draw = f
    BY <1>8 DEF ModeKicked
  <2>1. Mark
    BY <2>0, ModeGoes, VideoStepIs DEF Before, Goes
  <2>2. Before("mode", 9)' /\ flipped' = None
    <3>1. Goes("mode", 8, "mark") /\ Goes("mode", 9, "spin")
      BY ModeGoes
    <3> QED
      BY <1>0, <2>0, <2>1, MarkDoes, <3>1, Moves DEF Before
  <2>3. ASSUME Good' PROVE View(None, FALSE)'
    <3>1. Good
      BY <2>1, <2>3, MarkDoes DEF Good
    <3>2. View(f, TRUE) /\ next = None /\ queue = <<>>
      BY <1>8, <3>1 DEF ModeKicked
    <3> QED
      BY <1>0, <2>0, <2>1, <3>2, Marks
  <2>4. ModeMarked'
    BY <2>2, <2>3 DEF ModeMarked
  <2> QED
    BY <2>2, <2>4 DEF AtMode
<1>9. CASE ModeMarked
  <2>0. Before("mode", 9) /\ (Good => View(None, FALSE))
    BY <1>9 DEF ModeMarked
  <2>1. Spin
    BY <2>0, ModeGoes, VideoStepIs DEF Before, Goes
  <2>2. Before("mode", 10)' /\ flipped' = None
    <3>1. Goes("mode", 9, "spin") /\ Goes("mode", 10, "read")
      BY ModeGoes
    <3> QED
      BY <1>0, <2>0, <2>1, SpinDoes, <3>1, Moves DEF Before
  <2>3. Good' => View(None, FALSE)' /\ ~pending'
    BY <2>0, <2>1, Spins
  <2>4. ModeSpun'
    BY <2>2, <2>3 DEF ModeSpun
  <2> QED
    BY <2>2, <2>4 DEF AtMode
<1>10. CASE ModeSpun
  <2>0. Before("mode", 10) /\ (Good => View(None, FALSE) /\ ~pending)
    BY <1>10 DEF ModeSpun
  <2>1. ReadSwap
    BY <2>0, ModeGoes, VideoStepIs DEF Before, Goes
  <2>2. Before("mode", 11)' /\ flipped' = None
    <3>1. Goes("mode", 10, "read") /\ Goes("mode", 11, "use")
      BY ModeGoes
    <3> QED
      BY <1>0, <2>0, <2>1, ReadDoes, <3>1, Moves DEF Before
  <2>3. /\ Fresh(sample, None)'
        /\ Good' => Good /\ View(None, FALSE)' /\ sample' = Swap
        /\ UNCHANGED viewVars
    BY <1>0, <2>0, <2>1, Reads
  <2>4. Good' => Waited(sample)'
    BY <2>0, <2>3 DEF Waited, Swap, viewVars
  <2>5. ModeSeen'
    BY <2>2, <2>3, <2>4 DEF ModeSeen
  <2> QED
    BY <2>2, <2>5 DEF AtMode
<1>11. CASE ModeSeen
  <2>0. /\ Before("mode", 11) /\ Fresh(sample, None)
        /\ Good => View(None, FALSE) /\ Waited(sample)
    BY <1>11 DEF ModeSeen
  <2>1. UseSwap
    BY <2>0, ModeGoes, VideoStepIs DEF Before, Goes
  <2>2. Before("mode", 12)' /\ flipped' = None
    <3>1. Goes("mode", 11, "use") /\ Goes("mode", 12, "roles")
      BY ModeGoes
    <3> QED
      BY <1>0, <2>0, <2>1, UseDoes, <3>1, Moves DEF Before
  <2>3. ASSUME Good' PROVE View(None, FALSE)' /\ Quiet'
    <3>1. Good
      BY <2>1, <2>3, UseDoes DEF Good
    <3>2. /\ View(None, FALSE)'
          /\ UNCHANGED <<queue, pending, showing>>
          /\ next = None => next' = None
          /\ next # None /\ ~sample.pend => next' = None
      BY <1>0, <2>0, <2>1, <2>3, Uses
    <3>3. next' = None /\ ~pending'
      BY <2>0, <3>1, <3>2 DEF Waited
    <3>4. Quiet'
      BY <3>2, <3>3 DEF View, Pipe, Shown, Queued, Behind, Third, LastOf, Top,
         Quiet
    <3> QED
      BY <3>2, <3>4
  <2>4. ModeSynced'
    BY <2>2, <2>3 DEF ModeSynced
  <2> QED
    BY <2>2, <2>4 DEF AtMode
<1>12. CASE ModeSynced
  <2>0. Before("mode", 12) /\ (Good => View(None, FALSE) /\ Quiet)
    BY <1>12 DEF ModeSynced
  <2>1. Roles /\ Head(todo) = "roles"
    BY <2>0, ModeGoes, VideoStepIs DEF Before, Goes
  <2>2. todo' = <<>> /\ flipped' = None
    <3>1. Goes("mode", 12, "roles")
      BY ModeGoes
    <3> QED
      BY <1>0, <2>0, <2>1, <3>1, RolesDoes, CallOver, Ends DEF Before
  <2>3. ASSUME Good' PROVE View(None, FALSE)' /\ Quiet' /\ Spare'
    <3>1. Good
      BY <2>1, <2>3, RolesDoes DEF Good
    <3> QED
      BY <2>0, <2>1, <3>1, Resets
  <2>4. todo' \in Seq(PaletteSteps)
    BY <2>2
  <2> QED
    BY <2>2, <2>3, <2>4 DEF AtRest
<1> QED
  BY <1>1, <1>2, <1>3, <1>4, <1>5, <1>6, <1>7, <1>8, <1>9, <1>10, <1>11, <1>12
     DEF AtMode, ModeBegun, ModeCleared
-----------------------------------------------------------------------------
(***************************************************************************)
(* The types.                                                              *)
(***************************************************************************)

TypeInv ==
    /\ Shapes
    /\ phase \in {"blank", "active"}
    /\ {consumed, irq, frozen, masked, busy, dirty, uploading, overlay, gaveUp,
        torn} \subseteq BOOLEAN
    /\ program \in Programs
    /\ shadow \in Palettes /\ staged \in Palettes /\ live \in Palettes
    /\ index \in Entries
    /\ opened \in Nat /\ setPals \in 0..PaletteMax
    /\ NotAfter(Len(queue), frames) /\ NotAfter(Len(queue), FrameMax)

LEMMA TypesGiven == TypeInv => TypeOK
<1> SUFFICES ASSUME TypeInv PROVE TypeOK
  OBVIOUS
<1>1. queue \in BoundedSeq(Buffers, FrameMax)
  <2>1. queue \in Seq(Buffers) /\ Len(queue) \in 0..FrameMax
    BY BoundAssumption DEF TypeInv, Shapes, NotAfter
  <2>2. queue \in [1..Len(queue) -> Buffers]
    BY <2>1
  <2> QED
    BY <2>1, <2>2 DEF BoundedSeq, SeqOf
<1> QED
  BY <1>1, BoundAssumption DEF TypeInv, Shapes, TypeOK, MaybeBuffer, Samples

LEMMA TypeInit == Init => TypeInv
<1> SUFFICES ASSUME Init PROVE TypeInv
  OBVIOUS
<1>1. Shapes
  BY DEF Init, Shapes, MaybeBuffer, Samples, Buffers, None
<1>2. shadow \in Palettes
  BY BoundAssumption DEF Init, Palettes, Entries
<1>3. NotAfter(Len(queue), frames) /\ NotAfter(Len(queue), FrameMax)
  BY BoundAssumption DEF Init, NotAfter
<1>4. staged \in Palettes /\ live \in Palettes
  BY <1>2 DEF Init
<1>5. setPals \in 0..PaletteMax /\ opened \in Nat /\ index \in Entries
  BY BoundAssumption DEF Init, Entries
<1> QED
  BY <1>1, <1>2, <1>3, <1>4, <1>5 DEF Init, TypeInv

LEMMA TypeOutside ==
    ASSUME TypeInv, Outside
    PROVE  TypeInv'
<1>1. CASE VsyncEdge \/ EarlyBlank
  BY <1>1 DEF TypeInv, Shapes, VsyncEdge, EarlyBlank, Consume, menuVars,
     roleVars, callVars, bankVars, palVars, frameVars, noteVars
<1>2. CASE ActiveStart
  BY <1>2 DEF TypeInv, Shapes, ActiveStart, menuVars,
     roleVars, callVars, bankVars, palVars, noteVars
<1>3. CASE GpuFlip
  <2>1. queue \in Seq(Buffers) /\ queue # <<>>
    BY <1>3 DEF GpuFlip, TypeInv, Shapes
  <2>2. /\ Head(queue) \in Buffers /\ Tail(queue) \in Seq(Buffers)
        /\ Len(Tail(queue)) = Len(queue) - 1
    BY <2>1, HeadTailProperties
  <2>3. /\ NotAfter(Len(Tail(queue)), frames)
        /\ NotAfter(Len(Tail(queue)), FrameMax)
    BY <2>1, <2>2, BoundAssumption DEF TypeInv, Shapes, NotAfter
  <2>4. queue' = Tail(queue) /\ ready' = Head(queue) /\ pending' = TRUE
    BY <1>3 DEF GpuFlip
  <2> QED
    BY <1>3, <2>2, <2>3, <2>4 DEF TypeInv, Shapes, GpuFlip, menuVars,
     roleVars, callVars, bankVars, palVars, frameVars, noteVars
<1>4. CASE OpenMenu \/ CloseMenu
  <2>0. opened \in Nat
    BY DEF TypeInv
  <2>1. opened' \in Nat /\ frozen' \in BOOLEAN
    <3>1. CASE OpenMenu
      <4>1. opened' = opened + 1 /\ frozen' = TRUE
        BY <3>1 DEF OpenMenu
      <4> QED
        BY <2>0, <4>1
    <3>2. CASE CloseMenu
      BY <2>0, <3>2 DEF CloseMenu
    <3> QED
      BY <1>4, <3>1, <3>2
  <2> QED
    BY <1>4, <2>1 DEF TypeInv, Shapes, OpenMenu, CloseMenu, hwVars,
     roleVars, callVars, bankVars, palVars, frameVars, noteVars
<1>5. CASE Interrupt
  <2>1. Swap \in Samples
    BY DEF Swap, Samples, TypeInv, Shapes
  <2> QED
    BY <1>5, <2>1 DEF TypeInv, Shapes, Interrupt, menuVars,
       roleVars, callVars, bankVars, palVars, frameVars
<1>6. CASE Service
  <2>1. isr \in Samples /\ isr.disp \in Buffers
    BY <1>6 DEF Service, TypeInv, Shapes, Samples
  <2>2. /\ display' \in Buffers /\ next' \in MaybeBuffer /\ draw' = draw
        /\ presents' \in Nat /\ fresh' \in BOOLEAN /\ kicked' \in BOOLEAN
    BY <1>6, <2>1 DEF Service, SyncWith, TypeInv, Shapes, MaybeBuffer
  <2>3. staged' \in Palettes /\ busy' \in BOOLEAN /\ index' \in Entries
        /\ dirty' \in BOOLEAN
    <3>1. CASE MayRetire /\ ~busy
      <4>1. /\ staged' = shadow /\ busy' = TRUE /\ index' = 0
            /\ dirty' = FALSE
        BY <1>6, <3>1 DEF Service, RetirePalette
      <4>2. shadow \in Palettes /\ 0 \in Entries
        BY DEF TypeInv, Entries
      <4> QED
        BY <4>1, <4>2
    <3>2. CASE ~(MayRetire /\ ~busy)
      BY <1>6, <3>2 DEF Service, RetirePalette, TypeInv
    <3> QED
      BY <3>1, <3>2
  <2> QED
    BY <1>6, <2>2, <2>3 DEF TypeInv, Shapes, Service, hwVars, menuVars,
       callVars,
       frameVars, noteVars
<1> QED
  BY <1>1, <1>2, <1>3, <1>4, <1>5, <1>6 DEF Outside

\* A register value is read before it is used, and a fence is waited for by a
\* call that flipped a buffer.
LEMMA PlaceFacts ==
    ASSUME IVideo, todo # <<>>
    PROVE  /\ Head(todo) = "use" => sample # Idle
           /\ Head(todo) = "fence" => flipped \in Buffers
<1>1. CASE AtRest
  BY <1>1, HeadTailProperties DEF AtRest, PaletteSteps
<1>2. CASE AtWait
  BY <1>2, WaitGoes DEF AtWait, WaitBegun, WaitSpun, WaitSampled, Fresh, Before,
     Goes
<1>3. CASE AtVsync
  BY <1>3, VsyncGoes DEF AtVsync, VsyncBegun, VsyncKicked, Before, Goes
<1>4. CASE AtInit
  BY <1>4, InitGoes DEF AtInit, InitBegun, InitReset, Before, Goes
<1>5. ASSUME NEW f \in Buffers, AtFlip(f)
      PROVE  /\ Head(todo) = "use" => sample # Idle
             /\ Head(todo) = "fence" => flipped \in Buffers
  BY <1>5, FlipGoes DEF AtFlip, FlipDrawn, FlipSampled, FlipKicked, FlipMarked,
     Fresh, Before, Goes
<1>6. ASSUME NEW f \in Buffers, AtAcquire(f)
      PROVE  /\ Head(todo) = "use" => sample # Idle
             /\ Head(todo) = "fence" => flipped \in Buffers
  BY <1>6, AcquireGoes DEF AtAcquire, AcqGiven, AcqSampled, AcqRetired, AcqSeen,
     AcqSynced, AcqMarked, AcqAgain, Fresh, Before, Goes
<1>7. ASSUME NEW f \in Buffers, AtMode(f)
      PROVE  /\ Head(todo) = "use" => sample # Idle
             /\ Head(todo) = "fence" => flipped \in Buffers
  BY <1>7, ModeGoes DEF AtMode, ModeBegun, ModeReset, ModeCleared, ModeSampled,
     ModeKicked, ModeMarked, ModeSpun, ModeSeen, ModeSynced, Fresh, Before, Goes
<1> QED
  BY <1>1, <1>2, <1>3, <1>4, <1>5, <1>6, <1>7 DEF IVideo

LEMMA TypeVideoStep ==
    ASSUME TypeInv, CallStep, ~PaletteStep,
           Head(todo) = "use" => sample # Idle,
           Head(todo) = "fence" => flipped \in Buffers
    PROVE  TypeInv'
<1>0. Shapes /\ masked \in BOOLEAN
  BY DEF TypeInv
<1>. Shapes
  BY <1>0
<1>1. SameCall => masked' \in BOOLEAN /\ flipped' \in MaybeBuffer
                  /\ program' = program /\ isr' = isr
  BY <1>0 DEF SameCall, Shapes, MaybeBuffer
<1>2. CASE ReadSwap
  <2>1. Swap \in Samples
    BY DEF Swap, Samples, Shapes
  <2> QED
    BY <1>1, <1>2, <2>1 DEF TypeInv, Shapes, ReadSwap, SameSwap, SamePalette,
       hwVars, menuVars, bankVars, palVars, roleVars, frameVars
<1>3. CASE UseSwap
  <2>1. sample \in Samples /\ sample.disp \in Buffers
    BY <1>3 DEF UseSwap, Do, Shapes, Samples
  <2>2. /\ display' \in Buffers /\ next' \in MaybeBuffer /\ draw' = draw
        /\ presents' \in Nat /\ fresh' \in BOOLEAN /\ kicked' \in BOOLEAN
    BY <1>3, <2>1 DEF UseSwap, SyncWith, Shapes, MaybeBuffer
  <2> QED
    BY <1>1, <1>3, <2>2 DEF TypeInv, Shapes, UseSwap, SameSwap, SamePalette,
       hwVars, menuVars, bankVars, palVars, frameVars
<1>4. CASE Choose
  <2>1. draw' \in Buffers
    BY <1>4, ChooseDoes DEF Free
  <2> QED
    BY <1>1, <1>4, <2>1 DEF TypeInv, Shapes, Choose, SameSwap, SamePalette,
       hwVars, menuVars, bankVars, palVars, frameVars
<1>5. CASE Kick
  <2>1. ready' \in Buffers /\ pending' \in BOOLEAN
    BY <1>5 DEF Kick, Shapes
  <2> QED
    BY <1>1, <1>5, <2>1 DEF TypeInv, Shapes, Kick, SameRoles, SamePalette,
       menuVars, bankVars, palVars, frameVars, roleVars
<1>6. CASE Mark
  <2>1. next' \in MaybeBuffer
    BY <1>6 DEF Mark, Shapes, MaybeBuffer
  <2> QED
    BY <1>1, <1>6, <2>1 DEF TypeInv, Shapes, Mark, SameSwap, SamePalette,
       hwVars, menuVars, bankVars, palVars, frameVars
<1>7. CASE Spin
  <2>1. gaveUp' \in BOOLEAN
    BY <1>7 DEF Spin, TypeInv
  <2> QED
    BY <1>1, <1>7, <2>1 DEF TypeInv, Shapes, Spin, SameSwap, SamePalette,
       SameRoles, hwVars, menuVars, bankVars, palVars, frameVars, roleVars
<1>8. CASE Fence
  <2>1. gaveUp' \in BOOLEAN
    BY <1>8 DEF Fence, TypeInv
  <2>2. ready' \in Buffers /\ pending' \in BOOLEAN
    BY <1>8 DEF Fence, Do, Shapes
  <2> QED
    BY <1>1, <1>8, <2>1, <2>2 DEF TypeInv, Shapes, Fence, SamePalette,
       SameRoles, menuVars, bankVars, palVars, frameVars, roleVars
<1>9. CASE Roles
  <2>1. /\ display' \in Buffers /\ next' \in MaybeBuffer /\ draw' \in Buffers
        /\ presents' \in Nat /\ fresh' \in BOOLEAN /\ kicked' \in BOOLEAN
    <3>1. CASE ResetRoles
      <4>1. /\ display' = showing /\ draw' = IF showing = 0 THEN 1 ELSE 0
            /\ next' = None /\ kicked' = FALSE /\ fresh' = FALSE
            /\ presents' = presents
        BY <3>1 DEF ResetRoles
      <4>2. 0 \in Buffers /\ 1 \in Buffers /\ None \in MaybeBuffer
        BY DEF Buffers, MaybeBuffer
      <4> QED
        BY <4>1, <4>2 DEF Shapes
    <3>2. CASE ~ResetRoles
      <4>1. presents' = 0 /\ UNCHANGED <<draw, display, next, kicked, fresh>>
        BY <1>9, <3>2 DEF Roles
      <4> QED
        BY <4>1 DEF Shapes
    <3> QED
      BY <3>1, <3>2
  <2> QED
    BY <1>1, <1>9, <2>1 DEF TypeInv, Shapes, Roles, SameSwap, SamePalette,
       hwVars, menuVars, bankVars, palVars, frameVars
<1>10. CASE Clear
  <2>1. /\ frames' = frames + 1 /\ content' = [b \in Buffers |-> frames + 1]
        /\ seen' = seen \cup {content[showing], frames + 1}
    BY <1>10 DEF Clear
  <2>2. /\ frames + 1 \in Nat
        /\ [b \in Buffers |-> frames + 1] \in [Buffers -> 0..(frames + 1)]
        /\ seen \cup {content[showing], frames + 1} \subseteq 0..(frames + 1)
    <3>1. frames \in Nat /\ seen \subseteq 0..frames
          /\ content[showing] \in 0..frames
      BY DEF Shapes
    <3>2. frames + 1 \in 0..(frames + 1) /\ 0..frames \subseteq 0..(frames + 1)
      BY <3>1
    <3>3. seen \cup {content[showing], frames + 1} \subseteq 0..(frames + 1)
      BY <3>1, <3>2, Zenon
    <3>4. [b \in Buffers |-> frames + 1] \in [Buffers -> 0..(frames + 1)]
      BY <3>2, Zenon
    <3> QED
      BY <3>1, <3>3, <3>4
  <2>3. frames' \in Nat /\ content' \in [Buffers -> 0..frames']
        /\ seen' \subseteq 0..frames'
    BY <2>1, <2>2, Zenon
  <2>4. NotAfter(Len(queue), frames + 1)
    BY DEF TypeInv, Shapes, NotAfter
  <2> QED
    BY <1>1, <1>10, <2>1, <2>3, <2>4 DEF TypeInv, Shapes, Clear, SameSwap,
       SamePalette, hwVars, menuVars, bankVars, palVars, roleVars
<1> QED
  BY <1>2, <1>3, <1>4, <1>5, <1>6, <1>7, <1>8, <1>9, <1>10
     DEF CallStep, PaletteStep

-----------------------------------------------------------------------------
(***************************************************************************)
(* The steps of the palette.                                               *)
(***************************************************************************)

LEMMA ShadeTyped ==
    ASSUME overlay \in BOOLEAN, NEW p \in Palettes, NEW i \in Entries
    PROVE  Shade(p[i]) \in (-PaletteMax)..PaletteMax
<1>1. p[i] \in (-PaletteMax)..PaletteMax /\ PaletteMax \in Nat
  BY BoundAssumption DEF Palettes
<1> QED
  BY <1>1 DEF Shade

LEMMA NextIndex == \A i \in Entries : AfterIndex(i) = IF i = 0 THEN 1 ELSE 0
<1>1. Entries = {0, 1}
  BY DEF Entries
<1>2. IsFiniteSet({0}) /\ Cardinality({0}) = 1
  BY FS_Singleton
<1>3. Cardinality({0} \cup {1}) = 2
  BY <1>2, FS_AddElement
<1>4. Cardinality(Entries) = 2
  BY <1>1, <1>3
<1> QED
  BY <1>1, <1>4 DEF AfterIndex

\* Every variable of the palette after one of its steps.
LEMMA TypePaletteStep ==
    ASSUME TypeInv, PaletteStep
    PROVE  TypeInv'
<1>1. /\ UNCHANGED <<phase, showing, ready, pending, consumed, irq, frozen,
                     opened, queue, draw, display, next, kicked, fresh,
                     presents, program, sample, isr, content, frames, seen,
                     settled, gaveUp, torn>>
      /\ flipped' \in MaybeBuffer /\ masked' \in BOOLEAN
  BY PaletteStepKeeps DEF TypeInv, Shapes, MaybeBuffer
<1>2. Shapes'
  BY <1>1 DEF TypeInv, Shapes
<1>3. /\ shadow \in Palettes /\ staged \in Palettes /\ live \in Palettes
      /\ index \in Entries /\ setPals \in 0..PaletteMax
      /\ {busy, dirty, uploading, overlay} \subseteq BOOLEAN
  BY DEF TypeInv
<1>4. /\ shadow' \in Palettes /\ staged' \in Palettes /\ live' \in Palettes
      /\ index' \in Entries /\ setPals' = setPals
      /\ {busy', dirty', uploading', overlay'} \subseteq BOOLEAN
  <2>1. CASE Store
    <3>1. setPals \in (-PaletteMax)..PaletteMax
      BY <1>3, BoundAssumption
    <3>2. shadow' \in Palettes
      BY <1>3, <2>1, <3>1 DEF Store, Palettes, Entries
    <3> QED
      BY <1>3, <2>1, <3>2 DEF Store, bankVars
  <2>2. CASE Claim
    BY <1>3, <2>2 DEF Claim, bankVars
  <2>3. CASE TryUpload \/ WaitReady
    BY <1>3, <2>3 DEF TryUpload, WaitReady, SamePalette, bankVars, palVars
  <2>4. CASE WriteBank
    <3>1. UNCHANGED <<live, busy, palVars>>
      BY <2>4 DEF WriteBank
    <3>2. index' \in Entries
      BY <1>3, <2>4, NextIndex DEF WriteBank, Entries
    <3>3. staged' \in Palettes
      <4>1. \/ staged' = staged
            \/ \E i \in {0, 1} :
                  staged' = [staged EXCEPT ![index] = Shade(shadow[i])]
        BY <2>4 DEF WriteBank
      <4>2. \A i \in {0, 1} : Shade(shadow[i]) \in (-PaletteMax)..PaletteMax
        BY <1>3, ShadeTyped DEF Entries
      <4> QED
        BY <1>3, <4>1, <4>2 DEF Palettes
    <3> QED
      BY <1>3, <3>1, <3>2, <3>3 DEF palVars
  <2>5. CASE Commit
    BY <1>3, <2>5 DEF Commit, palVars, Entries
  <2>6. CASE Settle
    BY <1>3, <2>6 DEF Settle, bankVars
  <2> QED
    BY <2>1, <2>2, <2>3, <2>4, <2>5, <2>6 DEF PaletteStep
<1> QED
  BY <1>1, <1>2, <1>4 DEF TypeInv

\* The application starts a call.
LEMMA TypeAppCall ==
    ASSUME TypeInv, AppCall
    PROVE  TypeInv'
<1>. Shapes /\ setPals \in 0..PaletteMax
  BY DEF TypeInv
<1>0. ASSUME NEW c, NEW m \in BOOLEAN, Enter(c, m)
      PROVE  /\ UNCHANGED <<program, sample, isr, torn, gaveUp, hwVars,
                            menuVars,
                            roleVars, bankVars>>
             /\ masked' \in BOOLEAN
  BY <1>0 DEF Enter
<1>1. DrawFrame => /\ frames' = frames + 1 /\ frames' \in Nat
                   /\ content' \in [Buffers -> 0..frames'] /\ seen' = seen
                   /\ seen' \subseteq 0..frames' /\ settled' = FALSE
                   /\ NotAfter(Len(queue) + 1, frames')
                   /\ NotAfter(Len(queue), frames')
                   /\ NotAfter(Len(queue) + 1, FrameMax)
  <2> SUFFICES ASSUME DrawFrame
               PROVE  /\ frames' = frames + 1 /\ frames' \in Nat
                      /\ content' \in [Buffers -> 0..frames'] /\ seen' = seen
                      /\ seen' \subseteq 0..frames' /\ settled' = FALSE
                      /\ NotAfter(Len(queue) + 1, frames')
                      /\ NotAfter(Len(queue), frames')
                      /\ NotAfter(Len(queue) + 1, FrameMax)
    OBVIOUS
  <2>1. /\ frames' = frames + 1 /\ seen' = seen /\ settled' = FALSE
        /\ content' = [content EXCEPT ![draw] = frames + 1]
        /\ frames < FrameMax
    BY DEF DrawFrame
  <2>2. 0..frames \subseteq 0..(frames + 1) /\ frames + 1 \in 0..(frames + 1)
        /\ frames + 1 \in Nat
    BY DEF Shapes
  <2>3. [content EXCEPT ![draw] = frames + 1] \in [Buffers -> 0..(frames + 1)]
    BY <2>2 DEF Shapes
  <2>4. seen \subseteq 0..(frames + 1)
    BY <2>2 DEF Shapes
  <2>5. /\ NotAfter(Len(queue) + 1, frames + 1)
        /\ NotAfter(Len(queue), frames + 1)
        /\ NotAfter(Len(queue) + 1, FrameMax)
    BY <2>1, BoundAssumption, LenProperties DEF TypeInv, Shapes, NotAfter
  <2> QED
    BY <2>1, <2>2, <2>3, <2>4, <2>5
<1>2. draw \in MaybeBuffer /\ None \in MaybeBuffer
  BY DEF Shapes, MaybeBuffer
<1>3. ASSUME NEW m \in BOOLEAN, Flip(m) PROVE TypeInv'
  BY <1>0, <1>1, <1>2, <1>3 DEF Flip, TypeInv, Shapes, hwVars, menuVars,
     roleVars, bankVars, palVars
<1>4. CASE FlipByGpu
  <2>1. Append(queue, draw) \in Seq(Buffers)
        /\ Len(Append(queue, draw)) = Len(queue) + 1
    BY AppendProperties DEF Shapes
  <2>2. queue' = Append(queue, draw) /\ flipped' = draw
    BY <1>4 DEF FlipByGpu
  <2> QED
    BY <1>0, <1>1, <1>2, <1>4, <2>1, <2>2 DEF FlipByGpu, TypeInv, Shapes,
       hwVars,
     menuVars, roleVars, bankVars, palVars
<1>5. ASSUME NEW c, NEW m \in BOOLEAN, Plain(c, m) PROVE TypeInv'
  BY <1>0, <1>2, <1>5 DEF Plain, TypeInv, Shapes, hwVars, menuVars,
     roleVars, bankVars, palVars, frameVars
<1>6. setPals < PaletteMax => setPals + 1 \in 0..PaletteMax
  BY BoundAssumption
<1>7. ASSUME NEW c, NEW m \in BOOLEAN, SetPalette(c, m) PROVE TypeInv'
  <2>1. setPals' \in 0..PaletteMax
    BY <1>6, <1>7 DEF SetPalette
  <2> QED
    BY <1>0, <1>7, <2>1 DEF SetPalette, TypeInv, Shapes, hwVars, menuVars,
       roleVars, bankVars, frameVars
<1>8. CASE SetDisplayMode
  <2>1. setPals' \in 0..PaletteMax /\ overlay' \in BOOLEAN
    BY <1>6, <1>8 DEF SetDisplayMode
  <2> QED
    BY <1>0, <1>8, <2>1 DEF SetDisplayMode, TypeInv, Shapes, hwVars, menuVars,
       roleVars, bankVars, frameVars
<1> QED
  BY <1>3, <1>4, <1>5, <1>7, <1>8 DEF AppCall

LEMMA TypeNext == TypeInv /\ IVideo /\ [Next]_vars => TypeInv'
<1> SUFFICES ASSUME TypeInv, IVideo, [Next]_vars PROVE TypeInv'
  OBVIOUS
<1>1. CASE CallStep
  BY <1>1, PlaceFacts, VideoStepIs, TypeVideoStep, TypePaletteStep
<1>2. CASE Outside \/ AppCall
  BY <1>2, TypeOutside, TypeAppCall
<1>3. CASE UNCHANGED vars
  BY <1>3 DEF vars, hwVars, menuVars, roleVars, callVars, bankVars, palVars,
     frameVars, noteVars, TypeInv, Shapes
<1> QED
  BY <1>1, <1>2, <1>3 DEF Next, Outside

-----------------------------------------------------------------------------
(***************************************************************************)
(* The start of a call, and the steps of a palette call.                   *)
(***************************************************************************)

LEMMA WholeCall == \A c \in VideoCalls : Left(c, 1) = Steps[c]
BY CallsTyped, SubSeqFull DEF Left

\* Between calls the buffers are at rest.
LEMMA RestBetween ==
    ASSUME IVideo, todo = <<>>
    PROVE  AtRest
<1>1. ~AtWait
  BY WaitGoes DEF AtWait, WaitBegun, WaitSpun, WaitSampled, Before, Goes
<1>2. ~AtVsync
  BY VsyncGoes DEF AtVsync, VsyncBegun, VsyncKicked, Before, Goes
<1>3. ~AtInit
  BY InitGoes DEF AtInit, InitBegun, InitReset, Before, Goes
<1>4. \A f \in Buffers : ~AtFlip(f)
  BY FlipGoes DEF AtFlip, FlipDrawn, FlipSampled, FlipKicked, FlipMarked,
     Before,
     Goes
<1>5. \A f \in Buffers : ~AtAcquire(f)
  BY AcquireGoes DEF AtAcquire, AcqGiven, AcqSampled, AcqRetired, AcqSeen,
     AcqSynced, AcqMarked, AcqAgain, Before, Goes
<1>6. \A f \in Buffers : ~AtMode(f)
  BY ModeGoes DEF AtMode, ModeBegun, ModeReset, ModeCleared, ModeSampled,
     ModeKicked, ModeMarked, ModeSpun, ModeSeen, ModeSynced, Before, Goes
<1> QED
  BY <1>1, <1>2, <1>3, <1>4, <1>5, <1>6 DEF IVideo

\* A frame is drawn into the buffer the application holds.
LEMMA Draws ==
    ASSUME Shapes, Shapes', View(None, FALSE), Spare, DrawFrame, isr = Idle,
           UNCHANGED <<pending, showing, ready, next, display, kicked, isr,
                       phase,
                       consumed, fresh, presents>>,
           NEW f \in Buffers, draw = f
    PROVE  /\ queue = <<>> /\ content'[f] = frames' /\ frames' # 0
           /\ Pictures(None, TRUE)' /\ Pictures(f, TRUE)' /\ Bound(TRUE)'
           /\ ~(f = showing) /\ (pending => f # ready)
<1>1. /\ frames' = frames + 1 /\ seen' = seen
      /\ content' = [content EXCEPT ![f] = frames + 1]
  BY DEF DrawFrame
<1>2. /\ queue = <<>> /\ f # showing /\ (pending => f # ready)
      /\ f # display /\ f # next
  BY DEF View, Pipe, Shown, Queued, Behind, Third, LastOf, Top, Spare
<1>3. /\ content'[f] = frames' /\ frames' # 0
      /\ content'[showing'] = content[showing]
      /\ pending => content'[ready'] = content[ready]
      /\ next # None => content'[next'] = content[next]
      /\ content[showing] # frames' /\ frames' \notin seen
      /\ next # None => content[next] # frames'
  <2>1. /\ content[showing] \in 0..frames /\ frames \in Nat
        /\ seen \subseteq 0..frames
        /\ next # None => content[next] \in 0..frames
    BY DEF Shapes, MaybeBuffer
  <2>2. frames + 1 \notin 0..frames /\ frames + 1 # 0
    BY <2>1
  <2> QED
    BY <1>1, <1>2, <2>1, <2>2 DEF Shapes
<1>4. Pictures(None, TRUE)' /\ Pictures(f, TRUE)'
  BY <1>1, <1>2, <1>3 DEF View, Pictures, Scanned
<1>5. Bound(TRUE)'
  <2>1. (OnScreen \ Uncounted(TRUE))' = OnScreen \ Uncounted(FALSE)
    BY <1>1, <1>3 DEF OnScreen, Uncounted
  <2> QED
    BY <2>1 DEF View, Bound
<1> QED
  BY <1>2, <1>3, <1>4, <1>5

LEMMA VideoAppCall ==
    ASSUME Shapes, Shapes', IVideo, AppCall
    PROVE  IVideo'
<1>0. ASSUME NEW c, NEW m, Enter(c, m)
      PROVE  /\ AtRest /\ isr = Idle /\ todo' = Steps[c]
             /\ UNCHANGED <<pending, showing, ready, next, display, kicked, isr,
                            phase, consumed, fresh, presents, draw, gaveUp,
                            torn>>
             /\ Good' => Good
             /\ Good => View(None, FALSE) /\ Spare /\ (settled => Quiet)
             /\ flipped = None
  BY <1>0, RestBetween DEF Enter, hwVars, roleVars, Good, AtRest
<1>1. ASSUME NEW m \in BOOLEAN, Flip(m) PROVE IVideo'
  <2>1. /\ Enter("flip", m) /\ settled /\ DrawFrame /\ flipped' = draw
        /\ queue' = queue
    BY <1>1 DEF Flip
  <2>2. PICK f \in Buffers : draw = f
    BY DEF Shapes
  <2>3. Before("flip", 1)' /\ ~settled'
    BY <1>0, <2>1, WholeCall DEF Before, VideoCalls, DrawFrame
  <2>4. ASSUME Good' PROVE View(None, TRUE)' /\ Drawn(f)'
    <3>1. View(None, FALSE) /\ Spare /\ Quiet /\ isr = Idle
      BY <1>0, <2>1, <2>4
    <3>2. /\ content'[f] = frames' /\ Pictures(None, TRUE)' /\ Bound(TRUE)'
      BY <1>0, <2>1, <2>2, <3>1, Draws
    <3>3. Pipe(None)' /\ (next # None => kicked)' /\ isr' = Idle /\ Quiet'
      BY <1>0, <2>1, <3>1 DEF View, Pipe, Shown, Queued, Behind, Third, LastOf,
         Top, Quiet
    <3>4. f # display' /\ draw' = f
      BY <1>0, <2>1, <2>2, <3>1 DEF Spare
    <3> QED
      BY <3>2, <3>3, <3>4 DEF View, Drawn
  <2>5. FlipDrawn(f)' /\ flipped' = f
    BY <2>1, <2>2, <2>3, <2>4 DEF FlipDrawn
  <2> QED
    BY <2>3, <2>5 DEF AtFlip, IVideo
<1>2. CASE FlipByGpu
  <2>1. /\ Enter("acquire", FALSE) /\ DrawFrame /\ flipped' = draw
        /\ queue' = Append(queue, draw)
    BY <1>2 DEF FlipByGpu
  <2>2. PICK f \in Buffers : draw = f
    BY DEF Shapes
  <2>3. Before("acquire", 1)' /\ ~settled'
    BY <1>0, <2>1, WholeCall DEF Before, VideoCalls, DrawFrame
  <2>4. ASSUME Good' PROVE View(f, TRUE)'
    <3>1. View(None, FALSE) /\ Spare /\ isr = Idle
      BY <1>0, <2>1, <2>4
    <3>2. /\ queue = <<>> /\ Pictures(f, TRUE)' /\ Bound(TRUE)'
          /\ f # showing /\ (pending => f # ready)
      BY <1>0, <2>1, <2>2, <3>1, Draws
    <3>3. queue' = <<f>>
      BY <2>1, <2>2, <3>2
    <3>4. f # None
      BY DEF Buffers, None
    <3>5. Pipe(f)'
      <4>1. CASE Shown(None)
        BY <1>0, <2>1, <3>2, <3>3, <3>4, <4>1 DEF Shown, LastOf, Pipe, Behind,
           Top
      <4>2. CASE Queued(None)
        BY <1>0, <2>1, <3>2, <3>3, <3>4, <4>2 DEF Queued, LastOf, Pipe, Third,
           Top
      <4> QED
        BY <3>1, <4>1, <4>2 DEF View, Pipe, Behind, Third
    <3> QED
      BY <1>0, <2>1, <3>1, <3>2, <3>5 DEF View
  <2>5. AcqGiven(f)' /\ flipped' = f
    BY <2>1, <2>2, <2>3, <2>4 DEF AcqGiven
  <2> QED
    BY <2>3, <2>5 DEF AtAcquire, IVideo
<1>3. ASSUME NEW c, NEW m, Plain(c, m) PROVE IVideo'
  <2>1. /\ c \in {"wait", "vsync", "mode", "init"} /\ Enter(c, m)
        /\ c # "wait" => settled
        /\ flipped' = None /\ queue' = queue
        /\ UNCHANGED <<content, frames, seen>>
    BY <1>3 DEF Plain, frameVars
  <2>2. UNCHANGED viewVars /\ draw' = draw
    BY <1>0, <2>1 DEF viewVars
  <2>3. ASSUME Good'
        PROVE  View(None, FALSE)' /\ Spare' /\ (c # "wait" => Quiet')
    <3>1. View(None, FALSE) /\ Spare /\ (c # "wait" => Quiet)
      BY <1>0, <2>1, <2>3
    <3> QED
      BY <2>2, <3>1, SameKeeps DEF Spare, Quiet, viewVars
  <2>4. todo' = Left(c, 1)
    BY <1>0, <2>1, WholeCall DEF VideoCalls
  <2>5. CASE c = "wait"
    BY <2>1, <2>3, <2>4, <2>5 DEF Before, WaitBegun, AtWait, IVideo
  <2>6. CASE c = "vsync"
    BY <2>1, <2>3, <2>4, <2>6 DEF Before, VsyncBegun, AtVsync, IVideo
  <2>7. CASE c = "mode"
    <3>1. ModeBegun'
      BY <2>3, <2>4, <2>7 DEF Before, ModeBegun
    <3>2. AtMode(0)'
      BY <2>1, <3>1 DEF AtMode
    <3>3. 0 \in Buffers
      BY DEF Buffers
    <3> QED
      BY <3>2, <3>3 DEF IVideo
  <2>8. CASE c = "init"
    BY <2>1, <2>3, <2>4, <2>8 DEF Before, InitBegun, AtInit, IVideo
  <2> QED
    BY <2>1, <2>5, <2>6, <2>7, <2>8
<1>4. ASSUME NEW c, NEW m, Enter(c, m), Steps[c] \in Seq(PaletteSteps),
             UNCHANGED <<flipped, queue, settled, content, frames, seen>>
      PROVE  IVideo'
  <2>1. UNCHANGED viewVars /\ draw' = draw
    BY <1>0, <1>4 DEF viewVars
  <2>2. ASSUME Good'
        PROVE  View(None, FALSE)' /\ Spare' /\ (settled' => Quiet')
    <3>1. View(None, FALSE) /\ Spare /\ (settled => Quiet)
      BY <1>0, <1>4, <2>2
    <3> QED
      BY <1>4, <2>1, <3>1, SameKeeps DEF Spare, Quiet, viewVars
  <2>3. todo' \in Seq(PaletteSteps) /\ flipped' = None
    BY <1>0, <1>4
  <2> QED
    BY <2>2, <2>3 DEF AtRest, IVideo
<1>5. ASSUME NEW c, NEW m, SetPalette(c, m) PROVE IVideo'
  <2>1. Enter(c, m) /\ c \in {"single0", "single1", "bulk"}
        /\ UNCHANGED <<flipped, queue, settled, content, frames, seen>>
    BY <1>5 DEF SetPalette, frameVars
  <2>2. Steps[c] \in Seq(PaletteSteps)
    <3>1. /\ Steps["single0"] = <<"set0", "claim">>
          /\ Steps["single1"] = <<"set1", "claim">>
          /\ Steps["bulk"] = <<"set0", "next1", "claim">>
      BY DEF Steps
    <3>2. /\ <<"set0", "claim">> \in Seq(PaletteSteps)
          /\ <<"set1", "claim">> \in Seq(PaletteSteps)
          /\ <<"set0", "next1", "claim">> \in Seq(PaletteSteps)
      BY DEF PaletteSteps
    <3> QED
      BY <2>1, <3>1, <3>2
  <2> QED
    BY <1>4, <2>1, <2>2
<1>6. CASE SetDisplayMode
  <2>1. Enter("overlay", FALSE)
        /\ UNCHANGED <<flipped, queue, settled, content, frames, seen>>
    BY <1>6 DEF SetDisplayMode, frameVars
  <2>2. Steps["overlay"] \in Seq(PaletteSteps)
    BY DEF Steps, PaletteSteps
  <2> QED
    BY <1>4, <2>1, <2>2
<1> QED
  BY <1>1, <1>2, <1>3, <1>5, <1>6 DEF AppCall

LEMMA PaletteRest ==
    ASSUME NEW t \in Seq(PaletteSteps), t # <<>>
    PROVE  \A s \in Seq(PaletteSteps) : s \o Tail(t) \in Seq(PaletteSteps)
BY HeadTailProperties, ConcatProperties

LEMMA VideoPaletteStep ==
    ASSUME AtRest, PaletteStep
    PROVE  AtRest'
<1>1. /\ todo \in Seq(PaletteSteps) /\ todo # <<>>
      /\ UNCHANGED viewVars /\ UNCHANGED <<draw, settled, gaveUp, torn>>
      /\ flipped' = None
  BY PaletteStepKeeps DEF AtRest, viewVars
<1>2. todo' \in Seq(PaletteSteps)
  <2>1. /\ <<>> \in Seq(PaletteSteps) /\ Install \in Seq(PaletteSteps)
        /\ Upload \in Seq(PaletteSteps) /\ Refused \in Seq(PaletteSteps)
        /\ <<"clean">> \in Seq(PaletteSteps)
    BY DEF PaletteSteps, Install, Upload, Refused
  <2>2. Tail(Install) \o <<"clean">> \in Seq(PaletteSteps)
    <3>1. Install # <<>>
      BY DEF Install
    <3> QED
      BY <2>1, <3>1, HeadTailProperties, ConcatProperties
  <2>3. \E s \in Seq(PaletteSteps) : todo' = s \o Tail(todo)
    BY <2>1, <2>2 DEF PaletteStep, Store, Claim, TryUpload, WaitReady,
       WriteBank,
       Commit, Settle, Proceed, Then
  <2> QED
    BY <1>1, <2>3, PaletteRest
<1>3. ASSUME Good' PROVE View(None, FALSE)' /\ Spare' /\ (settled' => Quiet')
  <2>1. View(None, FALSE) /\ Spare /\ (settled => Quiet)
    BY <1>1, <1>3 DEF AtRest, Good
  <2> QED
    BY <1>1, <2>1, SameKeeps DEF Spare, Quiet, viewVars
<1> QED
  BY <1>1, <1>2, <1>3 DEF AtRest

LEMMA VideoCallStep ==
    ASSUME Shapes, Shapes', IVideo, CallStep
    PROVE  IVideo'
<1>1. CASE AtRest
  <2>1. Head(todo) \in PaletteSteps
    BY <1>1, VideoStepIs, HeadTailProperties DEF AtRest
  <2>2. PaletteStep
    BY <2>1, PaletteStepIs
  <2> QED
    BY <1>1, <2>2, VideoPaletteStep DEF IVideo
<1>2. CASE AtWait \/ AtVsync \/ AtInit
  BY <1>2, CallWait, CallVsync, CallInit DEF IVideo
<1>3. CASE \E f \in Buffers : AtFlip(f) \/ AtAcquire(f) \/ AtMode(f)
  <2>1. PICK f \in Buffers : AtFlip(f) \/ AtAcquire(f) \/ AtMode(f)
    BY <1>3
  <2>2. \/ AtFlip(f)' \/ AtAcquire(f)' \/ AtRest'
        \/ \E g \in Buffers : AtMode(g)'
    BY <2>1, CallFlip, CallAcquire, CallMode
  <2> QED
    BY <2>2 DEF IVideo
<1> QED
  BY <1>1, <1>2, <1>3 DEF IVideo

LEMMA VideoInit == Init => IVideo
<1> SUFFICES ASSUME Init PROVE AtRest
  BY DEF IVideo
<1>1. View(None, FALSE)
  <2>1. Pipe(None) /\ Pictures(None, FALSE)
    BY DEF Init, Pipe, Shown, LastOf, Top, Pictures, Scanned, Buffers
  <2>2. Bound(FALSE)
    <3>1. OnScreen \ Uncounted(FALSE) = {}
      BY DEF Init, OnScreen, Uncounted, Buffers
    <3>2. Cardinality({}) = 0
      BY FS_EmptySet
    <3>3. AtMost(0, {})
      BY <3>2 DEF AtMost
    <3>4. presents = 0
      BY DEF Init
    <3> QED
      BY <3>1, <3>3, <3>4 DEF Bound
  <2> QED
    BY <2>1, <2>2 DEF Init, View
<1>2. Spare /\ Quiet
  BY DEF Init, Spare, Quiet, None
<1>3. flipped = None /\ todo = <<>>
  BY DEF Init
<1>4. todo \in Seq(PaletteSteps)
  BY <1>3
<1> QED
  BY <1>1, <1>2, <1>3, <1>4 DEF AtRest

LEMMA VideoStutter ==
    ASSUME Shapes, IVideo, UNCHANGED vars
    PROVE  IVideo'
<1>. UNCHANGED viewVars
     /\ UNCHANGED <<todo, flipped, sample, settled, draw, gaveUp, torn>>
  BY DEF vars, hwVars, menuVars, roleVars, callVars, bankVars, palVars,
     frameVars,
     noteVars, viewVars
<1>1. \A f, d : View(f, d) => View(f, d)'
  BY SameKeeps
<1>2. /\ Good' = Good /\ (Quiet => Quiet') /\ (Spare => Spare')
      /\ (Cleared => Cleared') /\ (Rekicked => Rekicked')
  BY DEF viewVars, Good, Quiet, Spare, Cleared, Rekicked, Scanned, Bound,
     OnScreen, Uncounted
<1>3. \A f : /\ Drawn(f) => Drawn(f)'
             /\ Fresh(sample, f) => Fresh(sample, f)'
  BY DEF viewVars, Quiet, Drawn, Fresh, Fits, Good
<1>4. Waited(sample) => Waited(sample)'
  BY DEF viewVars, Waited
<1>5. UNCHANGED <<queue, pending, showing, next, display>>
  BY DEF viewVars
<1>6. AtRest => AtRest'
  BY <1>1, <1>2 DEF AtRest
<1>7. AtWait => AtWait'
  BY <1>1, <1>2, <1>3, <1>4, <1>5 DEF AtWait, WaitBegun, WaitSpun, WaitSampled,
     Before
<1>8. AtVsync => AtVsync'
  BY <1>1, <1>2 DEF AtVsync, VsyncBegun, VsyncKicked, Before
<1>9. AtInit => AtInit'
  BY <1>1, <1>2, <1>5 DEF AtInit, InitBegun, InitReset, Before
<1>10. ASSUME NEW f \in Buffers, AtFlip(f) PROVE AtFlip(f)'
  BY <1>1, <1>2, <1>3, <1>5, <1>10 DEF AtFlip, FlipDrawn, FlipSampled,
     FlipKicked,
     FlipMarked, Before
<1>11. ASSUME NEW f \in Buffers, AtAcquire(f) PROVE AtAcquire(f)'
  BY <1>1, <1>2, <1>3, <1>5, <1>11 DEF AtAcquire, AcqGiven, AcqSampled,
     AcqRetired, AcqSeen, AcqSynced, AcqMarked, AcqAgain, Before
<1>12. ASSUME NEW f \in Buffers, AtMode(f) PROVE AtMode(f)'
  <2>1. ModeBegun \/ ModeReset \/ ModeCleared \/ ModeSampled \/ ModeKicked(f)
          => (ModeBegun \/ ModeReset \/ ModeCleared \/ ModeSampled
                \/ ModeKicked(f))'
    BY <1>1, <1>2, <1>3, <1>5 DEF ModeBegun, ModeReset, ModeCleared,
       ModeSampled,
       ModeKicked, Before
  <2>2. ModeMarked \/ ModeSpun \/ ModeSeen \/ ModeSynced
          => (ModeMarked \/ ModeSpun \/ ModeSeen \/ ModeSynced)'
    BY <1>1, <1>2, <1>3, <1>4, <1>5 DEF ModeMarked, ModeSpun, ModeSeen,
       ModeSynced, Before
  <2> QED
    BY <1>12, <2>1, <2>2 DEF AtMode
<1> QED
  BY <1>6, <1>7, <1>8, <1>9, <1>10, <1>11, <1>12 DEF IVideo

LEMMA VideoNext == TypeInv /\ TypeInv' /\ IVideo /\ [Next]_vars => IVideo'
<1> SUFFICES ASSUME TypeInv, TypeInv', IVideo, [Next]_vars PROVE IVideo'
  OBVIOUS
<1>1. Shapes /\ Shapes'
  BY DEF TypeInv
<1>2. CASE Outside
  BY <1>1, <1>2, OutsideVideo
<1>3. CASE AppCall
  BY <1>1, <1>3, VideoAppCall
<1>4. CASE CallStep
  BY <1>1, <1>4, VideoCallStep
<1>5. CASE UNCHANGED vars
  BY <1>1, <1>5, VideoStutter
<1> QED
  BY <1>2, <1>3, <1>4, <1>5 DEF Next, Outside
-----------------------------------------------------------------------------
(***************************************************************************)
(* The steps of a palette call.                                            *)
(***************************************************************************)

\* Call t starts with step s and goes on with u.
Takes(t, s, u) == t # <<>> /\ Head(t) = s /\ <<>> \o Tail(t) = u

LEMMA StoreTakes ==
    /\ Takes(SetFirst, "set0", ClaimOnly) /\ Takes(SetSecond, "set1", ClaimOnly)
    /\ Takes(SetBoth, "set0", SetRest) /\ Takes(SetRest, "next1", ClaimOnly)
    /\ Takes(ClaimOnly, "claim", <<>>) /\ Takes(Install, "ready", Bank1)
    /\ Takes(LateOnly, "late", ReleaseOnly)
    /\ Takes(ReleaseOnly, "release", <<>>) /\ Takes(Load5, "clean", ReleaseOnly)
    /\ Takes(Upload, "try", ReleaseOnly)
BY DEF Takes, SetFirst, SetSecond, SetBoth, SetRest, ClaimOnly, Install, Bank1,
       LateOnly, ReleaseOnly, Load5, Upload

LEMMA WriteTakes ==
    /\ Takes(Bank1, "rewind", Bank2) /\ Takes(Load1, "rewind", Load2)
    /\ Takes(Bank2, "write", Bank3) /\ Takes(Load2, "write", Load3)
    /\ Takes(Bank3, "write", Bank4) /\ Takes(Load3, "write", Load4)
    /\ Takes(Bank4, "commit", <<>>) /\ Takes(Load4, "commit", Load5)
    /\ Bank2[2] = "write" /\ Load2[2] = "write"
    /\ Bank3[2] # "write" /\ Load3[2] # "write"
BY DEF Takes, Bank1, Bank2, Bank3, Bank4, Load1, Load2, Load3, Load4, Load5

\* What a claim and an upload put before the rest of their call.
LEMMA ThenTakes ==
    /\ Install \o Tail(ClaimOnly) = Install
    /\ Upload \o Tail(ClaimOnly) = Upload
    /\ Refused \o Tail(Upload) = LateOnly
    /\ (Tail(Install) \o <<"clean">>) \o Tail(Upload) = Load1
<1> DEFINE s5 == <<"rewind", "write", "write", "commit", "clean">>
<1>1. /\ Tail(ClaimOnly) = <<>> /\ Tail(Upload) = ReleaseOnly
      /\ Tail(Install) = Bank1
  BY DEF ClaimOnly, Upload, ReleaseOnly, Install, Bank1
<1>2. Install \o <<>> = Install /\ Upload \o <<>> = Upload
  <2>1. Install \in Seq(PaletteSteps) /\ Upload \in Seq(PaletteSteps)
    BY DEF Install, Upload, PaletteSteps
  <2> QED
    BY <2>1, ConcatEmptySeq
<1>3. Joins(PaletteSteps, Refused, ReleaseOnly, LateOnly)
  BY DEF Joins, PaletteSteps, Refused, ReleaseOnly, LateOnly
<1>4. Joins(PaletteSteps, Bank1, <<"clean">>, s5)
  BY DEF Joins, PaletteSteps, Bank1
<1>5. Joins(PaletteSteps, s5, ReleaseOnly, Load1)
  BY DEF Joins, PaletteSteps, ReleaseOnly, Load1
<1> HIDE DEF s5
<1>6. /\ Refused \o ReleaseOnly = LateOnly /\ Bank1 \o <<"clean">> = s5
      /\ s5 \o ReleaseOnly = Load1
  BY <1>3, <1>4, <1>5, Join, Zenon
<1> QED
  BY <1>1, <1>2, <1>6

LEMMA VideoStepKeeps ==
    ASSUME CallStep, ~PaletteStep
    PROVE  /\ UNCHANGED <<staged, live, index, busy, shadow, dirty, uploading,
                          overlay, setPals, whole, isr, torn>>
           /\ todo # <<>> /\ todo' = <<>> \o Tail(todo)
BY DEF CallStep, PaletteStep, ReadSwap, UseSwap, Choose, Kick, Mark, Spin,
   Fence,
       Roles, Clear, Do, Proceed, Then, SameCall, SamePalette, bankVars, palVars

LEMMA StaysVideo ==
    ASSUME NEW t \in Seq(VideoSteps), t # <<>>
    PROVE  Head(t) \in VideoSteps /\ <<>> \o Tail(t) \in Seq(VideoSteps)
BY HeadTailProperties, ConcatProperties

\* The steps of the palette, by name.
LEMMA PaletteStepDoes ==
    ASSUME PaletteStep
    PROVE  /\ Head(todo) \in PaletteSteps /\ todo # <<>> /\ isr = Idle
           /\ UNCHANGED <<live, overlay, isr, torn>>
           /\ Head(todo) = "set0" \/ Head(todo) = "set1" \/ Head(todo) = "next1"
                => Store
           /\ Head(todo) = "claim" => Claim
           /\ Head(todo) = "try" => TryUpload
           /\ Head(todo) = "ready" => WaitReady
           /\ Head(todo) = "rewind" \/ Head(todo) = "write" => WriteBank
           /\ Head(todo) = "commit" => Commit
           /\ Head(todo) = "late" \/ Head(todo) = "clean"
                \/ Head(todo) = "release" => Settle
<1>1. /\ Head(todo) \in PaletteSteps /\ todo # <<>> /\ isr = Idle
      /\ UNCHANGED <<isr, torn>>
  BY PaletteStepKeeps
<1>2. UNCHANGED <<live, overlay>>
  BY DEF PaletteStep, Store, Claim, TryUpload, WaitReady, WriteBank, Commit,
     Settle, SamePalette, bankVars, palVars
<1> QED
  BY <1>1, <1>2 DEF PaletteStep, Store, Claim, TryUpload, WaitReady, WriteBank,
     Commit, Settle, Do

\* A written bank holds the shadow, or its dimmed form.
LEMMA CompleteIsVisible ==
    ASSUME shadow \in Palettes, shadow \in whole
    PROVE  [i \in Entries |-> Shade(shadow[i])] \in Visible
<1>1. CASE overlay
  BY <1>1 DEF Visible, Dimmed, Shade
<1>2. CASE ~overlay
  <2>1. [i \in Entries |-> Shade(shadow[i])] = [i \in Entries |-> shadow[i]]
    BY <1>2 DEF Shade
  <2>2. [i \in Entries |-> shadow[i]] = shadow
    BY DEF Palettes
  <2> QED
    BY <2>1, <2>2 DEF Visible
<1> QED
  BY <1>1, <1>2

-----------------------------------------------------------------------------
(***************************************************************************)
(* IPalette is inductive.                                                  *)
(***************************************************************************)

PalettePlace ==
    \/ Away \/ Asked \/ Half \/ Waits \/ Claimed
    \/ Rewinds \/ First \/ Second \/ Commits

\* Between calls the palette is nobody's.
LEMMA AwayBetween ==
    ASSUME PalettePlace, todo = <<>>
    PROVE  Away
BY StoreTakes, WriteTakes DEF PalettePlace, Asked, Half, Waits, Claimed,
   Rewinds,
   First, Second, Commits, Writes, Takes

\* A step that leaves the palette, and what stands in todo, as they are.
LEMMA PaletteSame ==
    ASSUME UNCHANGED <<staged, live, index, busy, shadow, uploading, overlay,
                       whole, todo>>,
           ~torn' => ~torn,
           todo = SetRest /\ isr = Idle /\ ~torn' => isr' = Idle, IPalette
    PROVE  IPalette'
<1>1. UNCHANGED <<Visible, MayShow>> /\ (Coming => Coming')
  BY DEF Visible, Dimmed, MayShow, Coming
<1>2. UNCHANGED <<Shade(shadow[0]), [i \in Entries |-> Shade(shadow[i])]>>
  BY DEF Shade
<1>3. /\ Away => Away'
      /\ Asked => Asked'
      /\ Half => Half'
      /\ Waits => Waits'
      /\ Claimed => Claimed'
  BY <1>1 DEF Away, Asked, Half, Waits, Claimed
<1>4. \A t, u : Writes(t, u) => Writes(t, u)'
  BY <1>1 DEF Writes
<1>5. /\ Rewinds => Rewinds'
      /\ First => First'
      /\ Second => Second'
      /\ Commits => Commits'
  BY <1>2, <1>4 DEF Rewinds, First, Second, Commits
<1>6. ~torn' => live' \in Visible'
  BY <1>1 DEF IPalette
<1> QED
  BY <1>3, <1>5, <1>6 DEF IPalette

LEMMA PaletteOutside ==
    ASSUME TypeInv, Outside, IPalette
    PROVE  IPalette'
<1>0. UNCHANGED <<program, todo, masked, sample, flipped, draw, content, frames,
                  settled, gaveUp>>
  BY OutsideIs DEF OutsideSame
<1>1. CASE EarlyBlank \/ ActiveStart \/ GpuFlip \/ OpenMenu \/ CloseMenu
  BY <1>1, PaletteSame DEF EarlyBlank, ActiveStart, GpuFlip, OpenMenu,
     CloseMenu,
     bankVars, palVars, noteVars, callVars
<1>2. CASE Interrupt
  <2>1. UNCHANGED <<staged, live, index, busy, shadow, uploading, overlay,
                    whole, todo>>
    BY <1>2 DEF Interrupt, bankVars, palVars, callVars
  <2>2. torn' = (torn \/ InWindow)
    BY <1>2 DEF Interrupt
  <2>3. todo = SetRest => InWindow
    BY StoreTakes DEF InWindow, Takes
  <2> QED
    BY <2>1, <2>2, <2>3, PaletteSame
<1>3. CASE VsyncEdge
  <2>1. UNCHANGED <<index, shadow, uploading, overlay, whole, todo, isr, torn>>
    BY <1>3 DEF VsyncEdge, palVars, callVars, noteVars
  <2>2. CASE ~busy
    <3>1. UNCHANGED <<staged, live, busy>>
      BY <1>3, <2>2 DEF VsyncEdge, TypeInv
    <3> QED
      BY <2>1, <3>1, PaletteSame
  <2>3. CASE busy
    <3>1. live' = staged /\ busy' = FALSE
      BY <1>3, <2>3 DEF VsyncEdge
    <3>2. Visible' = Visible /\ MayShow'
      BY <2>1, <3>1 DEF Visible, Dimmed, MayShow
    <3>3. ~torn => staged \in Visible
      BY <2>3 DEF IPalette, Away, Asked, Half, Waits, Claimed, Rewinds, First,
         Second, Commits, Writes, Coming, MayShow
    <3>4. Coming => Coming'
      BY <2>1, <3>2 DEF Coming
    <3>5. Away' \/ Asked' \/ Half' \/ Waits' \/ Claimed'
      BY <2>1, <2>3, <3>2, <3>4 DEF IPalette, Away, Asked, Half, Waits, Claimed,
         Rewinds, First, Second, Commits, Writes
    <3> QED
      BY <2>1, <3>1, <3>2, <3>3, <3>5 DEF IPalette
  <2> QED
    BY <2>2, <2>3
<1>4. CASE Service
  <2>1. UNCHANGED <<live, shadow, uploading, overlay, whole, todo, torn>>
        /\ isr # Idle /\ RetirePalette
    BY <1>4 DEF Service, callVars, noteVars
  <2>2. CASE ~(MayRetire /\ ~busy)
    <3>1. UNCHANGED <<staged, index, busy>>
      BY <2>1, <2>2 DEF RetirePalette
    <3> QED
      BY <2>1, <3>1, PaletteSame
  <2>3. CASE MayRetire /\ ~busy
    <3>1. staged' = shadow /\ busy' = TRUE
      BY <2>1, <2>3 DEF RetirePalette
    <3>2. ~uploading /\ ~overlay
      BY <2>3 DEF MayRetire
    <3>3. Visible' = Visible
      BY <2>1 DEF Visible, Dimmed
    <3>4. Coming => Coming'
      BY <2>1, <3>1, <3>3 DEF Coming, MayShow, Visible
    <3>5. Away' \/ Asked' \/ (Half /\ torn)
      BY <2>1, <3>2, <3>4 DEF IPalette, Away, Asked, Half, Waits, Claimed,
         Rewinds, First, Second, Commits, Writes
    <3>6. Half /\ torn => Half'
      BY <2>1 DEF Half
    <3> QED
      BY <2>1, <3>3, <3>5, <3>6 DEF IPalette
  <2> QED
    BY <2>2, <2>3
<1> QED
  BY <1>1, <1>2, <1>3, <1>4 DEF Outside

LEMMA PaletteAppCall ==
    ASSUME IPalette, AppCall
    PROVE  IPalette'
<1>0. ASSUME NEW c, NEW m, Enter(c, m)
      PROVE  /\ Away /\ todo' = Steps[c]
             /\ UNCHANGED <<staged, live, index, busy, torn>>
  BY <1>0, AwayBetween DEF Enter, bankVars, IPalette, PalettePlace
<1>1. ASSUME UNCHANGED <<staged, live, busy, torn, shadow, uploading, whole>>,
             Away, todo' \in Seq(VideoSteps)
                     \/ todo' \in {SetFirst, SetSecond, SetBoth, ClaimOnly}
      PROVE  IPalette'
  <2>1. Visible' = Visible /\ MayShow' = MayShow /\ (Coming => Coming')
    BY <1>1 DEF Visible, Dimmed, MayShow, Coming
  <2>2. Away' \/ Asked'
    BY <1>1, <2>1 DEF Away, Asked
  <2>3. ~torn' => live' \in Visible'
    BY <1>1, <2>1 DEF IPalette
  <2> QED
    BY <2>2, <2>3 DEF IPalette
<1>2. ASSUME NEW m \in BOOLEAN, Flip(m) PROVE IPalette'
  BY <1>0, <1>1, <1>2, CallsTyped DEF Flip, palVars, VideoCalls
<1>3. CASE FlipByGpu
  <2>1. Enter("acquire", FALSE) /\ UNCHANGED <<shadow, uploading, whole>>
    BY <1>3 DEF FlipByGpu, palVars
  <2>2. Steps["acquire"] \in Seq(VideoSteps)
    BY CallsTyped DEF VideoCalls
  <2> QED
    BY <1>0, <1>1, <2>1, <2>2
<1>4. ASSUME NEW c, NEW m, Plain(c, m) PROVE IPalette'
  BY <1>0, <1>1, <1>4, CallsTyped DEF Plain, palVars, VideoCalls
<1>5. /\ Steps["single0"] = SetFirst /\ Steps["single1"] = SetSecond
      /\ Steps["bulk"] = SetBoth /\ Steps["overlay"] = ClaimOnly
  BY DEF Steps, SetFirst, SetSecond, SetBoth, ClaimOnly
<1>6. ASSUME NEW c, NEW m, SetPalette(c, m) PROVE IPalette'
  <2>1. /\ Enter(c, m) /\ c \in {"single0", "single1", "bulk"}
        /\ UNCHANGED <<shadow, uploading, whole>>
    BY <1>6 DEF SetPalette
  <2>2. Steps[c] \in {SetFirst, SetSecond, SetBoth, ClaimOnly}
    BY <1>5, <2>1
  <2> QED
    BY <1>0, <1>1, <2>1, <2>2
<1>7. CASE SetDisplayMode
  <2>1. Enter("overlay", FALSE) /\ UNCHANGED <<shadow, uploading, whole>>
    BY <1>7 DEF SetDisplayMode
  <2> QED
    BY <1>0, <1>1, <1>5, <2>1
<1> QED
  BY <1>2, <1>3, <1>4, <1>6, <1>7 DEF AppCall

-----------------------------------------------------------------------------
(***************************************************************************)
(* The palette through the steps of a call.                                *)
(***************************************************************************)

\* Where a palette call stands, its next step is one of the palette's.
LEMMA NamesPaletteStep ==
    ASSUME Asked \/ Half \/ Waits \/ Claimed \/ Rewinds \/ First \/ Second
             \/ Commits
    PROVE  Head(todo) \in PaletteSteps
<1>1. CASE Asked \/ Half
  BY <1>1, StoreTakes DEF Asked, Half, Takes, PaletteSteps
<1>2. CASE Waits \/ Claimed
  BY <1>2, StoreTakes DEF Waits, Claimed, Takes, PaletteSteps
<1>3. CASE Rewinds \/ First
  BY <1>3, WriteTakes DEF Rewinds, First, Writes, Takes, PaletteSteps
<1>4. CASE Second \/ Commits
  BY <1>4, WriteTakes DEF Second, Commits, Writes, Takes, PaletteSteps
<1> QED
  BY <1>1, <1>2, <1>3, <1>4

LEMMA PaletteByVideo ==
    ASSUME IPalette, CallStep, ~PaletteStep
    PROVE  IPalette'
<1>1. /\ UNCHANGED <<staged, live, index, busy, shadow, uploading, overlay,
                     whole, torn>>
      /\ todo # <<>> /\ todo' = <<>> \o Tail(todo)
  BY VideoStepKeeps
<1>2. Head(todo) \notin PaletteSteps
  BY PaletteStepIs
<1>3. Away
  BY <1>2, NamesPaletteStep DEF IPalette
<1>4. todo' \in Seq(VideoSteps)
  BY <1>1, <1>3, StaysVideo DEF Away
<1>5. Visible' = Visible /\ MayShow' = MayShow /\ (Coming => Coming')
  BY <1>1 DEF Visible, Dimmed, MayShow, Coming
<1>6. Away'
  BY <1>1, <1>3, <1>4, <1>5 DEF Away
<1> QED
  BY <1>1, <1>5, <1>6 DEF IPalette

\* The last store of a call makes a palette of the application's.
LEMMA PaletteByStore ==
    ASSUME TypeInv, IPalette, Store
    PROVE  IPalette'
<1>1. /\ UNCHANGED <<staged, live, index, busy, uploading, overlay, isr, torn>>
      /\ todo' = <<>> \o Tail(todo) /\ todo # <<>> /\ isr = Idle
      /\ Head(todo) \in {"set0", "set1", "next1"}
      /\ whole' = IF Head(todo') = "claim" THEN whole \cup {shadow'} ELSE whole
  BY DEF Store, SameVideo, SameCall, SameRoles, bankVars, Do, Then, Proceed
<1>2. Visible \subseteq Visible'
  BY <1>1 DEF Visible, Dimmed
<1>3. ~torn' => live' \in Visible'
  BY <1>1, <1>2 DEF IPalette
<1>4. MayShow => MayShow'
  BY <1>1, <1>2 DEF MayShow
<1>5. \/ todo = SetFirst \/ todo = SetSecond \/ todo = SetBoth \/ todo = SetRest
  <2>1. Head(todo) \notin VideoSteps
    BY <1>1 DEF VideoSteps
  <2>2. ~Away
    BY <1>1, <2>1, StaysVideo DEF Away
  <2> QED
    BY <1>1, <2>2, StoreTakes, WriteTakes DEF IPalette, Asked, Half, Waits,
       Claimed, Rewinds, First, Second, Commits, Writes, Takes
<1>6. ~uploading /\ (~torn => MayShow)
  BY <1>5, StoreTakes, WriteTakes DEF IPalette, Away, Asked, Half, Waits,
     Claimed,
     Rewinds, First, Second, Commits, Writes, Coming, Takes, SetFirst,
     SetSecond,
     SetBoth, SetRest, Upload, LateOnly, Load5, ReleaseOnly, Install, Bank1,
     Bank2, Bank3, Bank4, Load1, Load2, Load3, Load4, VideoSteps
<1>7. CASE todo \in {SetFirst, SetSecond, SetRest}
  <2>1. todo' = ClaimOnly /\ Head(todo') = "claim"
    BY <1>1, <1>7, StoreTakes DEF Takes
  <2>2. shadow' \in whole'
    BY <1>1, <2>1
  <2>3. Asked'
    BY <1>1, <1>4, <1>6, <2>1, <2>2 DEF Asked, Coming
  <2> QED
    BY <1>3, <2>3 DEF IPalette
<1>8. CASE todo = SetBoth
  <2>1. todo' = SetRest
    BY <1>1, <1>8, StoreTakes DEF Takes
  <2>2. Half'
    BY <1>1, <1>4, <1>6, <2>1 DEF Half
  <2> QED
    BY <1>3, <2>2 DEF IPalette
<1> QED
  BY <1>5, <1>7, <1>8

\* Where a step of the palette other than a store stands.
LEMMA StandsAt ==
    ASSUME IPalette, todo # <<>>, Head(todo) \in PaletteSteps
    PROVE  /\ Head(todo) = "claim" => Asked /\ todo = ClaimOnly
           /\ Head(todo) = "ready" => Waits
           /\ Head(todo) = "try" => Claimed /\ todo = Upload
           /\ Head(todo) \in {"late", "clean", "release"} =>
                Claimed /\ todo \in {LateOnly, Load5, ReleaseOnly}
           /\ Head(todo) = "rewind" => Rewinds
           /\ Head(todo) = "write" => First \/ Second
           /\ Head(todo) = "commit" => Commits
<1>1. Head(todo) \notin VideoSteps
  BY DEF PaletteSteps, VideoSteps
<1>2. ~Away
  BY <1>1, StaysVideo DEF Away
<1>3. Asked \/ Half \/ Waits \/ Claimed \/ Rewinds \/ First \/ Second \/ Commits
  BY <1>2 DEF IPalette
<1>4. /\ Head(SetFirst) = "set0" /\ Head(SetSecond) = "set1"
      /\ Head(SetBoth) = "set0" /\ Head(SetRest) = "next1"
      /\ Head(ClaimOnly) = "claim" /\ Head(Install) = "ready"
      /\ Head(LateOnly) = "late" /\ Head(ReleaseOnly) = "release"
      /\ Head(Load5) = "clean" /\ Head(Upload) = "try"
  BY StoreTakes DEF Takes
<1>5. /\ Head(Bank1) = "rewind" /\ Head(Load1) = "rewind"
      /\ Head(Bank2) = "write" /\ Head(Load2) = "write"
      /\ Head(Bank3) = "write" /\ Head(Load3) = "write"
      /\ Head(Bank4) = "commit" /\ Head(Load4) = "commit"
  BY WriteTakes DEF Takes
<1>6. CASE Asked
  BY <1>4, <1>6 DEF Asked
<1>7. CASE Half
  BY <1>4, <1>7 DEF Half
<1>8. CASE Waits
  BY <1>4, <1>8 DEF Waits
<1>9. CASE Claimed
  BY <1>4, <1>9 DEF Claimed
<1>10. CASE Rewinds
  BY <1>5, <1>10 DEF Rewinds, Writes
<1>11. CASE First
  BY <1>5, <1>11 DEF First, Writes
<1>12. CASE Second
  BY <1>5, <1>12 DEF Second, Writes
<1>13. CASE Commits
  BY <1>5, <1>13 DEF Commits, Writes
<1> QED
  BY <1>3, <1>6, <1>7, <1>8, <1>9, <1>10, <1>11, <1>12, <1>13

\* The overlay's palette is written at once, any other after its claim.
LEMMA PaletteByClaim ==
    ASSUME IPalette, Claim
    PROVE  IPalette'
<1>1. /\ UNCHANGED <<staged, live, index, busy, shadow, overlay, whole, isr,
                     torn>>
      /\ Head(todo) = "claim" /\ todo # <<>>
      /\ IF overlay THEN todo' = Install \o Tail(todo) /\ uploading' = uploading
         ELSE todo' = Upload \o Tail(todo) /\ uploading' = TRUE
  BY DEF Claim, SameVideo, SameCall, SameRoles, bankVars, Do, Then
<1>2. todo = ClaimOnly /\ Asked
  BY <1>1, StandsAt DEF PaletteSteps
<1>3. UNCHANGED <<Visible, MayShow>> /\ (Coming => Coming')
  BY <1>1 DEF Visible, Dimmed, MayShow, Coming
<1>4. ~torn' => live' \in Visible'
  BY <1>1, <1>3 DEF IPalette
<1>5. IF overlay THEN todo' = Install /\ uploading' = uploading
      ELSE todo' = Upload /\ uploading' = TRUE
  BY <1>1, <1>2, ThenTakes
<1>6. Waits' \/ Claimed'
  BY <1>1, <1>2, <1>3, <1>5 DEF Asked, Waits, Claimed
<1> QED
  BY <1>4, <1>6 DEF IPalette

LEMMA PaletteByTry ==
    ASSUME IPalette, TryUpload
    PROVE  IPalette'
<1>1. /\ UNCHANGED <<staged, live, index, busy, shadow, uploading, overlay,
                     whole, isr, torn>>
      /\ Head(todo) = "try" /\ todo # <<>>
      /\ IF busy THEN todo' = Refused \o Tail(todo)
         ELSE todo' = (Tail(Install) \o <<"clean">>) \o Tail(todo)
  BY DEF TryUpload, SameVideo, SameCall, SameRoles, SamePalette, bankVars,
     palVars, Do, Then
<1>2. todo = Upload /\ Claimed
  BY <1>1, StandsAt DEF PaletteSteps
<1>3. UNCHANGED <<Visible, MayShow>> /\ (Coming => Coming')
  BY <1>1 DEF Visible, Dimmed, MayShow, Coming
<1>4. ~torn' => live' \in Visible'
  BY <1>1, <1>3 DEF IPalette
<1>5. IF busy THEN todo' = LateOnly ELSE todo' = Load1
  BY <1>1, <1>2, ThenTakes
<1>6. Claimed' \/ Rewinds'
  BY <1>1, <1>2, <1>3, <1>5 DEF Claimed, Rewinds, Writes
<1> QED
  BY <1>4, <1>6 DEF IPalette

\* The steps that only wait, or note the outcome.
LEMMA PaletteByWait ==
    ASSUME IPalette, WaitReady \/ Settle
    PROVE  IPalette'
<1>1. /\ UNCHANGED <<staged, live, index, busy, shadow, overlay, whole, isr,
                     torn>>
      /\ todo # <<>> /\ todo' = <<>> \o Tail(todo)
      /\ \/ Head(todo) = "ready" /\ ~busy /\ uploading' = uploading
         \/ Head(todo) \in {"late", "clean"} /\ uploading' = uploading
         \/ Head(todo) = "release" /\ uploading' = FALSE
  BY DEF WaitReady, Settle, SameVideo, SameCall, SameRoles, SamePalette,
     bankVars, palVars, Do, Then, Proceed
<1>2. UNCHANGED <<Visible, MayShow>> /\ (Coming => Coming')
  BY <1>1 DEF Visible, Dimmed, MayShow, Coming
<1>3. ~torn' => live' \in Visible'
  BY <1>1, <1>2 DEF IPalette
<1>4. CASE Head(todo) = "ready"
  <2>1. Waits /\ todo = Install
    BY <1>1, <1>4, StandsAt DEF PaletteSteps, Waits
  <2>2. todo' = Bank1
    BY <1>1, <2>1, StoreTakes DEF Takes
  <2>3. Rewinds'
    BY <1>1, <1>2, <1>4, <2>1, <2>2 DEF Waits, Rewinds, Writes
  <2> QED
    BY <1>3, <2>3 DEF IPalette
<1>5. CASE Head(todo) \in {"late", "clean"}
  <2>1. Claimed /\ todo \in {LateOnly, Load5, ReleaseOnly}
    BY <1>1, <1>5, StandsAt DEF PaletteSteps
  <2>2. todo' = ReleaseOnly
    BY <1>1, <1>5, <2>1, StoreTakes DEF Takes
  <2>3. Claimed'
    BY <1>1, <1>2, <1>5, <2>1, <2>2 DEF Claimed
  <2> QED
    BY <1>3, <2>3 DEF IPalette
<1>6. CASE Head(todo) = "release"
  <2>1. Claimed /\ todo \in {LateOnly, Load5, ReleaseOnly}
    BY <1>1, <1>6, StandsAt DEF PaletteSteps
  <2>2. todo' = <<>>
    BY <1>1, <1>6, <2>1, StoreTakes DEF Takes
  <2>3. todo' \in Seq(VideoSteps)
    BY <2>2
  <2>4. Away'
    BY <1>1, <1>2, <1>6, <2>1, <2>3 DEF Claimed, Away
  <2> QED
    BY <1>3, <2>4 DEF IPalette
<1> QED
  BY <1>1, <1>4, <1>5, <1>6

LEMMA WriteRests ==
    /\ <<>> \o Tail(Bank1) = Bank2 /\ <<>> \o Tail(Load1) = Load2
    /\ <<>> \o Tail(Bank2) = Bank3 /\ <<>> \o Tail(Load2) = Load3
    /\ <<>> \o Tail(Bank3) = Bank4 /\ <<>> \o Tail(Load3) = Load4
    /\ <<>> \o Tail(Bank4) = <<>> /\ <<>> \o Tail(Load4) = Load5
BY WriteTakes DEF Takes

\* The bank is written in the order of the entries, from the shadow.
LEMMA PaletteByWrite ==
    ASSUME TypeInv, IPalette, WriteBank
    PROVE  IPalette'
<1>1. /\ UNCHANGED <<live, busy, shadow, uploading, overlay, whole, isr, torn>>
      /\ todo # <<>> /\ todo' = <<>> \o Tail(todo)
      /\ \/ Head(todo) = "rewind" /\ index' = 0 /\ staged' = staged
         \/ /\ Head(todo) = "write" /\ index' = AfterIndex(index)
            /\ staged' = [staged EXCEPT ![index] =
                    Shade(shadow[IF todo[2] = "write" THEN 0 ELSE 1])]
  BY DEF WriteBank, SameVideo, SameCall, SameRoles, palVars, Do, Then, Proceed
<1>2. Visible' = Visible /\ Shade(shadow[0])' = Shade(shadow[0])
      /\ Shade(shadow[1])' = Shade(shadow[1])
  BY <1>1 DEF Visible, Dimmed, Shade
<1>3. ~torn' => live' \in Visible'
  BY <1>1, <1>2 DEF IPalette
<1>4. staged \in Palettes /\ shadow \in Palettes
  BY DEF TypeInv
<1>5. ~busy /\ Coming => Coming'
  BY <1>1 DEF Coming, MayShow
<1>6. CASE Head(todo) = "rewind"
  <2>1. Rewinds
    BY <1>1, <1>6, StandsAt DEF PaletteSteps
  <2>2. \/ todo = Bank1 /\ todo' = Bank2
        \/ todo = Load1 /\ todo' = Load2
    <3>1. todo = Bank1 \/ todo = Load1
      BY <2>1 DEF Rewinds, Writes
    <3>2. todo' = <<>> \o Tail(todo)
      BY <1>1
    <3>3. /\ todo = Bank1 => todo' = <<>> \o Tail(Bank1)
          /\ todo = Load1 => todo' = <<>> \o Tail(Load1)
      BY <3>2, Zenon
    <3> QED
      BY <3>1, <3>3, WriteRests
  <2>3. Bank1 # Load1
    BY DEF Bank1, Load1
  <2>4. First'
    BY <1>1, <1>5, <1>6, <2>1, <2>2, <2>3 DEF Rewinds, First, Writes
  <2> QED
    BY <1>3, <2>4 DEF IPalette
<1>7. CASE Head(todo) = "write" /\ First
  <2>1. \/ todo = Bank2 /\ todo' = Bank3
        \/ todo = Load2 /\ todo' = Load3
    <3>1. todo = Bank2 \/ todo = Load2
      BY <1>7 DEF First, Writes
    <3>2. todo' = <<>> \o Tail(todo)
      BY <1>1
    <3>3. /\ todo = Bank2 => todo' = <<>> \o Tail(Bank2)
          /\ todo = Load2 => todo' = <<>> \o Tail(Load2)
      BY <3>2, Zenon
    <3> QED
      BY <3>1, <3>3, WriteRests
  <2>2. todo[2] = "write" /\ index = 0
    BY <1>7, <2>1, WriteTakes DEF First
  <2>3. Bank2 # Load2
    BY DEF Bank2, Load2
  <2>4. index' = 1
    BY <1>1, <1>7, <2>2, NextIndex DEF Entries
  <2>5. staged' = [staged EXCEPT ![0] = Shade(shadow[0])]
    BY <1>1, <1>7, <2>2
  <2>6. staged'[0] = Shade(shadow[0])'
    BY <1>2, <1>4, <2>5 DEF Palettes, Entries
  <2>7. Writes(Bank3, Load3)'
    BY <1>1, <1>5, <1>7, <2>1, <2>3 DEF First, Writes
  <2>8. Second'
    BY <2>4, <2>6, <2>7 DEF Second, Shade
  <2> QED
    BY <1>3, <2>8 DEF IPalette
<1>8. CASE Head(todo) = "write" /\ Second
  <2>1. \/ todo = Bank3 /\ todo' = Bank4
        \/ todo = Load3 /\ todo' = Load4
    <3>1. todo = Bank3 \/ todo = Load3
      BY <1>8 DEF Second, Writes
    <3>2. todo' = <<>> \o Tail(todo)
      BY <1>1
    <3>3. /\ todo = Bank3 => todo' = <<>> \o Tail(Bank3)
          /\ todo = Load3 => todo' = <<>> \o Tail(Load3)
      BY <3>2, Zenon
    <3> QED
      BY <3>1, <3>3, WriteRests
  <2>2. todo[2] # "write" /\ index = 1 /\ staged[0] = Shade(shadow[0])
    BY <1>8, <2>1, WriteTakes DEF Second
  <2>3. Bank3 # Load3
    BY DEF Bank3, Load3
  <2>4. staged' = [staged EXCEPT ![1] = Shade(shadow[1])]
    BY <1>1, <1>8, <2>2
  <2>5. staged' = [i \in Entries |-> Shade(shadow[i])]
    <3>1. Entries = {0, 1}
      BY DEF Entries
    <3>2. [staged EXCEPT ![1] = Shade(shadow[1])] =
            [i \in Entries |-> IF i = 1 THEN Shade(shadow[1]) ELSE staged[i]]
      BY <1>4 DEF Palettes
    <3>3. \A i \in Entries : (IF i = 1 THEN Shade(shadow[1]) ELSE staged[i])
                              = Shade(shadow[i])
      BY <2>2, <3>1
    <3> QED
      BY <2>4, <3>2, <3>3
  <2>6. staged' = [i \in Entries |-> Shade(shadow[i])]'
    BY <1>1, <2>5 DEF Shade
  <2>7. Writes(Bank4, Load4)'
    BY <1>1, <1>5, <1>8, <2>1, <2>3 DEF Second, Writes
  <2>8. Commits'
    BY <2>6, <2>7 DEF Commits
  <2> QED
    BY <1>3, <2>8 DEF IPalette
<1>9. Head(todo) = "write" => First \/ Second
  BY <1>1, StandsAt DEF PaletteSteps
<1> QED
  BY <1>1, <1>6, <1>7, <1>8, <1>9

LEMMA PaletteByCommit ==
    ASSUME TypeInv, IPalette, Commit
    PROVE  IPalette'
<1>1. /\ UNCHANGED <<staged, live, shadow, uploading, overlay, whole, isr,
                     torn>>
      /\ Head(todo) = "commit" /\ todo # <<>> /\ todo' = <<>> \o Tail(todo)
      /\ busy' = TRUE
  BY DEF Commit, SameVideo, SameCall, SameRoles, palVars, Do, Then, Proceed
<1>2. Visible' = Visible
  BY <1>1 DEF Visible, Dimmed
<1>3. ~torn' => live' \in Visible'
  BY <1>1, <1>2 DEF IPalette
<1>4. Commits
  BY <1>1, StandsAt DEF PaletteSteps
<1>5. ~torn => shadow \in whole /\ staged \in Visible
  BY <1>4, CompleteIsVisible DEF Commits, Writes, Coming, TypeInv
<1>6. Coming'
  BY <1>1, <1>2, <1>5 DEF Coming, MayShow
<1>7. CASE todo = Bank4 /\ overlay /\ ~uploading
  <2>1. todo' \in Seq(VideoSteps)
    <3>1. todo' = <<>>
      BY <1>1, <1>7, WriteRests
    <3> QED
      BY <3>1
  <2>2. Away'
    BY <1>1, <1>6, <1>7, <2>1 DEF Away
  <2> QED
    BY <1>3, <2>2 DEF IPalette
<1>8. CASE todo = Load4 /\ uploading
  <2>1. todo' = Load5
    BY <1>1, <1>8, WriteRests
  <2>2. Claimed'
    BY <1>1, <1>6, <1>8, <2>1 DEF Claimed
  <2> QED
    BY <1>3, <2>2 DEF IPalette
<1> QED
  BY <1>4, <1>7, <1>8 DEF Commits, Writes

LEMMA PaletteByCall ==
    ASSUME TypeInv, IPalette, CallStep
    PROVE  IPalette'
<1>1. CASE ~PaletteStep
  BY <1>1, PaletteByVideo
<1>2. CASE PaletteStep
  BY <1>2, PaletteByStore, PaletteByClaim, PaletteByTry, PaletteByWait,
     PaletteByWrite, PaletteByCommit DEF PaletteStep
<1> QED
  BY <1>1, <1>2

LEMMA PaletteInit == Init => IPalette
<1> SUFFICES ASSUME Init PROVE IPalette
  OBVIOUS
<1>1. /\ todo = <<>> /\ ~uploading /\ ~busy /\ live = shadow
      /\ shadow \in whole
  BY DEF Init
<1>2. todo \in Seq(VideoSteps)
  BY <1>1
<1> QED
  BY <1>1, <1>2 DEF IPalette, Away, Coming, MayShow, Visible

LEMMA PaletteNext ==
    TypeInv /\ IPalette /\ [Next]_vars => IPalette'
<1> SUFFICES ASSUME TypeInv, IPalette, [Next]_vars
             PROVE  IPalette'
  OBVIOUS
<1>1. CASE Outside
  BY <1>1, PaletteOutside
<1>2. CASE AppCall
  BY <1>2, PaletteAppCall
<1>3. CASE CallStep
  BY <1>3, PaletteByCall
<1>4. CASE UNCHANGED vars
  BY <1>4, PaletteSame DEF vars, bankVars, palVars, callVars, noteVars
<1> QED
  BY <1>1, <1>2, <1>3, <1>4 DEF Next, Outside

-----------------------------------------------------------------------------
(***************************************************************************)
(* The invariant, and what follows from it.                                *)
(***************************************************************************)

IInv == TypeInv /\ IVideo /\ IPalette

\* The invariant of the swap and of the palette holds of every run: every call
\* of video.c has a known place in its steps and leaves the buffers, the swap
\* slot, the GPU's queue and the banks as that place says.
THEOREM Invariance == Spec => []IInv
<1>1. Init => IInv
  BY TypeInit, VideoInit, PaletteInit DEF IInv
<1>2. IInv /\ [Next]_vars => IInv'
  BY TypeNext, VideoNext, PaletteNext DEF IInv
<1> QED
  BY <1>1, <1>2, PTL DEF Spec

\* Every variable of the swap registers, the kernel's roles and the palette
\* keeps its type: no call drives a buffer index or the palette's index out of
\* range (axi_periph_slave.v, video.c).
THEOREM TypesHold == Spec => []TypeOK
<1>1. IInv => TypeOK
  BY TypesGiven DEF IInv
<1> QED
  BY <1>1, Invariance, PTL

\* What is known of the pictures wherever a call stands.
LEMMA SomeView ==
    ASSUME IVideo, Good
    PROVE  (\E f \in MaybeBuffer, d \in BOOLEAN : View(f, d)) \/ Rekicked
<1>1. None \in MaybeBuffer /\ Buffers \subseteq MaybeBuffer
  BY DEF MaybeBuffer
<1>2. AtRest \/ AtWait \/ AtVsync \/ AtInit => View(None, FALSE) \/ Rekicked
  BY DEF AtRest, AtWait, WaitBegun, WaitSpun, WaitSampled, AtVsync, VsyncBegun,
     VsyncKicked, AtInit, InitBegun, InitReset
<1>3. ASSUME NEW f \in Buffers, AtFlip(f)
      PROVE  View(None, TRUE) \/ View(f, TRUE) \/ View(None, FALSE)
  BY <1>3 DEF AtFlip, FlipDrawn, FlipSampled, FlipKicked, FlipMarked
<1>4. ASSUME NEW f \in Buffers, AtAcquire(f)
      PROVE  View(f, TRUE) \/ View(None, FALSE)
  BY <1>4 DEF AtAcquire, AcqGiven, AcqSampled, AcqRetired, AcqSeen, AcqSynced,
     AcqMarked, AcqAgain
<1>5. ASSUME NEW f \in Buffers, AtMode(f)
      PROVE  View(None, TRUE) \/ View(f, TRUE) \/ View(None, FALSE)
  BY <1>5 DEF AtMode, ModeBegun, ModeReset, ModeCleared, ModeSampled,
     ModeKicked,
     ModeMarked, ModeSpun, ModeSeen, ModeSynced
<1> QED
  BY <1>1, <1>2, <1>3, <1>4, <1>5 DEF IVideo

\* At rest the buffer drawn into is neither the one on the screen nor the one
\* next to it.
LEMMA RestIsUntouched ==
    ASSUME Shapes, View(None, FALSE), Spare
    PROVE  Untouched
<1>1. Shown(None) \/ Queued(None)
  BY DEF View, Pipe, Behind, Third
<1>2. queue = <<>> /\ draw # showing /\ (pending => draw # ready)
  BY <1>1 DEF Shown, Queued, LastOf, Top, Spare
<1>3. ~Contains(queue, draw)
  BY <1>2 DEF Contains
<1> QED
  BY <1>2, <1>3 DEF Untouched

\* The buffer of_video_acquire_next and of_video_flip leave in buf_draw is
\* neither scanned out, nor in the swap slot, nor queued at the GPU, whatever
\* the interrupts, the GPU and the menu did meanwhile.
THEOREM DrawIsFreeHolds == Spec => []DrawIsFree
<1>1. IInv => DrawIsFree
  <2> SUFFICES ASSUME IInv, todo = <<>>, Good PROVE Untouched
    BY DEF DrawIsFree, Good
  <2>1. View(None, FALSE) /\ Spare
    BY RestBetween DEF IInv, AtRest
  <2> QED
    BY <2>1, RestIsUntouched DEF IInv, TypeInv
<1> QED
  BY <1>1, Invariance, PTL

\* timing_present_count counts a frame once, and only one that reached the
\* screen, whether the call or the interrupt counts it (sync_swap_state).
THEOREM PresentsWereShownHolds == Spec => []PresentsWereShown
<1>1. IInv => PresentsWereShown
  <2> SUFFICES ASSUME IInv, Good
               PROVE  presents <=
                        Cardinality((seen \cup {content[showing]}) \ {0})
    BY DEF PresentsWereShown, Good
  <2>1. PICK d \in BOOLEAN : Bound(d)
    BY SomeView DEF IInv, View, Rekicked
  <2>2. IsFiniteSet(OnScreen)
    <3>1. IsFiniteSet(0..frames)
      BY FS_Interval DEF IInv, TypeInv, Shapes
    <3>2. OnScreen \subseteq 0..frames
      BY DEF OnScreen, IInv, TypeInv, Shapes
    <3> QED
      BY <3>1, <3>2, FS_Subset
  <2>3. AtMost(presents, OnScreen)
    <3>1. presents \in Int /\ OnScreen \ Uncounted(d) \subseteq OnScreen
      BY DEF IInv, TypeInv, Shapes
    <3> QED
      BY <2>1, <2>2, <3>1, AtMostMore DEF Bound
  <2> QED
    BY <2>3 DEF AtMost, OnScreen
<1> QED
  BY <1>1, Invariance, PTL

\* The visible bank is a whole palette of the application's, or its dimmed
\* form: neither the interrupt nor the overlay uploads into the middle of an
\* upload (pal_uploading, PAL_INDEX_BUSY).
THEOREM LiveIsWholeHolds == Spec => []LiveIsWhole
<1>1. IInv => LiveIsWhole
  BY DEF IInv, IPalette, LiveIsWhole, Visible, Dimmed
<1> QED
  BY <1>1, Invariance, PTL

\* A swap taken shows no older frame than the one on the screen.
LEMMA QueuedIsNotOlder ==
    ASSUME IVideo, Good, pending
    PROVE  NotAfter(content[showing], content[ready]) \/ ready = showing
BY SomeView DEF View, Pictures, Rekicked

LEMMA ScreenKeepsOrder ==
    ASSUME TypeInv, IVideo, Good, [Next]_vars
    PROVE  NotAfter(content[showing], content'[showing'])
<1>0. \A m \in Int : NotAfter(m, m)
  BY DEF NotAfter
<1>1. content[showing] \in Int
  BY DEF TypeInv, Shapes
<1>2. CASE UNCHANGED <<showing, content>>
  BY <1>0, <1>1, <1>2
<1>3. CASE pending /\ showing' = ready /\ content' = content
  BY <1>0, <1>1, <1>3, QueuedIsNotOlder
<1>4. CASE AppCall
  <2>1. CASE DrawFrame
    <3>1. showing' = showing /\ todo = <<>>
      BY <1>4 DEF AppCall, Flip, FlipByGpu, Plain, SetPalette, SetDisplayMode,
         Enter, hwVars
    <3>2. View(None, FALSE) /\ Spare
      BY <3>1, RestBetween DEF AtRest
    <3>3. draw # showing
      BY <3>2, RestIsUntouched DEF TypeInv, Untouched
    <3>4. content'[showing] = content[showing]
      BY <2>1, <3>3 DEF DrawFrame, TypeInv, Shapes
    <3> QED
      BY <1>0, <1>1, <3>1, <3>4
  <2>2. CASE ~DrawFrame
    <3>1. UNCHANGED <<showing, content>>
      BY <1>4, <2>2 DEF AppCall, Flip, FlipByGpu, Plain, SetPalette,
         SetDisplayMode, Enter, hwVars, frameVars
    <3> QED
      BY <1>2, <3>1
  <2> QED
    BY <2>1, <2>2
<1>5. CASE Clear
  <2>1. showing' = showing /\ content' = [b \in Buffers |-> frames + 1]
    BY <1>5 DEF Clear, SameSwap, hwVars
  <2>2. content'[showing'] = frames + 1
    BY <2>1 DEF TypeInv, Shapes
  <2>3. NotAfter(content[showing], frames + 1)
    BY DEF NotAfter, TypeInv, Shapes
  <2> QED
    BY <2>2, <2>3
<1>6. CASE CallStep /\ ~Clear
  <2>1. UNCHANGED <<showing, content>>
    BY <1>6 DEF CallStep, ReadSwap, UseSwap, Choose, Kick, Mark, Spin, Fence,
       Roles, Store, Claim, TryUpload, WaitReady, WriteBank, Commit, Settle,
       SameSwap, SameVideo, SameRoles, hwVars, frameVars
  <2> QED
    BY <1>2, <2>1
<1>7. CASE Outside
  <2>1. content' = content
    BY <1>7 DEF Outside, VsyncEdge, EarlyBlank, ActiveStart, GpuFlip, OpenMenu,
       CloseMenu, Interrupt, Service, frameVars
  <2>2. showing' = showing \/ (pending /\ showing' = ready)
    BY <1>7 DEF Outside, VsyncEdge, EarlyBlank, ActiveStart, GpuFlip, OpenMenu,
       CloseMenu, Interrupt, Service, hwVars, Consume, MaySwapLate
  <2> QED
    BY <1>2, <1>3, <2>1, <2>2
<1>8. CASE UNCHANGED vars
  BY <1>2, <1>8 DEF vars, hwVars, frameVars
<1> QED
  BY <1>4, <1>5, <1>6, <1>7, <1>8 DEF Next, Outside

\* The screen never goes back to an older frame, through the CPU's kick, the
\* GPU's CMD_FLIP, a late swap in the blank lines and a cleared mode alike.
THEOREM FramesInOrderHolds == Spec => FramesInOrder
<1>1. IInv /\ [Next]_vars =>
        [~gaveUp /\ ~torn => content'[showing'] >= content[showing]]_vars
  <2> SUFFICES ASSUME IInv, [Next]_vars, ~gaveUp, ~torn
               PROVE  content'[showing'] >= content[showing]
    OBVIOUS
  <2>1. NotAfter(content[showing], content'[showing'])
    BY ScreenKeepsOrder DEF IInv, Good
  <2>2. \A m, n : NotAfter(n, m) => m >= n
    BY DEF NotAfter
  <2> QED
    BY <2>1, <2>2, Zenon
<1> QED
  BY <1>1, Invariance, PTL DEF Spec, FramesInOrder
=============================================================================

------------------------------ MODULE Display ------------------------------
(***************************************************************************)
(* The three framebuffers and the palette of the Pocket and MiSTer video   *)
(* path: the swap registers of axi_periph_slave.v, the flip command of the *)
(* GPU, the palette banks of the scanout, and the kernel's video.c, whose  *)
(* calls run in the application's thread while the vertical-sync interrupt *)
(* runs the same bookkeeping.                                              *)
(*                                                                         *)
(* A frame is the number of the draw that made it.  A palette has two      *)
(* entries; an entry is the number of the call that set it, negative when  *)
(* dimmed for the overlay.  A call is the list of its remaining steps in   *)
(* `todo': one step per access to a register, or per run of statements     *)
(* that touch only the kernel's own variables.  Refresh-rate arithmetic,   *)
(* cache cleaning and mode registers are left out.                         *)
(***************************************************************************)
EXTENDS Integers, Sequences, FiniteSets, SequencesExt

CONSTANTS
    Programs,    \* bound: the calls and events of a run, one set per run
    FrameMax,    \* bound: frames drawn
    PaletteMax,  \* bound: palettes set
    FreezeMax    \* bound: times the menu is opened

ASSUME BoundAssumption ==
    /\ Programs \subseteq SUBSET {"flip", "acquire", "wait", "vsync", "mode",
                                  "init", "single0", "single1", "bulk",
                                  "overlay", "menu"}
    /\ {FrameMax, PaletteMax, FreezeMax} \subseteq Nat

VARIABLES
    phase,     \* "blank" or "active" lines
    showing,   \* fb_display_idx
    ready,     \* fb_ready_idx
    pending,   \* fb_swap_pending
    consumed,  \* fb_swap_consumed_this_frame
    irq,       \* vsync_irq_pending
    frozen,    \* video_frozen: the menu is open
    opened,    \* times the menu has been opened
    queue,     \* buffers of the CMD_FLIPs the GPU has not retired
    draw, display, next,  \* buf_draw, buf_display, buf_ready
    kicked,    \* swap_kicked
    fresh,     \* buf_ready_serial differs from counted_ready_serial
    presents,  \* timing_present_count
    program,   \* the calls and events of this run
    todo,      \* steps left of the application's call
    masked,    \* the call came through the trap, interrupts off
    sample,    \* FB_SWAP_CTRL as the call last read it
    isr,       \* FB_SWAP_CTRL as the interrupt handler read it, or Idle
    flipped,   \* just_flipped_idx of the call
    shadow, staged, live,  \* pal_shadow, the written and the visible bank
    index,     \* pal_index_reg
    busy,      \* PAL_INDEX_BUSY
    dirty, uploading,  \* pal_dirty, pal_uploading
    overlay,   \* vid_display_mode is DISPLAY_MODE_OVERLAY
    setPals,   \* palettes set so far (names the next)
    content,   \* frame in each buffer
    frames,    \* frames drawn
    seen,      \* frames that were on the screen for active lines
    settled,   \* the application waited since its last flip
    gaveUp,    \* a wait ran into its deadline
    torn,      \* an interrupt fell into a window of a call (see Interrupt)
    whole      \* palettes a finished call left in pal_shadow

hwVars == <<phase, showing, ready, pending, consumed, irq>>
menuVars == <<frozen, opened>>
roleVars == <<draw, display, next, kicked, fresh, presents>>
callVars == <<program, todo, masked, sample, flipped>>
bankVars == <<staged, live, index, busy>>
palVars == <<shadow, dirty, uploading, overlay, setPals>>
frameVars == <<content, frames, seen>>
noteVars == <<settled, gaveUp, torn, whole>>
vars == <<hwVars, menuVars, roleVars, callVars, bankVars, palVars, frameVars,
          noteVars, queue, isr>>
-----------------------------------------------------------------------------
Buffers == 0..2
None == -1
Idle == [pend |-> FALSE, disp |-> None]
Entries == 0..1
Swap == [pend |-> pending, disp |-> showing]

\* The list of steps of each call.
Sync == <<"read", "use">>
Clean == Sync \o <<"free", "kick", "mark", "spin">> \o Sync \o <<"roles">>
WaitOnly == <<"spin">>
Waiting == <<"spin">> \o Sync
Steps == [flip    |-> Sync \o <<"choose", "kick", "mark", "free">>,
          acquire |-> Sync \o <<"fence">> \o Sync \o <<"mark">>
                        \o Sync \o <<"free">>,
          wait    |-> Waiting,
          vsync   |-> <<"rekick", "spin">>,
          mode    |-> <<"spin", "roles", "clear">> \o Clean,
          init    |-> <<"spin", "roles", "zero", "clear">>,
          single0 |-> <<"set0", "claim">>,
          single1 |-> <<"set1", "claim">>,
          bulk    |-> <<"set0", "next1", "claim">>,
          overlay |-> <<"claim">>]
Upload == <<"try", "release">>
Install == <<"ready", "rewind", "write", "write", "commit">>

Init ==
    /\ phase = "active" /\ showing = 0 /\ ready = 0
    /\ pending = FALSE /\ consumed = FALSE /\ irq = FALSE
    /\ frozen = FALSE /\ opened = 0 /\ queue = <<>>
    /\ draw = 1 /\ display = 0 /\ next = None /\ kicked = FALSE
    /\ fresh = FALSE /\ presents = 0
    /\ program \in Programs
    /\ todo = <<>> /\ masked = FALSE /\ sample = Idle /\ isr = Idle
    /\ flipped = None
    /\ shadow = [i \in Entries |-> 0] /\ staged = shadow /\ live = shadow
    /\ index = 0 /\ busy = FALSE /\ dirty = FALSE /\ uploading = FALSE
    /\ overlay = FALSE /\ setPals = 0
    /\ content = [b \in Buffers |-> 0] /\ frames = 0 /\ seen = {0}
    /\ settled = TRUE /\ gaveUp = FALSE /\ torn = FALSE /\ whole = {shadow}
-----------------------------------------------------------------------------
(* The swap registers and the scanout *)

\* The queued buffer becomes the one scanned out.
Consume ==
    /\ showing' = ready
    /\ pending' = FALSE
    /\ consumed' = TRUE

\* An open menu freezes the picture, until it is closed.
FrozenForGood == opened = 0
Running == ~frozen

\* Start of the vertical blank: a queued swap is taken, the interrupt is
\* raised, and a committed palette bank becomes visible.
VsyncEdge ==
    /\ phase = "active"
    /\ phase' = "blank"
    /\ IF Running
       THEN /\ irq' = TRUE
            /\ IF pending THEN Consume
               ELSE consumed' = FALSE /\ UNCHANGED <<showing, pending>>
       ELSE UNCHANGED <<showing, pending, consumed, irq>>
    /\ IF busy THEN live' = staged /\ staged' = live ELSE UNCHANGED <<live,
                                                                      staged>>
    /\ busy' = FALSE
    /\ UNCHANGED <<ready, index, menuVars, roleVars, callVars, palVars,
                   frameVars,
                   noteVars, queue, isr>>

MaySwapLate == pending /\ ~consumed

\* A frame queued late is still taken before the active lines, once per frame.
EarlyBlank ==
    /\ phase = "blank" /\ Running
    /\ MaySwapLate
    /\ Consume
    /\ UNCHANGED <<phase, ready, irq, menuVars, roleVars, callVars, bankVars,
                   palVars,
                   frameVars, noteVars, queue, isr>>

ActiveStart ==
    /\ phase = "blank"
    /\ phase' = "active"
    /\ seen' = seen \cup {content[showing]}
    /\ UNCHANGED <<showing, ready, pending, consumed, irq, menuVars, roleVars,
                   callVars,
                   bankVars, palVars, content, frames, noteVars, queue, isr>>

\* CMD_FLIP retires once its writes have drained and the swap slot is empty.
CanFlip == ~pending

GpuFlip ==
    /\ queue # <<>>
    /\ CanFlip
    /\ ready' = Head(queue)
    /\ pending' = TRUE
    /\ queue' = Tail(queue)
    /\ UNCHANGED <<phase, showing, consumed, irq, menuVars, roleVars, callVars,
                   bankVars,
                   palVars, frameVars, noteVars, isr>>

OpenMenu ==
    /\ "menu" \in program
    /\ ~frozen /\ opened < FreezeMax
    /\ frozen' = TRUE /\ opened' = opened + 1
    /\ UNCHANGED <<hwVars, roleVars, callVars, bankVars, palVars, frameVars,
                   noteVars,
                   queue, isr>>

CloseMenu ==
    /\ frozen
    /\ frozen' = FALSE
    /\ UNCHANGED <<opened, hwVars, roleVars, callVars, bankVars, palVars,
                   frameVars,
                   noteVars, queue, isr>>
-----------------------------------------------------------------------------
(* The kernel's view of the buffers *)

\* The queued buffer was taken, as far as a register value tells.
SeenQueued(s) == next # None /\ (next = s.disp \/ kicked)
Presented(s) == next # None /\ ~s.pend /\ (next = s.disp \/ kicked)

\* sync_swap_state, given the register value it read.
SyncWith(s) ==
    LET k == kicked \/ s.pend
        counts == Presented(s)
        retires == next # None /\ (next = s.disp \/ (k /\ ~s.pend))
    IN  /\ presents' = IF counts /\ fresh THEN presents + 1 ELSE presents
        /\ fresh' = (fresh /\ ~counts)
        /\ display' = IF retires THEN next ELSE s.disp
        /\ next' = IF retires THEN None ELSE next
        /\ kicked' = (k /\ ~retires)
        /\ UNCHANGED draw

NotShown == {i \in Buffers : i # display}
Free == {i \in Buffers : i # display /\ i # next}
PickFree == CHOOSE i \in Free : \A j \in Free : i <= j

\* video_reset_buffer_roles.
ResetRoles ==
    /\ display' = showing
    /\ draw' = IF showing = 0 THEN 1 ELSE 0
    /\ next' = None
    /\ kicked' = FALSE
    /\ fresh' = FALSE
    /\ UNCHANGED presents

IrqOpen == isr = Idle /\ (todo = <<>> \/ ~masked)

\* The windows a call leaves open to the interrupt: between reading the swap
\* register and acting on it, and between two stores into pal_shadow.
InWindow == todo # <<>> /\ Head(todo) \in {"use", "next1"}

\* The handler clears the interrupt and sync_swap_state reads the register.
Interrupt ==
    /\ irq /\ IrqOpen
    /\ irq' = FALSE
    /\ isr' = Swap
    /\ torn' = (torn \/ InWindow)
    /\ UNCHANGED <<phase, showing, ready, pending, consumed, menuVars, roleVars,
                   callVars,
                   bankVars, palVars, frameVars, settled, gaveUp, whole, queue>>

\* palette_try_upload_shadow by the handler, which nothing interrupts.
RetireAnyTime == dirty /\ ~overlay
MayRetire == dirty /\ ~uploading /\ ~overlay

RetirePalette ==
    IF MayRetire /\ ~busy
    THEN staged' = shadow /\ busy' = TRUE /\ index' = 0 /\ dirty' = FALSE
    ELSE UNCHANGED <<staged, busy, index, dirty>>

\* The rest of of_video_vsync_irq_service.
Service ==
    /\ isr # Idle
    /\ SyncWith(isr)
    /\ RetirePalette
    /\ isr' = Idle
    /\ UNCHANGED <<hwVars, menuVars, callVars, live, shadow, uploading, overlay,
                   setPals,
                   frameVars, noteVars, queue>>
-----------------------------------------------------------------------------
(* The application's calls *)

\* The application draws the next frame into the buffer it was given, and
\* flips it through the CPU.
DrawFrame ==
    /\ frames < FrameMax
    /\ frames' = frames + 1
    /\ content' = [content EXCEPT ![draw] = frames + 1]
    /\ settled' = FALSE
    /\ UNCHANGED seen

Traps == {"flip", "wait", "vsync", "single0", "single1", "bulk"}

\* A call enters the kernel, through the trap or through the services table.
Enter(c, m) ==
    /\ c \in program
    /\ todo = <<>> /\ isr = Idle
    /\ todo' = Steps[c]
    /\ m => c \in Traps
    /\ masked' = m
    /\ UNCHANGED <<program, sample, isr, torn, gaveUp, hwVars, menuVars,
                   roleVars,
                   bankVars>>

\* of_video_flip; the application has waited for its last flip.
Flip(m) ==
    /\ Enter("flip", m)
    /\ settled
    /\ DrawFrame
    /\ flipped' = draw
    /\ UNCHANGED <<queue, palVars, whole>>

\* of_gpu_flip_to and of_video_acquire_next.
FlipByGpu ==
    /\ Enter("acquire", FALSE)
    /\ DrawFrame
    /\ queue' = Append(queue, draw)
    /\ flipped' = draw
    /\ UNCHANGED <<palVars, whole>>

\* of_video_wait_flip, of_video_vsync, of_video_set_mode and
\* of_video_init; the last three are made with no flip outstanding, the last
\* two with the overlay off.
Plain(c, m) ==
    /\ c \in {"wait", "vsync", "mode", "init"}
    /\ Enter(c, m)
    /\ c # "wait" => settled
    /\ c \in {"mode", "init"} => ~overlay /\ frames < FrameMax
    /\ settled' = TRUE
    /\ flipped' = None
    /\ UNCHANGED <<queue, palVars, frameVars, whole>>

\* of_video_set_palette and of_video_set_palette_bulk.
SetPalette(c, m) ==
    /\ c \in {"single0", "single1", "bulk"}
    /\ Enter(c, m)
    /\ setPals < PaletteMax
    /\ setPals' = setPals + 1
    /\ UNCHANGED <<flipped, queue, settled, shadow, dirty, uploading, overlay,
                   frameVars, whole>>

\* of_video_set_display_mode, between framebuffer and overlay.
SetDisplayMode ==
    /\ Enter("overlay", FALSE)
    /\ setPals < PaletteMax
    /\ setPals' = setPals + 1
    /\ overlay' = ~overlay
    /\ UNCHANGED <<flipped, queue, settled, shadow, dirty, uploading, frameVars,
                   whole>>
-----------------------------------------------------------------------------
(* The steps of a call *)

Do(s) == todo # <<>> /\ isr = Idle /\ Head(todo) = s
Then(s) == todo' = s \o Tail(todo)
Proceed == Then(<<>>)
SameCall ==
    /\ masked' = (masked /\ todo' # <<>>)
    /\ flipped' = IF todo' = <<>> THEN None ELSE flipped
    /\ UNCHANGED <<program, isr>>
SameSwap == UNCHANGED <<hwVars, menuVars, queue>>
SamePalette == UNCHANGED <<bankVars, palVars, whole>>
SameRoles == UNCHANGED <<roleVars, sample, frameVars>>

ReadSwap ==
    /\ Do("read") /\ Proceed
    /\ sample' = Swap
    /\ SameCall /\ SameSwap /\ SamePalette
    /\ UNCHANGED <<roleVars, frameVars, settled, gaveUp, torn>>

UseSwap ==
    /\ Do("use") /\ Proceed
    /\ SyncWith(sample)
    /\ sample' = Idle
    /\ SameCall /\ SameSwap /\ SamePalette
    /\ UNCHANGED <<frameVars, settled, gaveUp, torn>>

\* The check of buf_draw in of_video_flip, and pick_free_buffer; a forced
\* present takes its buffer here as well.
Choose ==
    /\ \/ Do("choose") /\ draw' = IF draw \in Free THEN draw ELSE PickFree
       \/ Do("free") /\ draw' = PickFree
    /\ Proceed
    /\ SameCall /\ SameSwap /\ SamePalette
    /\ UNCHANGED <<display, next, kicked, fresh, presents, sample, frameVars,
                   settled,
                   gaveUp, torn>>

\* The write of FB_SWAP_CTRL: of the buffer drawn, or of buf_display.
Kick ==
    /\ \/ Do("kick") /\ ready' = draw
       \/ Do("rekick") /\ ready' = display
    /\ pending' = TRUE
    /\ Proceed
    /\ SameCall /\ SamePalette /\ SameRoles
    /\ UNCHANGED <<phase, showing, consumed, irq, menuVars, queue, settled,
                   gaveUp, torn>>

\* swap_kicked is set and mark_buffer_ready notes the buffer.
Mark ==
    /\ Do("mark") /\ Proceed
    /\ kicked' = TRUE
    /\ next' = IF flipped = None THEN draw ELSE flipped
    /\ fresh' = TRUE
    /\ SameCall /\ SameSwap /\ SamePalette
    /\ UNCHANGED <<draw, display, presents, sample, frameVars, settled, gaveUp,
                   torn>>

\* A wait of two frames for the swap: only the menu outlasts it.
NoDeadline == ~pending
SwapDone == pending => frozen

Spin ==
    /\ Do("spin") /\ Proceed
    /\ SwapDone
    /\ gaveUp' = (gaveUp \/ pending)
    /\ SameCall /\ SameSwap /\ SamePalette /\ SameRoles
    /\ UNCHANGED <<settled, torn>>

\* The wait for the fence of CMD_FLIP; when it fails the buffer is queued by
\* the CPU.
Fence ==
    /\ Do("fence") /\ Proceed
    /\ queue # <<>> => pending /\ frozen
    /\ gaveUp' = (gaveUp \/ queue # <<>>)
    /\ IF queue = <<>> THEN UNCHANGED <<ready, pending>>
       ELSE ready' = flipped /\ pending' = TRUE
    /\ SameCall /\ SamePalette /\ SameRoles
    /\ UNCHANGED <<phase, showing, consumed, irq, menuVars, queue, settled,
                   torn>>

Roles ==
    /\ \/ Do("roles") /\ ResetRoles
       \/ Do("zero") /\ presents' = 0 /\ UNCHANGED <<draw, display, next,
                                                     kicked, fresh>>
    /\ Proceed
    /\ SameCall /\ SameSwap /\ SamePalette
    /\ UNCHANGED <<sample, frameVars, settled, gaveUp, torn>>

\* All three buffers are cleared: a frame of its own, on the screen at once.
Clear ==
    /\ Do("clear") /\ Proceed
    /\ frames' = frames + 1
    /\ content' = [b \in Buffers |-> frames + 1]
    /\ seen' = seen \cup {content[showing], frames'}
    /\ SameCall /\ SameSwap /\ SamePalette
    /\ UNCHANGED <<roleVars, sample, settled, gaveUp, torn>>
-----------------------------------------------------------------------------
(* The palette *)

SameVideo == SameCall /\ SameSwap /\ SameRoles /\ UNCHANGED <<settled, gaveUp,
                                                              torn>>

\* A store into pal_shadow; the last of a call makes a palette of the app's.
Store ==
    /\ \/ Do("set0") /\ shadow' = [shadow EXCEPT ![0] = setPals]
       \/ /\ Do("set1") \/ Do("next1")
          /\ shadow' = [shadow EXCEPT ![1] = setPals]
    /\ Proceed
    /\ whole' = IF Head(todo') = "claim" THEN whole \cup {shadow'} ELSE whole
    /\ SameVideo
    /\ UNCHANGED <<bankVars, dirty, uploading, overlay, setPals>>

\* The upload of the overlay's palette, or palette_upload_shadow's interlock.
Claim ==
    /\ Do("claim")
    /\ IF overlay THEN Then(Install) /\ UNCHANGED uploading
       ELSE Then(Upload) /\ uploading' = TRUE
    /\ SameVideo
    /\ UNCHANGED <<bankVars, shadow, dirty, overlay, setPals, whole>>

Forgotten == <<"clean">>
Refused == <<"late">>

\* palette_try_upload_shadow: gives up at once while a commit is queued.
TryUpload ==
    /\ Do("try")
    /\ IF busy THEN Then(Refused) ELSE Then(Tail(Install) \o <<"clean">>)
    /\ SameVideo /\ SamePalette

\* palette_wait_ready: a commit is taken within a frame.
WaitReady ==
    /\ Do("ready") /\ Proceed
    /\ ~busy
    /\ SameVideo /\ SamePalette

Shade(v) == IF overlay THEN -v ELSE v
AfterIndex(i) == (i + 1) % Cardinality(Entries)

\* PAL_INDEX = 0, then one PAL_WRITE per entry; the register counts on its
\* own, the loop over pal_shadow has its own count.
WriteBank ==
    /\ \/ /\ Do("rewind")
          /\ index' = 0 /\ UNCHANGED staged
       \/ /\ Do("write")
          /\ LET i == IF todo[2] = "write" THEN 0 ELSE 1
             IN  staged' = [staged EXCEPT ![index] = Shade(shadow[i])]
          /\ index' = AfterIndex(index)
    /\ Proceed
    /\ SameVideo
    /\ UNCHANGED <<live, busy, palVars, whole>>

Commit ==
    /\ Do("commit") /\ Proceed
    /\ busy' = TRUE /\ index' = 0
    /\ SameVideo
    /\ UNCHANGED <<live, staged, palVars, whole>>

\* The outcome in pal_dirty, then pal_uploading is released.
Settle ==
    /\ \/ Do("late") /\ dirty' = TRUE /\ UNCHANGED uploading
       \/ Do("clean") /\ dirty' = FALSE /\ UNCHANGED uploading
       \/ Do("release") /\ uploading' = FALSE /\ UNCHANGED dirty
    /\ Proceed
    /\ SameVideo
    /\ UNCHANGED <<bankVars, shadow, overlay, setPals, whole>>
-----------------------------------------------------------------------------
CallStep ==
    \/ ReadSwap \/ UseSwap \/ Choose \/ Kick \/ Mark \/ Spin \/ Fence
    \/ Roles \/ Clear
    \/ Store \/ Claim \/ TryUpload \/ WaitReady \/ WriteBank \/ Commit \/ Settle

AppCall ==
    \/ \E m \in BOOLEAN : Flip(m)
    \/ FlipByGpu
    \/ \E c \in program, m \in BOOLEAN : Plain(c, m) \/ SetPalette(c, m)
    \/ SetDisplayMode

Next ==
    \/ VsyncEdge \/ EarlyBlank \/ ActiveStart \/ GpuFlip
    \/ OpenMenu \/ CloseMenu
    \/ Interrupt \/ Service
    \/ AppCall \/ CallStep

Spec == Init /\ [][Next]_vars

\* The scanout never stops, the GPU and the processor go on, and a handler
\* lasts less than a frame, so that calls run between interrupts; nothing
\* makes the application call or the user open or close the menu.
Fairness ==
    /\ WF_vars(VsyncEdge) /\ WF_vars(EarlyBlank) /\ WF_vars(ActiveStart)
    /\ WF_vars(GpuFlip) /\ WF_vars(Interrupt) /\ WF_vars(Service)
    /\ SF_vars(CallStep)

FairSpec == Spec /\ Fairness
-----------------------------------------------------------------------------
Palettes == [Entries -> (-PaletteMax)..PaletteMax]

\* Every variable keeps its shape, and the position in the palette and the
\* buffer indices stay in range (axi_periph_slave.v, video.c).
TypeOK ==
    /\ phase \in {"blank", "active"}
    /\ {showing, ready, draw, display} \subseteq Buffers
    /\ next \in Buffers \cup {None} /\ flipped \in Buffers \cup {None}
    /\ {sample, isr} \subseteq [pend : BOOLEAN, disp : Buffers] \cup {Idle}
    /\ queue \in BoundedSeq(Buffers, FrameMax)
    /\ {pending, consumed, irq, frozen, kicked, fresh, masked, busy, dirty,
        uploading, overlay, settled, gaveUp, torn} \subseteq BOOLEAN
    /\ program \in Programs
    /\ {shadow, staged, live} \subseteq Palettes
    /\ index \in Entries
    /\ {opened, presents, setPals, frames} \subseteq Nat
    /\ content \in [Buffers -> 0..frames] /\ seen \subseteq 0..frames

\* The buffer the application holds is neither scanned out nor queued.
Untouched ==
    draw # showing /\ (pending => draw # ready) /\ ~Contains(queue, draw)

\* The buffer handed out after a flip is the third one, as long as no wait
\* ran into its deadline and no interrupt fell into a window: the buffers
\* rotate among GPU, CPU and scanout without two of them sharing one.
DrawIsFree == todo = <<>> /\ ~gaveUp /\ ~torn => Untouched

\* "It then returns the third buffer: not the current scanout buffer and not
\* the buffer queued for the next vsync" (of_video_acquire_next).
ThirdBuffer == todo = <<>> /\ ~gaveUp => Untouched

\* The screen never goes back to an older frame: no swap is repeated, lost
\* and found again, or reordered between the GPU's queue and the CPU's.
FramesInOrder ==
    [][~gaveUp /\ ~torn => content'[showing'] >= content[showing]]_vars

\* A present is counted once, and only for a frame that reached the screen.
PresentsWereShown ==
    ~gaveUp /\ ~torn =>
        presents <= Cardinality((seen \cup {content[showing]}) \ {0})

\* A frame that was flipped is scanned out for active lines: no later flip
\* takes its place before that, whoever makes it.
EveryFrameShown ==
    []<>~frozen =>
        \A f \in 1..FrameMax : frames >= f ~> f \in seen \/ gaveUp \/ torn

\* Every call returns, the menu open or not.
CallReturns == todo # <<>> ~> todo = <<>>

\* What is visible is a palette of the application's, whole, or its dimmed
\* form: the interrupt never uploads in the middle of an upload.
LiveIsWhole ==
    ~torn => live \in whole \cup {[i \in Entries |-> -p[i]] : p \in whole}

\* Whatever the timing of the calls and the interrupts, the visible palette
\* ends as the last one set: a deferred upload is not forgotten.
PaletteSettles ==
    []<>~frozen /\ <>[](todo = <<>>)
        => <>[](live = [i \in Entries |-> Shade(shadow[i])])
=============================================================================

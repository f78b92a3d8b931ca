---------------------------- MODULE AudioStream -----------------------------
(***************************************************************************)
(* The audio stream: audio.c fills a ring in SDRAM and publishes its write *)
(* index; voice 31 of audio_mixer.v reads the ring once for each output    *)
(* sample, in stream mode, and reports its position.  The firmware is one  *)
(* thread: a call is a list of register accesses (todo), and the mixer may *)
(* take a step between any two of them.  Writes of a position or a current *)
(* volume are queued in the mixer and silence the voice; it starts again   *)
(* when the queue has drained, which only happens between two samples.     *)
(*                                                                         *)
(* A pair of samples is its number.  Rates are halves of a pair per output *)
(* sample.  The fade before a hold and the volume ramp are left out.       *)
(***************************************************************************)
EXTENDS Naturals, Sequences, SequencesExt

CONSTANTS
    Size,      \* AUDIO_RING_PAIRS
    Floor,     \* STREAM_FLOOR
    Rates,     \* rates of of_audio_stream_open, in halves, up to 2.0
    Counts,    \* how many pairs a call offers
    Total,     \* bound: pairs written
    Resets,    \* bound: calls that stop or reopen the stream
    Reopens    \* positions reported at which the application opens it anew

ASSUME StreamAssumption ==
    /\ Size \in Nat /\ Total \in Nat /\ Floor \in 3..Size - 1
    /\ Rates \subseteq 1..4 /\ Counts \subseteq 1..Total

VARIABLES
    \* firmware
    act,       \* audio_voice_active
    widx,      \* audio_write_idx
    todo,      \* register accesses that are left of the call
    count,     \* its pairs, and the rate it asks for
    want,
    \* the mixer
    ring,      \* SDRAM
    rate, wptr, pos, frac,  \* voice table
    latch,     \* pos_latch
    queue,     \* cpu_fsm_q
    active, starting,       \* voice_active, voice_start_pending
    pass,      \* the sample under way
    cur,       \* what was read for it
    cancelled, \* cur_cancelled
    \* seen from outside
    heard, sent, resets

cpuVars == <<act, widx, todo, count, want>>
regVars == <<rate, wptr, queue, active, starting, cancelled>>
scanVars == <<pos, frac, latch, pass, cur, heard>>
vars == <<cpuVars, ring, regVars, scanVars, sent, resets>>

Index == 0..Size - 1
Idle == [at |-> "idle", pos |-> 0, rate |-> 0, taps |-> <<>>]

Init ==
    /\ act = FALSE /\ widx = 0 /\ todo = <<>> /\ count = 0 /\ want = 2
    /\ ring = [i \in Index |-> 0]
    /\ rate = 0 /\ wptr = 0 /\ pos = 0 /\ frac = 0 /\ latch = 0
    /\ queue = <<>> /\ active = FALSE /\ starting = FALSE
    /\ pass = "idle" /\ cur = Idle /\ cancelled = FALSE
    /\ heard = <<>> /\ sent = 0 /\ resets = 0

---------------------------------------------------------------------------
\* Calls

Configure == <<"rate", "pos", "wptr", "vol", "ctrl">>
Fill == <<"room", "store", "publish">>

\* ring_room_pairs: one pair stays unused.
Gap == (widx + Size - latch) % Size
\* Mutant: none stays unused.
RoomAll == IF act THEN Size - Gap ELSE Size

Room == IF act THEN Size - 1 - Gap ELSE Size

Reset == todo = <<>> /\ resets < Resets /\ resets' = resets + 1

\* of_audio_stream_open, of a stream that is closed.
Open(r) ==
    /\ Reset /\ ~act /\ latch \in Reopens
    /\ widx' = 0 /\ want' = r /\ todo' = Configure
    /\ UNCHANGED <<act, count, ring, regVars, scanVars, sent>>

\* of_audio_init and of_audio_stream_close, which stop the voice and forget it.
Stop ==
    /\ Reset
    /\ todo' = <<"stop">>
    /\ UNCHANGED <<act, widx, count, want, ring, regVars, scanVars, sent>>

\* of_mixer_stop_all and of_mixer_init stop voice 31 like the others;
\* audio_voice_active is not theirs.
StopAll ==
    /\ Reset
    /\ todo' = <<"silence">>
    /\ UNCHANGED <<act, widx, count, want, ring, regVars, scanVars, sent>>

\* of_audio_write and of_audio_stream_write.
Write(n) ==
    /\ todo = <<>> /\ sent + n <= Total
    /\ act \/ latch \in Reopens
    /\ count' = n
    /\ want' = IF act THEN want ELSE 2
    /\ todo' = IF act THEN Fill ELSE Configure \o Fill
    /\ UNCHANGED <<act, widx, ring, regVars, scanVars, sent, resets>>

---------------------------------------------------------------------------
\* Register accesses

\* A write to the current position or volume is queued and silences the voice;
\* like a stop, it cancels the sample under way.
Push(e) ==
    /\ queue' = Append(queue, e)
    /\ active' = FALSE /\ cancelled' = (pass # "idle")
    /\ UNCHANGED starting

Deactivate ==
    /\ active' = FALSE /\ starting' = FALSE /\ cancelled' = (pass # "idle")
    /\ UNCHANGED queue

Hold == UNCHANGED <<queue, active, starting, cancelled>>

Access(s) ==
    CASE s = "rate" -> rate' = want /\ Hold /\ UNCHANGED wptr
      [] s \in {"pos", "vol"} -> Push(s) /\ UNCHANGED <<rate, wptr>>
      [] s = "wptr" -> wptr' = 0 /\ Hold /\ UNCHANGED rate
      [] s = "publish" -> wptr' = widx /\ Hold /\ UNCHANGED rate
      [] s = "ctrl" -> /\ starting' = TRUE
                       /\ UNCHANGED <<queue, active, cancelled, rate, wptr>>
      [] s \in {"stop", "silence"} -> Deactivate /\ UNCHANGED <<rate, wptr>>
      [] OTHER -> Hold /\ UNCHANGED <<rate, wptr>>

\* The position is read once; what the ring cannot take is refused.
Take ==
    LET n == IF count < Room THEN count ELSE Room IN
    /\ count' = n
    /\ todo' = IF n = 0 THEN <<>> ELSE Tail(todo)
    /\ UNCHANGED <<act, widx, ring, sent>>

Store ==
    /\ ring' = [i \in Index |->
                    LET k == (i + Size - widx) % Size
                    IN  IF k < count THEN sent + k + 1 ELSE ring[i]]
    /\ widx' = (widx + count) % Size
    /\ sent' = sent + count
    /\ todo' = Tail(todo)
    /\ UNCHANGED <<act, count>>

Plain(s) ==
    /\ act' = CASE s = "ctrl" -> TRUE [] s = "stop" -> FALSE [] OTHER -> act
    /\ widx' = IF s = "stop" THEN 0 ELSE widx
    /\ todo' = Tail(todo)
    /\ UNCHANGED <<count, ring, sent>>

CallStep ==
    /\ todo # <<>>
    /\ LET s == Head(todo) IN
       /\ Access(s)
       /\ CASE s = "room" -> Take [] s = "store" -> Store [] OTHER -> Plain(s)
    /\ UNCHANGED <<want, scanVars, resets>>

---------------------------------------------------------------------------
\* The mixer

\* Start bits wait until the queue is empty.
Arm ==
    /\ starting /\ queue = <<>>
    /\ active' = TRUE /\ starting' = FALSE
    /\ UNCHANGED <<cpuVars, ring, rate, wptr, queue, cancelled, scanVars,
                   sent, resets>>

Drain ==
    /\ pass = "idle" /\ queue # <<>>
    /\ queue' = Tail(queue)
    /\ pos' = IF Head(queue) = "pos" THEN 0 ELSE pos
    /\ UNCHANGED <<cpuVars, ring, rate, wptr, active, starting, cancelled,
                   frac, latch, pass, cur, heard, sent, resets>>

\* The scan reaches the voice.
Look ==
    /\ pass = "idle" /\ queue = <<>> /\ active
    /\ pass' = "wptr"
    /\ cur' = [pos |-> pos, rate |-> rate, taps |-> <<>>]
    /\ UNCHANGED <<cpuVars, ring, regVars, pos, frac, latch, heard, sent,
                   resets>>

Leave == pass' = "idle" /\ cur' = Idle /\ cancelled' = FALSE

Avail == (wptr + Size - cur.pos) % Size
\* Mutant: the floor itself is below the floor.
StarvedAtFloor == Avail <= Floor

\* Too close behind the writer: hold, without a position written.
Starved == Avail < Floor

ReadWptr ==
    /\ pass = "wptr"
    /\ IF cancelled \/ Starved THEN Leave
       ELSE pass' = "fetch" /\ UNCHANGED <<cur, cancelled>>
    /\ UNCHANGED <<cpuVars, ring, rate, wptr, queue, active, starting, pos,
                   frac, latch, heard, sent, resets>>

\* A read that was issued is waited for, cancelled or not.
Fetch ==
    /\ pass = "fetch"
    /\ cur' = [cur EXCEPT !.taps =
                 <<ring[cur.pos], ring[(cur.pos + 1) % Size]>>]
    /\ pass' = "play"
    /\ UNCHANGED <<cpuVars, ring, regVars, pos, frac, latch, heard, sent,
                   resets>>

\* The pair goes into the sample under way; then the position moves on.
Mix ==
    /\ pass = "play"
    /\ IF cancelled THEN Leave /\ UNCHANGED heard
       ELSE /\ heard' = cur.taps /\ pass' = "commit"
            /\ UNCHANGED <<cur, cancelled>>
    /\ UNCHANGED <<cpuVars, ring, rate, wptr, queue, active, starting, pos,
                   frac, latch, sent, resets>>

\* Mutant: the position that can be read is not written.
NotReported == latch
Reported == pos'

Commit ==
    /\ pass = "commit"
    /\ Leave
    /\ IF cancelled THEN UNCHANGED <<pos, frac, latch>>
       ELSE /\ pos' = (cur.pos + (frac + cur.rate) \div 2) % Size
            /\ frac' = (frac + cur.rate) % 2
            /\ latch' = Reported
    /\ UNCHANGED <<cpuVars, ring, rate, wptr, queue, active, starting, heard,
                   sent, resets>>

---------------------------------------------------------------------------
Next ==
    \/ \E r \in Rates : Open(r)
    \/ Stop \/ StopAll
    \/ \E n \in Counts : Write(n)
    \/ CallStep
    \/ Arm \/ Drain \/ Look \/ ReadWptr \/ Fetch \/ Mix \/ Commit

Spec == Init /\ [][Next]_vars

\* The firmware's thread and the mixer go on; the application need not.
FairSpec ==
    /\ Spec
    /\ WF_vars(CallStep)
    /\ WF_vars(Arm) /\ WF_vars(Drain)
    /\ WF_vars(Look \/ ReadWptr \/ Fetch \/ Mix \/ Commit)

---------------------------------------------------------------------------
\* The voice plays, or will once its queued writes are done.
On == active \/ starting

\* What was published and not passed by.
Backlog ==
    LET p == IF "pos" \in ToSet(queue) THEN 0 ELSE pos
    IN  IF On THEN [i \in 1..(wptr + Size - p) % Size |->
                        ring[(p + i - 1) % Size]]
        ELSE <<>>

Fifo == INSTANCE StreamFifo WITH Pairs <- 1..Total, fifo <- Backlog

\* The ring, its indices and the voice implement the FIFO: nothing is heard
\* that was not published, twice, or after it was overwritten.
ImplementsFifo == Fifo!Spec

\* A voice that is on and has enough behind it plays on, whatever calls came
\* before: a hold ends with the next write ("resumes by itself").
Drains == (Len(Backlog) >= Floor) ~> (Len(Backlog) < Floor)

\* Room comes back while the voice is on: the application is never refused for
\* good ("resumes by itself on the next write").
MakesRoom == (act /\ On /\ Room = 0) ~> (Room > 0 \/ ~On)
=============================================================================

------------------------------- MODULE Mixer --------------------------------
(***************************************************************************)
(* The voices of the mixer: mixer.c gives them to notes and takes them     *)
(* back, audio_mixer.v plays them.  A call of the main program may be      *)
(* interrupted by the timer, whose callback (the MIDI player) makes calls  *)
(* of its own; both mask interrupts around what must stay together.  A     *)
(* call is a list of steps, one for each access to the hardware, and the   *)
(* mixer may take a step between any two of them.                          *)
(*                                                                         *)
(* A handle is a voice with the number of its reuse.  Registers hold the   *)
(* handle they were written for; a note that is not looped may end with    *)
(* any sample.  Volumes after the first, rates and pan are left out, and   *)
(* voice 31 is AudioStream's.                                              *)
(***************************************************************************)
EXTENDS Naturals, Sequences, FiniteSetsExt, SequencesExt

CONSTANTS
    Top,         \* the last voice, 30
    Plays,       \* [group, prio] of the notes
    QueueSize,   \* MIXER_ENDED_QUEUE_SIZE
    MainCalls,   \* calls of the main program and of the timer callback
    TimerCalls,
    Notes,       \* bound: handles
    LateLoops    \* a note may run out while its loop is being set

ASSUME MixerAssumption ==
    /\ Top \in Nat
    /\ Plays \subseteq [group : {"music", "sfx"}, prio : Nat]
    /\ QueueSize \in Nat \ {0}
    /\ Notes \in Nat /\ LateLoops \in BOOLEAN

VARIABLES
    \* mixer.c
    taken,       \* active_shadow
    gen, prio, group,
    ended,       \* ended_queue
    todo,        \* steps that are left of the call
    saved,       \* of the call that was interrupted
    inIsr,
    \* the mixer
    data, loop, pos, vol,   \* voice table
    queue,       \* cpu_fsm_q
    playing, starting, pending,  \* voice_active, voice_start_pending,
                                 \* voice_end_pending
    at, cur,     \* where the scan is, and what it has read
    cancelled,   \* cur_cancelled
    \* seen from outside
    finished     \* notes played to the end, until reported or replaced

fwVars == <<taken, gen, prio, group, ended>>
cpuVars == <<todo, saved, inIsr>>
tableVars == <<data, loop>>
stateVars == <<pos, vol>>
bitVars == <<queue, playing, starting, pending, cancelled>>
scanVars == <<at, cur>>
vars == <<fwVars, cpuVars, tableVars, stateVars, bitVars, scanVars, finished>>

Voices == 0..Top
None == <<0, 0>>
Handles == {<<v, g>> : v \in Voices, g \in 1..Notes}
Idle == [voice |-> 0, stage |-> "idle"]
Nothing == [of |-> None, loop |-> FALSE]

Init ==
    /\ taken = {} /\ ended = <<>>
    /\ gen = [v \in Voices |-> 0] /\ prio = [v \in Voices |-> 0]
    /\ group = [v \in Voices |-> "sfx"]
    /\ todo = <<>> /\ saved = <<>> /\ inIsr = FALSE
    /\ data = [v \in Voices |-> None] /\ pos = data /\ vol = data
    /\ loop = [v \in Voices |-> FALSE]
    /\ queue = <<>> /\ playing = {} /\ starting = {} /\ pending = {}
    /\ at = Idle /\ cur = Nothing /\ cancelled = FALSE
    /\ finished = {}

---------------------------------------------------------------------------
\* Calls

Step(op, a) == [op |-> op, arg |-> a]

\* Steps before which interrupts are enabled.  Sample data is written back
\* before the claim, outside of the lock.
Open == {"reap", "claim", "retrigger", "stop", "quiet", "loop", "copy"}

Calls ==
    {<<Step("claim", p)>> : p \in Plays}
    \cup {<<Step("retrigger", h)>> : h \in Handles}
    \cup {<<Step("stop", h)>> : h \in Handles}
    \cup {<<Step("quiet", {})>>}
    \cup {<<Step("reap", {}), Step("loop", [h |-> h, on |-> b])>> :
             h \in Handles, b \in BOOLEAN}
    \cup {<<Step("reap", {}), Step("copy", {})>>}

\* The caller uses handles that it was given.
Given(c) ==
    \A i \in DOMAIN c :
        /\ c[i].op \in {"retrigger", "stop"} => c[i].arg[2] <= gen[c[i].arg[1]]
        /\ c[i].op = "loop" => c[i].arg.h[2] <= gen[c[i].arg.h[1]]

ASSUME CallsAssumption == MainCalls \cup TimerCalls \subseteq Calls

Call(c) ==
    /\ Given(c) /\ todo = <<>> /\ ~inIsr
    /\ todo' = c
    /\ UNCHANGED <<fwVars, saved, inIsr, tableVars, stateVars, bitVars,
                   scanVars, finished>>

Interrupt(c) ==
    /\ Given(c) /\ todo # <<>> /\ ~inIsr /\ Head(todo).op \in Open
    /\ saved' = todo /\ todo' = c /\ inIsr' = TRUE
    /\ UNCHANGED <<fwVars, tableVars, stateVars, bitVars, scanVars, finished>>

Return ==
    /\ inIsr /\ todo = <<>>
    /\ todo' = saved /\ saved' = <<>> /\ inIsr' = FALSE
    /\ UNCHANGED <<fwVars, tableVars, stateVars, bitVars, scanVars,
                   finished>>

---------------------------------------------------------------------------
\* Accesses to the mixer

\* The scan is at the voice: the pass it is making of it counts no more.
Cancel(v) == cancelled' = (cancelled \/ (at.voice = v /\ at.stage # "idle"))

\* CTRL without the active bit.
Off(v) ==
    /\ playing' = playing \ {v} /\ starting' = starting \ {v}
    /\ Cancel(v) /\ UNCHANGED queue

\* Mutant: a start does not wait for the queue.
AtOnce(q) == TRUE

\* Voices start as soon as the queue is empty.
Drained(q) == q = <<>>

Arm(on, q) ==
    /\ playing' = IF Drained(q) THEN playing \cup on ELSE playing
    /\ starting' = IF Drained(q) THEN {} ELSE on

\* CTRL with it.
On(v) == Arm(starting \cup {v}, queue) /\ UNCHANGED <<queue, cancelled>>

\* A current position or volume is queued, and silences the voice.
Push(field, h) ==
    /\ queue' = Append(queue, [field |-> field, of |-> h])
    /\ playing' = playing \ {h[1]}
    /\ Cancel(h[1]) /\ UNCHANGED starting

Quietly == UNCHANGED <<queue, playing, starting, cancelled>>

---------------------------------------------------------------------------
\* Steps of the calls

\* Mutant: the reuse is not compared.
ValidVoice(h) == h[1] \in taken

\* mixer_validate_handle_locked.
Valid(h) == h[1] \in taken /\ gen[h[1]] = h[2]

\* A full queue loses its oldest entries.
Newest(q) == SubSeq(q, IF Len(q) > QueueSize THEN Len(q) - QueueSize + 1 ELSE 1,
                    Len(q))

\* The voices of a mask in the order of their numbers.
Ascending(S) ==
    {s \in [1..Cardinality(S) -> S] :
        \A i, j \in DOMAIN s : i < j => s[i] < s[j]}

\* mixer_reap_ended_pending up to the write that clears the bits.
Reap ==
    /\ \E s \in Ascending(pending \cap taken) :
          ended' = Newest(ended \o [i \in DOMAIN s |-> <<s[i], gen[s[i]]>>])
    /\ taken' = taken \ pending
    /\ UNCHANGED <<gen, prio, group>>

\* Mutant: every end bit is cleared, read or not.
ClearAll(S, s) == IF S = {} THEN <<s>> ELSE <<Step("clear", Voices), s>>

\* ... which the call goes on from.
Clear(S, s) == IF S = {} THEN <<s>> ELSE <<Step("clear", S), s>>

\* Of the free voices music takes the lowest, an effect the highest.
Free == Voices \ taken
First(S) == {v \in S : \A w \in S : v <= w}
Final(S) == {v \in S : \A w \in S : v >= w}
Lowest(S) == {v \in S : \A w \in S : prio[v] <= prio[w]}

\* Voices that may be stolen: of a lower priority.
Weaker(p) == {v \in Voices : prio[v] < p.prio}

\* alloc_voice_grouped: a set of at most one voice.  Its own group is robbed
\* first.
Choice(p) ==
    LET own == {v \in Weaker(p) : group[v] = p.group}
        victims == Lowest(IF own # {} THEN own ELSE Weaker(p))
    IN  IF Free = {} THEN First(victims)
        ELSE IF p.group = "music" THEN First(Free) ELSE Final(Free)

\* What follows the stop of the voice in program_voice_play_locked and
\* retrigger_voice_h: its end bit, its sample and its rate, then the rest.
Program(h) ==
    <<Step("data", h), Step("pos", h), Step("vol", h), Step("on", h)>>

Used == MapThenSumSet(LAMBDA v : gen[v], Voices)

\* A new handle for the voice, which is stopped before it is programmed.
Renew(v) ==
    /\ Used < Notes
    /\ gen' = [gen EXCEPT ![v] = @ + 1]
    /\ taken' = taken \ {v}
    /\ Off(v)
    /\ todo' = Program(<<v, gen[v] + 1>>)

Claim(p) ==
    /\ Reap /\ Quietly
    /\ todo' = Clear(pending, Step("pick", p))

Pick(p) ==
    \/ /\ Choice(p) = {} /\ todo' = <<>>
       /\ Quietly /\ UNCHANGED fwVars
    \/ \E v \in Choice(p) :
       /\ Renew(v)
       /\ prio' = [prio EXCEPT ![v] = p.prio]
       /\ group' = [group EXCEPT ![v] = p.group]
       /\ UNCHANGED ended

Retrigger(h) ==
    IF Valid(h) THEN Renew(h[1]) /\ UNCHANGED <<prio, group, ended>>
    ELSE todo' = <<>> /\ Quietly /\ UNCHANGED fwVars

Stop(h) ==
    /\ todo' = <<>> /\ UNCHANGED <<gen, prio, group, ended>>
    /\ IF Valid(h) THEN Off(h[1]) /\ taken' = taken \ {h[1]}
       ELSE Quietly /\ UNCHANGED taken

\* of_mixer_stop_all, voice by voice.
Quiet ==
    /\ todo' = <<Step("hush", 0)>>
    /\ Quietly /\ UNCHANGED fwVars

Hush(v) ==
    /\ Off(v)
    /\ todo' = IF v = Top THEN <<Step("forget", {})>>
               ELSE <<Step("hush", v + 1)>>
    /\ v \in taken => Used < Notes
    /\ gen' = [gen EXCEPT ![v] = IF v \in taken THEN @ + 1 ELSE @]
    /\ UNCHANGED <<taken, prio, group, ended>>

Forget ==
    /\ taken' = {} /\ ended' = <<>> /\ todo' = <<>>
    /\ Quietly /\ UNCHANGED <<gen, prio, group>>

\* CTRL is written again with the active bit that its shadow has.
Loop(h) ==
    /\ todo' = <<>> /\ UNCHANGED fwVars
    /\ IF Valid(h) THEN On(h[1]) ELSE Quietly

\* A note that was replaced before its end was collected is not reported.
Latest == {<<v, gen'[v]>> : v \in Voices}
Oldest == IF ended = <<>> THEN {} ELSE {Head(ended)}

\* of_mixer_poll_ended_h, one handle at a time.
Copy ==
    /\ ended' = IF ended = <<>> THEN <<>> ELSE Tail(ended)
    /\ todo' = <<>> /\ Quietly /\ UNCHANGED <<taken, gen, prio, group>>

\* Mutant: an end of the note before is left pending.
KeepEnd(s) == IF s.op = "clear" THEN s.arg ELSE {}

\* Writes of MIX_IRQ_CLEAR.
Acknowledged(s) ==
    CASE s.op = "clear" -> s.arg [] s.op = "data" -> {s.arg[1]} [] OTHER -> {}

\* Of the registers that a step writes, what the other definitions leave open.
Table(s) ==
    /\ data' = IF s.op = "data" THEN [data EXCEPT ![s.arg[1]] = s.arg] ELSE data
    /\ loop' = CASE s.op = "on" -> [loop EXCEPT ![s.arg[1]] = FALSE]
                 [] s.op = "loop" /\ Valid(s.arg.h) ->
                       [loop EXCEPT ![s.arg.h[1]] = s.arg.on]
                 [] OTHER -> loop
    /\ pending' = pending \ Acknowledged(s)

Plain(s) ==
    /\ todo' = Tail(todo)
    /\ CASE s.op \in {"pos", "vol"} -> Push(s.op, s.arg)
         [] s.op = "on" -> On(s.arg[1])
         [] OTHER -> Quietly
    /\ taken' = IF s.op = "on" THEN taken \cup {s.arg[1]} ELSE taken
    /\ UNCHANGED <<gen, prio, group, ended>>

CallStep ==
    /\ todo # <<>>
    /\ LET s == Head(todo) IN
       /\ Table(s)
       /\ CASE s.op = "reap" -> /\ Reap /\ Quietly
                                /\ todo' = Clear(pending, todo[2])
            [] s.op = "claim" -> Claim(s.arg)
            [] s.op = "pick" -> Pick(s.arg)
            [] s.op = "retrigger" -> Retrigger(s.arg)
            [] s.op = "stop" -> Stop(s.arg)
            [] s.op = "quiet" -> Quiet
            [] s.op = "hush" -> Hush(s.arg)
            [] s.op = "forget" -> Forget
            [] s.op = "loop" -> Loop(s.arg.h)
            [] s.op = "copy" -> Copy
            [] OTHER -> Plain(s)
       /\ finished' = (IF s.op = "copy" THEN finished \ Oldest ELSE finished)
                        \cap (ToSet(ended') \cup Latest)
    /\ UNCHANGED <<saved, inIsr, stateVars, scanVars>>

---------------------------------------------------------------------------
\* The mixer

NotCalls == <<fwVars, cpuVars, tableVars>>

Drain ==
    /\ at.stage = "idle" /\ queue # <<>>
    /\ LET e == Head(queue)
           v == e.of[1] IN
       /\ pos' = IF e.field = "pos" THEN [pos EXCEPT ![v] = e.of]
                 ELSE pos
       /\ vol' = IF e.field = "vol" THEN [vol EXCEPT ![v] = e.of] ELSE vol
    /\ queue' = Tail(queue)
    /\ Arm(starting, Tail(queue))
    /\ UNCHANGED <<NotCalls, pending, cancelled, scanVars, finished>>

\* A sample is begun.  One in which nothing plays changes nothing.
Begin ==
    /\ at.stage = "idle" /\ queue = <<>> /\ playing # {}
    /\ at' = [voice |-> 0, stage |-> "look"]
    /\ UNCHANGED <<NotCalls, stateVars, bitVars, cur, finished>>

\* On to the next voice, or to the output.
NextVoice ==
    /\ at' = IF at.voice = Top THEN Idle
             ELSE [voice |-> at.voice + 1, stage |-> "look"]
    /\ cur' = Nothing /\ cancelled' = FALSE

Ahead(stage) == at' = [at EXCEPT !.stage = stage]

Look ==
    /\ at.stage = "look"
    /\ IF at.voice \in playing
       THEN /\ Ahead("fetch")
            /\ cur' = [of |-> pos[at.voice], loop |-> loop[at.voice]]
            /\ UNCHANGED cancelled
       ELSE NextVoice
    /\ UNCHANGED <<NotCalls, stateVars, queue, playing, starting, pending,
                   finished>>

\* The sample is fetched and goes into the sum; then the position moves on.
Mix ==
    /\ at.stage = "fetch"
    /\ IF cancelled THEN NextVoice
       ELSE Ahead("commit") /\ UNCHANGED <<cur, cancelled>>
    /\ UNCHANGED <<NotCalls, stateVars, queue, playing, starting, pending,
                   finished>>

\* Setting a loop, until the mixer has it, takes less time than is left of the
\* sample.
InTime(v) ==
    \/ LateLoops
    \/ /\ v \notin starting
       /\ \A s \in ToSet(todo) \cup ToSet(saved) :
             s.op = "loop" => s.arg.h[1] # v

Advance ==
    /\ at.stage = "commit" /\ ~cancelled
    /\ pos' = [pos EXCEPT ![at.voice] = cur.of]
    /\ NextVoice
    /\ UNCHANGED <<NotCalls, vol, queue, playing, starting, pending, finished>>

VoiceEnd ==
    /\ at.stage = "commit" /\ ~cancelled /\ ~cur.loop /\ InTime(at.voice)
    /\ playing' = playing \ {at.voice}
    /\ pending' = pending \cup {at.voice}
    /\ finished' = finished \cup {cur.of}
    /\ NextVoice
    /\ UNCHANGED <<NotCalls, stateVars, queue, starting>>

Dropped ==
    /\ at.stage = "commit" /\ cancelled
    /\ NextVoice
    /\ UNCHANGED <<NotCalls, stateVars, queue, playing, starting, pending,
                   finished>>

---------------------------------------------------------------------------
Next ==
    \/ \E c \in MainCalls : Call(c)
    \/ \E c \in TimerCalls : Interrupt(c)
    \/ Return \/ CallStep
    \/ Drain \/ Begin \/ Look \/ Mix \/ Advance \/ VoiceEnd \/ Dropped

Spec == Init /\ [][Next]_vars

---------------------------------------------------------------------------
\* What is heard of a voice is one note's, its latest: a sample never mixes the
\* data of one, the position or the first volume of another ("note-on starts
\* with a coherent position/current-volume tuple").
SoundIsWhole ==
    [][at.stage = "fetch" /\ at'.stage = "commit" =>
          LET v == at.voice
              h == <<v, gen[v]>>
          IN  cur.of = h /\ data[v] = h /\ vol[v] = h]_vars

\* An end that is reported, or will be, is of a note that was played to its end,
\* and is reported once: an end of the note before is never taken for one.
EndsAreReal == IsInjective(ended) /\ ToSet(ended) \subseteq finished

\* Between two calls a voice is taken exactly as long as it sounds or its end
\* waits to be collected: none is lost, and none sounds that nobody holds.
SlotsMatchSound ==
    todo = <<>> /\ ~inIsr =>
        /\ playing \cup starting \subseteq taken \ pending
        /\ taken \subseteq playing \cup starting \cup pending

\* A note that has not finished loses its voice only to its own handle, to
\* of_mixer_stop_all or to a note of a higher priority, whatever handle the
\* interrupted call was given ("a timer callback may have stolen the voice").
OwnersDecide ==
    [][\A v \in taken : gen'[v] # gen[v] \/ v \notin taken' =>
          LET s == Head(todo) IN
          \/ <<v, gen[v]>> \in finished
          \/ s.op = "pick" /\ s.arg.prio > prio[v]
          \/ s.op \in {"retrigger", "stop"} /\ s.arg = <<v, gen[v]>>
          \/ s.op \in {"hush", "forget"}]_vars
=============================================================================

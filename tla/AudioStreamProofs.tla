------------------------- MODULE AudioStreamProofs --------------------------
(***************************************************************************)
(* AudioStream implements StreamFifo, for rings of any size, any floor of  *)
(* three pairs or more, every rate up to two pairs for a sample and calls  *)
(* of any length: whatever the mixer does between two register accesses,   *)
(* the voice plays what was written, in order, once, and never what the    *)
(* firmware is overwriting.                                                *)
(***************************************************************************)
EXTENDS AudioStream, Integers, SequenceTheorems, TLAPS

\* What follows an access in a call.
After(s) ==
    CASE s = "rate" -> {"pos"}
      [] s = "pos" -> {"wptr"}
      [] s = "wptr" -> {"vol"}
      [] s = "vol" -> {"ctrl"}
      [] s = "ctrl" -> {"room", "end"}
      [] s = "room" -> {"store"}
      [] s = "store" -> {"publish"}
      [] OTHER -> {"end"}
Accesses == {"rate", "pos", "wptr", "vol", "ctrl", "room", "store", "publish",
             "stop", "silence"}
\* The access that a call makes next.
First(t) == IF t = <<>> THEN "end" ELSE Head(t)
At == First(todo)

\* Accesses follow each other as in the calls; some store pairs.
Planned(t) ==
    \A i \in 1..Len(t) :
        (IF i = Len(t) THEN "end" ELSE t[i + 1]) \in After(t[i])
Stores(t) == \E i \in 1..Len(t) : t[i] \in {"room", "store"}

Setup == {"rate", "pos", "wptr", "vol", "ctrl"}
Filling == {"room", "store", "publish"}

\* How far a lies ahead of b in the ring.
Ahead(a, b) == (a + Size - b) % Size

\* Where the voice reads on, once its queued writes are done.
From == IF "pos" \in ToSet(queue) THEN 0 ELSE pos

\* The sample under way counts.
Counting == pass # "idle" /\ ~cancelled

ITypes ==
    /\ act \in BOOLEAN /\ active \in BOOLEAN /\ starting \in BOOLEAN
    /\ cancelled \in BOOLEAN
    /\ widx \in Index /\ wptr \in Index /\ pos \in Index /\ latch \in Index
    /\ frac \in 0..1 /\ want \in 0..4 /\ rate \in 0..4
    /\ queue \in Seq({"pos", "vol"})
    /\ count \in Nat /\ sent \in 0..Total
    /\ DOMAIN ring = Index
    /\ pass \in {"idle", "wptr", "fetch", "play", "commit"}

\* A call goes through its accesses in order, and offers no more than Total.
IPlan ==
    /\ todo \in Seq(Accesses) /\ Planned(todo)
    /\ Stores(todo) => sent + count <= Total

\* A stream that is closed is silent, and set up before it is on.
IClosed ==
    /\ ~act => ~On /\ widx = 0
    /\ At \in Setup => ~act
    /\ At \in Filling => act
    /\ At \in {"wptr", "vol", "ctrl"} => From = 0
    /\ At \in {"vol", "ctrl"} => wptr = 0

\* The room that the firmware computes is there: the position it has read is
\* the voice's, or that of the stream before, which the writer stays behind.
IRoom ==
    act =>
        /\ IF At = "publish"
           THEN /\ count <= Size - 1 - Ahead(wptr, From)
                /\ widx = (wptr + count) % Size
           ELSE widx = wptr
        /\ latch = From \/ (From = 0 /\ widx < latch)
        /\ At = "store" =>
            /\ count <= Size - 1 - Ahead(widx, From)
            /\ latch = From \/ widx + count < latch

\* What is in the backlog has been written, and what is about to be published.
IPairs ==
    /\ On => \A k \in 0..Ahead(wptr, From) - 1 :
                ring[(From + k) % Size] \in 1..Total
    /\ At = "publish" =>
        \A k \in 0..count - 1 : ring[(wptr + k) % Size] \in 1..Total

\* The sample under way is of the voice as it is, has the floor behind it, and
\* takes the first two pairs of the backlog.
IPass ==
    Counting =>
        /\ active /\ queue = <<>> /\ cur.pos = pos /\ cur.rate \in 0..4
        /\ pass # "wptr" => Ahead(wptr, pos) >= Floor
        /\ pass = "play" => cur.taps = <<ring[pos], ring[(pos + 1) % Size]>>
        /\ pass = "commit" => heard = <<ring[pos], ring[(pos + 1) % Size]>>

IInv == ITypes /\ IPlan /\ IClosed /\ IRoom /\ IPairs /\ IPass

-----------------------------------------------------------------------------
\* The arithmetic of the ring.
LEMMA Sizes ==
  /\ Size \in Nat /\ Total \in Nat /\ Floor \in Nat /\ 3 <= Floor
  /\ Floor <= Size - 1 /\ Index = 0..Size - 1 /\ 0 \in Index /\ Size # 0
  /\ Rates \subseteq 1..4 /\ Counts \subseteq 1..Total
BY StreamAssumption DEF Index

LEMMA AheadGives ==
  ASSUME NEW a \in Index, NEW b \in Index
  PROVE  /\ Ahead(a, b) = IF b <= a THEN a - b ELSE a - b + Size
         /\ Ahead(a, b) \in 0..Size - 1
<1>1. CASE b <= a
  <2>1. a + Size - b = (a - b) + Size /\ a - b \in 0..Size - 1
    BY <1>1, Sizes
  <2>2. ((a - b) + Size) % Size = a - b
    BY <2>1, Sizes
  <2>3. QED
    BY <1>1, <2>1, <2>2 DEF Ahead
<1>2. CASE b > a
  <2>1. a + Size - b \in 0..Size - 1 /\ a + Size - b = a - b + Size
    BY <1>2, Sizes
  <2>2. (a + Size - b) % Size = a + Size - b
    BY <2>1, Sizes
  <2>3. QED
    BY <1>2, <2>1, <2>2, Sizes DEF Ahead
<1>3. QED
  BY <1>1, <1>2, Sizes

LEMMA FurtherGives ==
  ASSUME NEW a \in Index, NEW k \in 0..Size
  PROVE  /\ (a + k) % Size = IF a + k < Size THEN a + k ELSE a + k - Size
         /\ (a + k) % Size \in Index
<1>1. CASE a + k < Size
  BY <1>1, Sizes
<1>2. CASE a + k >= Size
  <2>1. a + k = (a + k - Size) + Size /\ a + k - Size \in 0..Size - 1
    BY <1>2, Sizes
  <2>2. ((a + k - Size) + Size) % Size = a + k - Size
    BY <2>1, Sizes
  <2>3. QED
    BY <1>2, <2>1, <2>2, Sizes
<1>3. QED
  BY <1>1, <1>2, Sizes

\* Two ways to say the same: a lies k ahead of b.
LEMMA AheadFurther ==
  ASSUME NEW b \in Index, NEW k \in 0..Size - 1
  PROVE  Ahead((b + k) % Size, b) = k
<1>1. (b + k) % Size = IF b + k < Size THEN b + k ELSE b + k - Size
  BY FurtherGives, Sizes
<1>2. (b + k) % Size \in Index
  BY FurtherGives, Sizes
<1> DEFINE a == (b + k) % Size
<1>3. Ahead(a, b) = IF b <= a THEN a - b ELSE a - b + Size
  BY <1>2, AheadGives
<1>4. QED
  BY <1>1, <1>2, <1>3, Sizes

\* Distances add up.
LEMMA AheadAdds ==
  ASSUME NEW a \in Index, NEW b \in Index, NEW k \in 0..Size,
         Ahead(a, b) + k < Size
  PROVE  Ahead((a + k) % Size, b) = Ahead(a, b) + k
<1> DEFINE c == (a + k) % Size
<1>1. c = (IF a + k < Size THEN a + k ELSE a + k - Size) /\ c \in Index
  BY FurtherGives
<1>2. Ahead(a, b) = IF b <= a THEN a - b ELSE a - b + Size
  BY AheadGives
<1>3. Ahead(c, b) = IF b <= c THEN c - b ELSE c - b + Size
  BY <1>1, AheadGives
<1> HIDE DEF c
<1>4. QED
  BY <1>1, <1>2, <1>3, Sizes

LEMMA AheadLess ==
  ASSUME NEW a \in Index, NEW b \in Index, NEW k \in 0..Size,
         k <= Ahead(a, b)
  PROVE  Ahead(a, (b + k) % Size) = Ahead(a, b) - k
<1> DEFINE c == (b + k) % Size
<1>1. c = (IF b + k < Size THEN b + k ELSE b + k - Size) /\ c \in Index
  BY FurtherGives
<1>2. Ahead(a, b) = IF b <= a THEN a - b ELSE a - b + Size
  BY AheadGives
<1>3. Ahead(a, c) = IF c <= a THEN a - c ELSE a - c + Size
  BY <1>1, AheadGives
<1> HIDE DEF c
<1>4. QED
  BY <1>1, <1>2, <1>3, Sizes

LEMMA FurtherAdds ==
  ASSUME NEW a \in Index, NEW j \in 0..Size, NEW k \in 0..Size, j + k <= Size
  PROVE  (((a + j) % Size) + k) % Size = (a + (j + k)) % Size
<1> DEFINE c == (a + j) % Size
<1>1. c = (IF a + j < Size THEN a + j ELSE a + j - Size) /\ c \in Index
  BY FurtherGives
<1>2. (c + k) % Size = IF c + k < Size THEN c + k ELSE c + k - Size
  BY <1>1, FurtherGives
<1>3. /\ j + k \in 0..Size
      /\ (a + (j + k)) % Size = IF a + (j + k) < Size THEN a + (j + k)
                                ELSE a + (j + k) - Size
  <2>1. j + k \in 0..Size
    BY Sizes
  <2>2. QED
    BY <2>1, FurtherGives
<1> HIDE DEF c
<1>4. QED
  BY <1>1, <1>2, <1>3, Sizes

-----------------------------------------------------------------------------
\* The invariant holds at the start, and no call of the application breaks it.

LEMMA StreamInit == Init => IInv
<1> SUFFICES ASSUME Init PROVE IInv
  OBVIOUS
<1>1. /\ act = FALSE /\ widx = 0 /\ todo = <<>> /\ count = 0 /\ want = 2
      /\ ring = [i \in Index |-> 0]
      /\ rate = 0 /\ wptr = 0 /\ pos = 0 /\ frac = 0 /\ latch = 0
      /\ queue = <<>> /\ active = FALSE /\ starting = FALSE
      /\ pass = "idle" /\ cancelled = FALSE /\ sent = 0 /\ At = "end"
  BY DEF Init, At, First
<1>2. ITypes
  <2>1. queue \in Seq({"pos", "vol"}) /\ DOMAIN ring = Index
    BY <1>1
  <2>2. /\ 0 \in Index /\ 0 \in 0..1 /\ 2 \in 0..4 /\ 0 \in 0..4
        /\ 0 \in 0..Total
    BY Sizes
  <2>3. QED
    BY <1>1, <2>1, <2>2 DEF ITypes
<1>3. IPlan
  BY <1>1 DEF IPlan, Planned, Stores
<1>4. IClosed /\ IRoom /\ IPairs /\ IPass
  BY <1>1 DEF IClosed, IRoom, IPairs, IPass, Counting, On, Setup, Filling
<1>5. QED
  BY <1>2, <1>3, <1>4 DEF IInv

\* A call that begins leaves the mixer and the ring alone.
AppCall ==
    \/ \E r \in Rates : Open(r)
    \/ Stop \/ StopAll
    \/ \E n \in Counts : Write(n)

LEMMA AppCallGives ==
  ASSUME IInv, AppCall
  PROVE  /\ UNCHANGED <<act, ring, rate, wptr, queue, active, starting>>
         /\ UNCHANGED <<cancelled, pos, frac, latch, pass, cur, heard, sent>>
         /\ todo = <<>> /\ widx' \in {widx, 0}
         /\ want' \in 0..4 /\ count' \in Nat
         /\ \/ ~act /\ widx' = 0 /\ todo' = Configure
            \/ todo' \in {<<"stop">>, <<"silence">>} /\ UNCHANGED widx
            \/ act /\ todo' = Fill /\ sent + count' <= Total /\ UNCHANGED widx
            \/ /\ ~act /\ todo' = Configure \o Fill /\ sent + count' <= Total
               /\ UNCHANGED widx
<1>1. ITypes
  BY DEF IInv
<1>2. CASE \E r \in Rates : Open(r)
  BY <1>1, <1>2, Sizes DEF Open, Reset, regVars, scanVars, ITypes
<1>3. CASE Stop \/ StopAll
  BY <1>1, <1>3 DEF Stop, StopAll, Reset, regVars, scanVars, ITypes
<1>4. CASE \E n \in Counts : Write(n)
  BY <1>1, <1>4, Sizes DEF Write, regVars, scanVars, ITypes
<1>5. QED
  BY <1>2, <1>3, <1>4 DEF AppCall

LEMMA AppCallKeeps ==
  ASSUME IInv, AppCall
  PROVE  IInv' /\ UNCHANGED <<Backlog, heard>>
<1> USE AppCallGives
<1>1. ITypes /\ IPlan /\ IClosed /\ IRoom /\ IPairs /\ IPass
  BY DEF IInv
<1>2. From' = From /\ On' = On /\ Counting' = Counting /\ At = "end"
  BY DEF From, On, Counting, At, First
<1>3. ITypes'
  BY <1>1, Sizes DEF ITypes
<1>4. IPlan' /\ At' \in {"rate", "stop", "silence", "room"}
  <2>1. CASE todo' = Configure
    BY <2>1 DEF Configure, IPlan, At, First, Planned, Stores, After, Accesses
  <2>2. CASE todo' \in {<<"stop">>, <<"silence">>}
    <3>1. PICK s \in {"stop", "silence"} : todo' = <<s>>
      BY <2>2
    <3>2. QED
      BY <3>1 DEF IPlan, At, First, Planned, Stores, After, Accesses
  <2>3. CASE todo' = Fill /\ sent + count' <= Total
    BY <2>3 DEF Fill, IPlan, At, First, Planned, Stores, After, Accesses
  <2>4. CASE todo' = Configure \o Fill /\ sent + count' <= Total
    <3> DEFINE c == Configure
               f == Fill
    <3>1. c \in Seq(Accesses) /\ f \in Seq(Accesses) /\ Len(c) = 5 /\ Len(f) = 3
      BY DEF Configure, Fill, Accesses
    <3>2. /\ c[1] = "rate" /\ c[2] = "pos" /\ c[3] = "wptr" /\ c[4] = "vol"
          /\ c[5] = "ctrl" /\ f[1] = "room" /\ f[2] = "store"
          /\ f[3] = "publish"
      BY DEF Configure, Fill
    <3> HIDE DEF c, f
    <3> DEFINE q == c \o f
    <3>3. /\ q \in Seq(Accesses) /\ Len(q) = 8
          /\ \A i \in 1..8 : q[i] = IF i <= 5 THEN c[i] ELSE f[i - 5]
      <4>1. /\ q \in Seq(Accesses) /\ Len(q) = Len(c) + Len(f)
            /\ \A i \in 1..Len(c) + Len(f) :
                 q[i] = IF i <= Len(c) THEN c[i] ELSE f[i - Len(c)]
        BY <3>1, ConcatProperties, Zenon
      <4> HIDE DEF q
      <4>2. QED
        BY <3>1, <4>1
    <3>4. todo' = q
      BY <2>4 DEF c, f
    <3> HIDE DEF q
    <3>5. /\ q[1] = "rate" /\ q[2] = "pos" /\ q[3] = "wptr" /\ q[4] = "vol"
          /\ q[5] = "ctrl" /\ q[6] = "room" /\ q[7] = "store"
          /\ q[8] = "publish"
      <4>1. /\ q[1] = c[1] /\ q[2] = c[2] /\ q[3] = c[3] /\ q[4] = c[4]
            /\ q[5] = c[5]
        BY <3>3
      <4>2. q[6] = f[1] /\ q[7] = f[2] /\ q[8] = f[3]
        BY <3>3
      <4>3. QED
        BY <3>2, <4>1, <4>2
    <3>6. At' = "rate"
      <4>1. q # <<>>
        <5>1. Len(<<>>) = 0 /\ 8 # 0
          OBVIOUS
        <5>2. QED
          BY <3>3, <5>1, Zenon
      <4>2. Head(q) = q[1]
        BY <3>3, <4>1
      <4>3. QED
        BY <3>3, <3>4, <3>5, <4>1, <4>2 DEF At, First
    <3>7. ASSUME NEW i \in 1..8
          PROVE  (IF i = 8 THEN "end" ELSE q[i + 1]) \in After(q[i])
      <4>1. \/ i = 1 \/ i = 2 \/ i = 3 \/ i = 4
            \/ i = 5 \/ i = 6 \/ i = 7 \/ i = 8
        OBVIOUS
      <4>2. QED
        BY <3>5, <4>1 DEF After
    <3>8. QED
      BY <2>4, <3>3, <3>4, <3>6, <3>7 DEF IPlan, Planned
  <2>5. QED
    BY <2>1, <2>2, <2>3, <2>4
<1>5. IClosed'
  <2>1. CASE act
    <3>1. At' \notin Setup
      BY <2>1, <1>4 DEF At, First, Setup, Fill
    <3>2. QED
      BY <2>1, <3>1, <1>2 DEF IClosed, Setup
  <2>2. CASE ~act
    <3>1. At' \in {"rate", "stop", "silence"} /\ widx' = 0 /\ ~On
      BY <2>2, <1>1, <1>4 DEF At, First, Configure, Fill, IClosed
    <3>2. QED
      BY <2>2, <3>1, <1>2 DEF IClosed, Filling
  <2>3. QED
    BY <2>1, <2>2
<1>6. IRoom'
  <2>1. act => widx' = widx
    BY <1>1
  <2>2. QED
    BY <2>1, <1>1, <1>2, <1>4 DEF IRoom
<1>7. IPairs'
  BY <1>1, <1>2, <1>4 DEF IPairs, Ahead
<1>8. IPass'
  BY <1>1, <1>2 DEF IPass, Ahead
<1>9. Backlog' = Backlog
  BY <1>2 DEF Backlog
<1>10. QED
  BY <1>3, <1>4, <1>5, <1>6, <1>7, <1>8, <1>9 DEF IInv

-----------------------------------------------------------------------------
\* The mixer's steps.

LEMMA Origin ==
  ASSUME ITypes
  PROVE  From \in Index /\ (queue = <<>> => From = pos)
<1>1. queue = <<>> => "pos" \notin ToSet(queue)
  BY DEF ToSet
<1>2. QED
  BY <1>1, Sizes DEF ITypes, From

\* The backlog, counted from where the voice reads on.
LEMMA BacklogGives ==
  ASSUME ITypes, IPairs
  PROVE  /\ Backlog \in Seq(1..Total)
         /\ ~On => Backlog = <<>>
         /\ On => /\ Len(Backlog) = Ahead(wptr, From)
                  /\ \A i \in 1..Len(Backlog) :
                        Backlog[i] = ring[(From + (i - 1)) % Size]
<1>1. Backlog = IF On THEN [i \in 1..Ahead(wptr, From) |->
                               ring[(From + (i - 1)) % Size]] ELSE <<>>
  BY DEF Backlog, From, Ahead
<1>2. From \in Index /\ wptr \in Index
  BY Origin DEF ITypes
<1>3. Ahead(wptr, From) \in Nat
  <2>1. Ahead(wptr, From) \in 0..Size - 1
    BY <1>2, AheadGives, Zenon
  <2>2. QED
    BY <2>1, Sizes
<1>4. CASE ~On
  BY <1>1, <1>4
<1>5. CASE On
  <2> DEFINE f(i) == ring[(From + (i - 1)) % Size]
             n == Ahead(wptr, From)
  <2>1. \A i \in 1..n : f(i) \in 1..Total
    <3>1. SUFFICES ASSUME NEW i \in 1..n PROVE f(i) \in 1..Total
      OBVIOUS
    <3>2. i - 1 \in 0..Ahead(wptr, From) - 1
      BY <1>3, <3>1
    <3>3. QED
      BY <1>5, <3>2 DEF IPairs
  <2>2. Backlog = [i \in 1..n |-> f(i)] /\ n \in Nat
    BY <1>1, <1>3, <1>5
  <2> HIDE DEF f, n
  <2>3. Backlog \in Seq(1..Total) /\ Len(Backlog) = n
    BY <2>1, <2>2
  <2>4. \A i \in 1..n : Backlog[i] = f(i)
    BY <2>2
  <2>5. QED
    BY <1>5, <2>3, <2>4 DEF f, n
<1>6. QED
  BY <1>4, <1>5

LEMMA BacklogHolds ==
  ITypes /\ IPairs =>
    /\ Backlog \in Seq(1..Total)
    /\ On => /\ Len(Backlog) = Ahead(wptr, From)
             /\ \A i \in 1..Len(Backlog) :
                   Backlog[i] = ring[(From + (i - 1)) % Size]
BY BacklogGives

\* A step that leaves the firmware's side, the ring and the origin alone.
LEMMA FirmwareApart ==
  ASSUME IInv, UNCHANGED <<act, widx, todo, count, ring, wptr, sent, latch>>,
         From' = From, On' = On
  PROVE  IPlan' /\ IClosed' /\ IRoom' /\ IPairs' /\ Backlog' = Backlog
<1>1. At' = At
  BY DEF At
<1>2. IPlan' /\ IClosed' /\ IPairs'
  BY <1>1 DEF IInv, IPlan, IClosed, IPairs, Ahead
<1>3. IRoom'
  BY <1>1 DEF IInv, IRoom, Ahead
<1>4. Backlog' = Backlog
  BY DEF Backlog, From
<1>5. QED
  BY <1>2, <1>3, <1>4

LEMMA ArmKeeps ==
  ASSUME IInv, Arm
  PROVE  IInv' /\ UNCHANGED <<Backlog, heard>>
<1>1. /\ UNCHANGED <<act, widx, todo, count, want, ring, wptr, sent, latch>>
      /\ UNCHANGED <<rate, queue, cancelled, pos, frac, pass, cur, heard>>
      /\ active' = TRUE /\ starting' = FALSE /\ starting /\ queue = <<>>
  BY DEF Arm, cpuVars, scanVars
<1>2. From' = From /\ On' = On
  BY <1>1 DEF From, On
<1>3. IPlan' /\ IClosed' /\ IRoom' /\ IPairs' /\ Backlog' = Backlog
  BY <1>1, <1>2, FirmwareApart
<1>4. ITypes'
  BY <1>1 DEF IInv, ITypes
<1>5. IPass'
  BY <1>1 DEF IInv, IPass, Counting, Ahead
<1>6. QED
  BY <1>1, <1>3, <1>4, <1>5 DEF IInv

LEMMA DrainKeeps ==
  ASSUME IInv, Drain
  PROVE  IInv' /\ UNCHANGED <<Backlog, heard>>
<1>1. /\ UNCHANGED <<act, widx, todo, count, want, ring, wptr, sent, latch>>
      /\ UNCHANGED <<rate, active, starting, cancelled, frac, pass, cur, heard>>
      /\ pass = "idle" /\ queue # <<>> /\ queue' = Tail(queue)
      /\ pos' = IF Head(queue) = "pos" THEN 0 ELSE pos
  BY DEF Drain, cpuVars
<1>2. /\ queue \in Seq({"pos", "vol"}) /\ queue' \in Seq({"pos", "vol"})
      /\ Len(queue') = Len(queue) - 1 /\ Len(queue) \in Nat \ {0}
      /\ \A i \in 1..Len(queue') : queue'[i] = queue[i + 1]
      /\ Head(queue) = queue[1]
  BY <1>1, HeadTailProperties DEF IInv, ITypes
<1>3. From' = From
  <2>1. \A x : x \in ToSet(queue) <=> \E i \in 1..Len(queue) : x = queue[i]
    BY <1>2 DEF ToSet
  <2>2. \A x : x \in ToSet(queue') <=> \E i \in 1..Len(queue') : x = queue'[i]
    BY <1>2 DEF ToSet
  <2>3. "pos" \in ToSet(queue)
            <=> Head(queue) = "pos" \/ "pos" \in ToSet(queue')
    <3>1. ASSUME NEW i \in 1..Len(queue), i # 1
          PROVE  i - 1 \in 1..Len(queue') /\ queue'[i - 1] = queue[i]
      BY <1>2, <3>1
    <3>2. \A i \in 1..Len(queue') : i + 1 \in 1..Len(queue)
      BY <1>2
    <3>3. 1 \in 1..Len(queue)
      BY <1>2
    <3>4. QED
      BY <1>2, <2>1, <2>2, <3>1, <3>2, <3>3
  <2>4. ToSet(queue)' = ToSet(queue')
    OBVIOUS
  <2>5. QED
    BY <1>1, <2>3, <2>4 DEF From
<1>4. On' = On
  BY <1>1 DEF On
<1>5. IPlan' /\ IClosed' /\ IRoom' /\ IPairs' /\ Backlog' = Backlog
  BY <1>1, <1>3, <1>4, FirmwareApart
<1>6. ITypes'
  BY <1>1, <1>2, Sizes DEF IInv, ITypes
<1>7. IPass'
  BY <1>1 DEF IPass, Counting
<1>8. QED
  BY <1>1, <1>5, <1>6, <1>7 DEF IInv

\* The scan reaches the voice, and decides whether it is starved.
LEMMA LookKeeps ==
  ASSUME IInv, Look \/ ReadWptr \/ Fetch
  PROVE  IInv' /\ UNCHANGED <<Backlog, heard>>
<1>1. /\ UNCHANGED <<act, widx, todo, count, want, ring, wptr, sent, latch>>
      /\ UNCHANGED <<rate, queue, active, starting, pos, frac, heard>>
  BY DEF Look, ReadWptr, Fetch, cpuVars, regVars
<1>2. From' = From /\ On' = On
  BY <1>1 DEF From, On
<1>3. IPlan' /\ IClosed' /\ IRoom' /\ IPairs' /\ Backlog' = Backlog
  BY <1>1, <1>2, FirmwareApart
<1>4. CASE Look
  <2>1. /\ pass' = "wptr" /\ queue = <<>> /\ active /\ cancelled' = cancelled
        /\ cur' = [pos |-> pos, rate |-> rate, taps |-> <<>>]
    BY <1>4 DEF Look, regVars
  <2>2. ITypes' /\ IPass'
    BY <1>1, <2>1 DEF IInv, ITypes, IPass, Counting
  <2>3. QED
    BY <1>1, <1>3, <2>2 DEF IInv
<1>5. CASE ReadWptr
  <2>1. /\ pass = "wptr" /\ cancelled' \in {FALSE, cancelled}
        /\ \/ pass' = "idle"
           \/ ~cancelled /\ ~Starved /\ pass' = "fetch" /\ cur' = cur
    BY <1>5 DEF ReadWptr, Leave
  <2>2. ITypes'
    BY <1>1, <2>1 DEF IInv, ITypes
  <2>3. IPass'
    <3>1. CASE pass' = "idle"
      BY <3>1 DEF IPass, Counting
    <3>2. CASE pass' # "idle"
      <4>1. /\ cur' = cur /\ pass' = "fetch" /\ cancelled' = cancelled
            /\ Counting
            /\ ~(Ahead(wptr, cur.pos) < Floor)
        BY <2>1, <3>2, <1>5 DEF Counting, Starved, Avail, Ahead, ReadWptr, Leave
      <4>2. /\ cur.pos = pos /\ active /\ queue = <<>> /\ cur.rate \in 0..4
            /\ Ahead(wptr, pos) >= Floor
        <5>1. cur.pos = pos /\ active /\ queue = <<>> /\ cur.rate \in 0..4
          BY <4>1 DEF IInv, IPass
        <5>2. Ahead(wptr, pos) \in 0..Size - 1
          BY AheadGives DEF IInv, ITypes
        <5>3. QED
          BY <4>1, <5>1, <5>2, Sizes
      <4>3. QED
        BY <1>1, <4>1, <4>2 DEF IPass, Ahead
    <3>3. QED
      BY <3>1, <3>2
  <2>4. QED
    BY <1>1, <1>3, <2>2, <2>3 DEF IInv
<1>6. CASE Fetch
  <2>1. /\ pass = "fetch" /\ pass' = "play" /\ cancelled' = cancelled
        /\ cur' = [cur EXCEPT !.taps =
                     <<ring[cur.pos], ring[(cur.pos + 1) % Size]>>]
    BY <1>6 DEF Fetch, regVars
  <2>2. ITypes'
    BY <1>1, <2>1 DEF IInv, ITypes
  <2>3. ASSUME Counting
        PROVE  /\ cur'.pos = cur.pos /\ cur'.rate = cur.rate
               /\ cur'.taps = <<ring[pos], ring[(pos + 1) % Size]>>
    BY <2>1, <2>3 DEF IInv, IPass
  <2>4. IPass'
    BY <1>1, <2>1, <2>3 DEF IInv, IPass, Counting, Ahead
  <2>5. QED
    BY <1>1, <1>3, <2>2, <2>4 DEF IInv
<1>7. QED
  BY <1>4, <1>5, <1>6

\* The backlog's first two pairs are those at the position.
LEMMA FirstTwo ==
  ASSUME IInv, active, queue = <<>>, Ahead(wptr, pos) >= Floor
  PROVE  /\ SubSeq(Backlog, 1, 2) = <<ring[pos], ring[(pos + 1) % Size]>>
         /\ Len(Backlog) >= Floor /\ Len(Backlog) = Ahead(wptr, pos)
<1>1. ITypes /\ IPairs /\ On /\ From = pos /\ pos \in Index
  BY Origin DEF IInv, On, ITypes
<1>2. /\ Backlog \in Seq(1..Total) /\ Len(Backlog) = Ahead(wptr, pos)
      /\ \A i \in 1..Len(Backlog) : Backlog[i] = ring[(pos + (i - 1)) % Size]
  BY <1>1, BacklogGives
<1>3. Len(Backlog) >= 3 /\ Len(Backlog) \in Nat
  BY <1>2, Sizes
<1>4. Backlog[1] = ring[pos] /\ Backlog[2] = ring[(pos + 1) % Size]
  <2>1. pos + (1 - 1) = pos /\ 2 - 1 = 1 /\ pos % Size = pos
    BY <1>1, Sizes
  <2>2. 1 \in 1..Len(Backlog) /\ 2 \in 1..Len(Backlog)
    BY <1>3
  <2>3. QED
    BY <1>2, <2>1, <2>2
<1>5. SubSeq(Backlog, 1, 2) = <<Backlog[1], Backlog[2]>>
  <2>1. \A i \in 1..2 : Backlog[i] \in 1..Total
    <3>1. \A i \in 1..Len(Backlog) : Backlog[i] \in 1..Total
      <4> DEFINE V == 1..Total
      <4>1. Backlog \in Seq(V)
        BY <1>2
      <4> HIDE DEF V
      <4>2. \A i \in 1..Len(Backlog) : Backlog[i] \in V
        BY <4>1
      <4>3. QED
        BY <4>2 DEF V
    <3>2. \A i \in 1..2 : i \in 1..Len(Backlog)
      BY <1>3
    <3>3. QED
      BY <3>1, <3>2
  <2>2. /\ SubSeq(Backlog, 1, 2) \in Seq(1..Total)
        /\ Len(SubSeq(Backlog, 1, 2)) = 2
        /\ \A i \in 1..2 : SubSeq(Backlog, 1, 2)[i] = Backlog[i]
    <3>1. /\ SubSeq(Backlog, 1, 2) \in Seq(1..Total)
          /\ Len(SubSeq(Backlog, 1, 2)) = IF 1 <= 2 THEN 2 - 1 + 1 ELSE 0
          /\ \A i \in 1..(2 - 1 + 1) :
                SubSeq(Backlog, 1, 2)[i] = Backlog[1 + i - 1]
      <4>1. 1 \in Int /\ 2 \in Int
        OBVIOUS
      <4>2. QED
        BY <4>1, <2>1, SubSeqProperties
    <3>2. QED
      BY <3>1
  <2> DEFINE q == SubSeq(Backlog, 1, 2)
  <2> HIDE DEF q
  <2>3. /\ q \in Seq(1..Total) /\ Len(q) = 2
        /\ q[1] = Backlog[1] /\ q[2] = Backlog[2]
    BY <2>2 DEF q
  <2>4. q = <<q[1], q[2]>>
    BY <2>3
  <2>5. QED
    BY <2>3, <2>4 DEF q
<1>6. QED
  BY <1>2, <1>4, <1>5

\* A sample of the mixer's.
LEMMA MixKeeps ==
  ASSUME IInv, Mix
  PROVE  IInv' /\ [Fifo!Next]_Fifo!fifoVars
<1>1. /\ UNCHANGED <<act, widx, todo, count, want, ring, wptr, sent, latch>>
      /\ UNCHANGED <<rate, queue, active, starting, pos, frac>>
      /\ pass = "play"
  BY DEF Mix, cpuVars
<1>2. From' = From /\ On' = On
  BY <1>1 DEF From, On
<1>3. IPlan' /\ IClosed' /\ IRoom' /\ IPairs' /\ Backlog' = Backlog
  BY <1>1, <1>2, FirmwareApart
<1>4. CASE cancelled
  <2>1. pass' = "idle" /\ cancelled' = FALSE /\ heard' = heard
    BY <1>4 DEF Mix, Leave
  <2>2. ITypes' /\ IPass'
    BY <1>1, <2>1 DEF IInv, ITypes, IPass, Counting
  <2>3. QED
    BY <1>3, <2>1, <2>2 DEF IInv, Fifo!fifoVars
<1>5. CASE ~cancelled
  <2>1. heard' = cur.taps /\ pass' = "commit" /\ UNCHANGED <<cur, cancelled>>
    BY <1>5 DEF Mix
  <2>2. /\ Counting /\ active /\ queue = <<>> /\ Ahead(wptr, pos) >= Floor
        /\ cur.taps = <<ring[pos], ring[(pos + 1) % Size]>>
    BY <1>1, <1>5 DEF IInv, IPass, Counting
  <2>3. ITypes'
    BY <1>1, <2>1 DEF IInv, ITypes
  <2>4. IPass'
    BY <1>1, <2>1, <2>2 DEF IInv, IPass, Counting, Ahead
  <2>5. Fifo!Hear
    <3>1. heard' = SubSeq(Backlog, 1, 2) /\ Len(Backlog) >= Floor
      BY <2>1, <2>2, FirstTwo
    <3>2. Backlog' = SubSeq(Backlog, 0 + 1, Len(Backlog))
      <4>1. Backlog \in Seq(1..Total)
        BY BacklogGives DEF IInv
      <4>2. QED
        BY <1>3, <4>1, SubSeqFull
    <3>3. QED
      BY <3>1, <3>2 DEF Fifo!Hear
  <2>6. QED
    BY <1>3, <2>3, <2>4, <2>5 DEF IInv, Fifo!Next
<1>6. QED
  BY <1>4, <1>5

\* The position moves on past pairs that have been heard.
LEMMA CommitKeeps ==
  ASSUME IInv, Commit
  PROVE  IInv' /\ [Fifo!Next]_Fifo!fifoVars
<1>1. /\ UNCHANGED <<act, widx, todo, count, want, ring, wptr, sent, heard>>
      /\ UNCHANGED <<rate, queue, active, starting>>
      /\ pass = "commit" /\ pass' = "idle" /\ cancelled' = FALSE
  BY DEF Commit, Leave, cpuVars
<1>2. On' = On /\ At' = At /\ IPass'
  BY <1>1 DEF On, At, IPass, Counting
<1>3. CASE cancelled
  <2>1. UNCHANGED <<pos, frac, latch>>
    BY <1>3 DEF Commit
  <2>2. From' = From
    BY <1>1, <2>1 DEF From
  <2>3. IPlan' /\ IClosed' /\ IRoom' /\ IPairs' /\ Backlog' = Backlog
    BY <1>1, <1>2, <2>1, <2>2, FirmwareApart
  <2>4. ITypes'
    BY <1>1, <2>1 DEF IInv, ITypes
  <2>5. QED
    BY <1>1, <1>2, <2>3, <2>4 DEF IInv, Fifo!fifoVars
<1>4. CASE ~cancelled
  <2> DEFINE k == (frac + cur.rate) \div 2
  <2>1. /\ active /\ queue = <<>> /\ cur.pos = pos /\ cur.rate \in 0..4
        /\ Ahead(wptr, pos) >= Floor
        /\ heard = <<ring[pos], ring[(pos + 1) % Size]>>
    BY <1>1, <1>4 DEF IInv, IPass, Counting
  <2>2. /\ pos' = (pos + k) % Size /\ latch' = pos'
        /\ frac' = (frac + cur.rate) % 2
    BY <1>4, <2>1 DEF Commit, Reported
  <2>3. k \in 0..2 /\ frac' \in 0..1
    <3>1. \A f \in 0..1, r \in 0..4 :
             (f + r) \div 2 \in 0..2 /\ (f + r) % 2 \in 0..1
      OBVIOUS
    <3>2. frac \in 0..1
      BY DEF IInv, ITypes
    <3>3. QED
      BY <2>1, <2>2, <3>1, <3>2
  <2> HIDE DEF k
  <2>4. /\ pos \in Index /\ pos' \in Index /\ wptr \in Index /\ widx \in Index
        /\ k \in 0..Size
    <3>1. k \in 0..Size /\ pos \in Index /\ wptr \in Index /\ widx \in Index
      BY <2>3, Sizes DEF IInv, ITypes
    <3>2. (pos + k) % Size \in Index
      BY <3>1, FurtherGives
    <3>3. QED
      BY <2>2, <3>1, <3>2
  <2>5. On /\ act /\ From = pos /\ From' = pos'
    <3>1. On
      BY <2>1 DEF On
    <3>2. act
      BY <3>1 DEF IInv, IClosed
    <3>3. ITypes'
      BY <1>1, <2>2, <2>3, <2>4 DEF IInv, ITypes
    <3>4. From = pos /\ (queue' = <<>> => From' = pos')
      BY <2>1, Origin DEF IInv, From, ToSet
    <3>5. QED
      BY <1>1, <2>1, <3>1, <3>2, <3>4
  <2>6. /\ Ahead(wptr, pos') = Ahead(wptr, pos) - k
        /\ Ahead(wptr, pos) \in 0..Size - 1 /\ k <= Ahead(wptr, pos)
    <3>1. Ahead(wptr, pos) \in 0..Size - 1
      BY <2>4, AheadGives, Zenon
    <3>2. k <= Ahead(wptr, pos)
      BY <2>1, <2>3, <3>1, Sizes
    <3>3. Ahead(wptr, (pos + k) % Size) = Ahead(wptr, pos) - k
      BY <2>4, <3>2, AheadLess
    <3>4. QED
      BY <2>2, <3>1, <3>2, <3>3
  <2>7. ITypes' /\ IPlan'
    BY <1>1, <2>2, <2>3, <2>4 DEF IInv, ITypes, IPlan
  <2>8. IClosed'
    <3>1. At \notin Setup
      BY <2>5 DEF IInv, IClosed
    <3>2. QED
      BY <1>1, <1>2, <2>5, <3>1 DEF IInv, IClosed, Setup
  <2>9. IRoom'
    <3>1. At # "publish" => widx = wptr
      BY <2>5 DEF IInv, IRoom
    <3>2. Ahead(wptr, pos)' = Ahead(wptr, pos')
      BY <1>1 DEF Ahead
    <3>3. Ahead(widx, pos)' = Ahead(widx, pos')
      BY <1>1 DEF Ahead
    <3>4. count \in Nat /\ Size \in Nat /\ k \in Nat
      BY <2>3, Sizes DEF IInv, ITypes
    <3>5. At = "publish" =>
            /\ count <= Size - 1 - Ahead(wptr, pos')
            /\ widx = (wptr + count) % Size
      <4>1. At = "publish" =>
              /\ count <= Size - 1 - Ahead(wptr, pos)
              /\ widx = (wptr + count) % Size
        BY <2>5 DEF IInv, IRoom
      <4>2. QED
        BY <4>1, <2>6, <3>4
    <3>6. At = "store" => count <= Size - 1 - Ahead(widx, pos')
      <4>1. At = "store" => count <= Size - 1 - Ahead(wptr, pos)
        BY <2>5, <3>1 DEF IInv, IRoom
      <4>2. QED
        BY <4>1, <2>6, <3>1, <3>4
    <3>7. Ahead(wptr, From)' = Ahead(wptr, pos') /\
          Ahead(widx, From)' = Ahead(widx, pos')
      BY <1>1, <2>5 DEF Ahead
    <3>8. QED
      BY <1>1, <1>2, <2>2, <2>5, <3>1, <3>5, <3>6, <3>7 DEF IRoom
  <2>10. \A j \in 0..Ahead(wptr, pos') :
            (pos' + j) % Size = (pos + (k + j)) % Size
    <3>1. SUFFICES ASSUME NEW j \in 0..Ahead(wptr, pos')
                   PROVE  (pos' + j) % Size = (pos + (k + j)) % Size
      OBVIOUS
    <3>2. j \in 0..Size /\ k + j <= Size
      BY <2>3, <2>6, Sizes
    <3>3. (((pos + k) % Size) + j) % Size = (pos + (k + j)) % Size
      BY <2>4, <3>2, FurtherAdds
    <3>4. QED
      BY <2>2, <3>3
  <2>11. IPairs'
    <3>1. ASSUME NEW j \in 0..Ahead(wptr, pos') - 1
          PROVE  ring[(pos' + j) % Size] \in 1..Total
      <4>1. /\ k + j \in 0..Ahead(wptr, pos) - 1
            /\ j \in 0..Ahead(wptr, pos')
        BY <2>3, <2>6
      <4>2. ring[(pos + (k + j)) % Size] \in 1..Total
        BY <4>1, <2>5 DEF IInv, IPairs
      <4>3. QED
        BY <4>1, <4>2, <2>10
    <3>2. Ahead(wptr, From)' = Ahead(wptr, pos')
      BY <1>1, <2>5 DEF Ahead
    <3>3. QED
      BY <1>1, <1>2, <2>5, <3>1, <3>2 DEF IInv, IPairs
  <2>12. Fifo!Hear
    <3>1. /\ heard' = SubSeq(Backlog, 1, 2) /\ Len(Backlog) >= Floor
          /\ Len(Backlog) = Ahead(wptr, pos)
      BY <1>1, <2>1, FirstTwo
    <3>2. /\ Backlog \in Seq(1..Total)
          /\ \A i \in 1..Len(Backlog) :
                Backlog[i] = ring[(pos + (i - 1)) % Size]
      BY <2>5, BacklogGives DEF IInv
    <3>3. /\ Backlog' \in Seq(1..Total) /\ Len(Backlog') = Ahead(wptr, pos')
          /\ \A i \in 1..Len(Backlog') :
                Backlog'[i] = ring[(pos' + (i - 1)) % Size]
      <4>1. /\ (Backlog \in Seq(1..Total))'
            /\ (Len(Backlog) = Ahead(wptr, From))'
            /\ (\A i \in 1..Len(Backlog) :
                   Backlog[i] = ring[(From + (i - 1)) % Size])'
        <5>1. (/\ Backlog \in Seq(1..Total)
               /\ On => /\ Len(Backlog) = Ahead(wptr, From)
                        /\ \A i \in 1..Len(Backlog) :
                              Backlog[i] = ring[(From + (i - 1)) % Size])'
          BY <2>7, <2>11, BacklogHolds, PTL
        <5>2. QED
          BY <1>2, <2>5, <5>1
      <4>2. QED
        BY <1>1, <2>5, <4>1 DEF Ahead
    <3> DEFINE b == Backlog
               c == Backlog'
               n == Len(Backlog)
               m == Len(Backlog')
    <3>4. b \in Seq(1..Total) /\ c \in Seq(1..Total) /\ n = Len(b) /\ m = Len(c)
      BY <3>2, <3>3
    <3>5. n \in Nat /\ m \in Nat /\ m = n - k /\ k + 1 \in Int /\ k + 1 <= n
      BY <3>1, <3>3, <2>3, <2>6, Sizes
    <3>6. \A i \in 1..m : c[i] = b[(k + 1) + i - 1]
      <4>1. SUFFICES ASSUME NEW i \in 1..m PROVE c[i] = b[(k + 1) + i - 1]
        OBVIOUS
      <4>2. /\ i - 1 \in 0..Ahead(wptr, pos') /\ (k + 1) + i - 1 = k + i
            /\ k + i \in 1..n /\ (k + i) - 1 = k + (i - 1)
        BY <3>3, <3>5, <4>1, <2>3, <2>6
      <4>3. c[i] = ring[(pos' + (i - 1)) % Size]
        BY <3>3
      <4>4. b[k + i] = ring[(pos + ((k + i) - 1)) % Size]
        BY <3>2, <4>2
      <4>5. QED
        BY <2>10, <4>2, <4>3, <4>4
    <3> HIDE DEF b, c, n, m
    <3>7. c = SubSeq(b, k + 1, n)
      <4> DEFINE q == SubSeq(b, k + 1, n)
      <4>1. \A i \in (k + 1)..n : b[i] \in 1..Total
        <5> DEFINE V == 1..Total
        <5>1. b \in Seq(V) /\ n = Len(b)
          BY <3>4
        <5> HIDE DEF V
        <5>2. \A i \in 1..n : b[i] \in V
          BY <5>1
        <5>3. \A i \in (k + 1)..n : i \in 1..n
          BY <2>3, <3>5
        <5>4. QED
          BY <5>2, <5>3 DEF V
      <4>2. /\ q \in Seq(1..Total)
            /\ Len(q) = IF k + 1 <= n THEN n - (k + 1) + 1 ELSE 0
            /\ \A i \in 1..(n - (k + 1) + 1) : q[i] = b[(k + 1) + i - 1]
        <5>1. n \in Int
          BY <3>5
        <5>2. QED
          BY <5>1, <3>5, <4>1, SubSeqProperties
      <4> HIDE DEF q
      <4>3. Len(q) = m /\ \A i \in 1..m : q[i] = c[i]
        BY <2>3, <3>5, <3>6, <4>2
      <4>4. c = q
        <5>1. c = [i \in 1..m |-> c[i]] /\ q = [i \in 1..m |-> q[i]]
          BY <3>4, <4>2, <4>3
        <5>2. QED
          BY <4>3, <5>1
      <4>5. QED
        BY <4>4 DEF q
    <3>8. QED
      BY <3>1, <3>7, <2>3 DEF Fifo!Hear, b, c, n
  <2>13. QED
    BY <1>2, <2>7, <2>8, <2>9, <2>11, <2>12 DEF IInv, Fifo!Next
<1>5. QED
  BY <1>3, <1>4

-----------------------------------------------------------------------------
\* The firmware's register accesses.

LEMMA CallGives ==
  ASSUME IInv, CallStep
  PROVE  /\ UNCHANGED <<want, pos, frac, latch, pass, cur, heard>>
         /\ todo # <<>> /\ At = Head(todo) /\ At \in Accesses
         /\ Access(At)
         /\ At = "room" => Take
         /\ At = "store" => Store
         /\ At \notin {"room", "store"} => Plain(At)
<1>1. todo # <<>> /\ At = Head(todo)
  BY DEF CallStep, At, First
<1>2. At \in Accesses
  BY <1>1, HeadTailProperties DEF IInv, IPlan
<1>3. QED
  BY <1>1, <1>2 DEF CallStep, scanVars

\* The accesses that are left are a plan too.
LEMMA TailPlan ==
  ASSUME NEW t \in Seq(Accesses), t # <<>>, Planned(t)
  PROVE  /\ Tail(t) \in Seq(Accesses) /\ Planned(Tail(t))
         /\ First(Tail(t)) \in After(First(t))
         /\ Stores(Tail(t)) => Stores(t)
         /\ First(t) \in {"room", "store"} => Stores(t)
         /\ First(Tail(t)) = "publish" => ~Stores(Tail(t))
<1> DEFINE q == Tail(t)
<1>1. /\ q \in Seq(Accesses) /\ Len(t) \in Nat \ {0} /\ Len(q) = Len(t) - 1
      /\ \A i \in 1..Len(q) : q[i] = t[i + 1]
      /\ First(t) = t[1]
  BY HeadTailProperties DEF First
<1> HIDE DEF q
<1>2. /\ First(q) = IF Len(t) = 1 THEN "end" ELSE t[2]
      /\ Len(t) # 1 => First(q) = q[1]
  <2>1. CASE Len(t) = 1
    BY <1>1, <2>1 DEF First
  <2>2. CASE Len(t) # 1
    <3>1. Len(q) # 0 /\ 1 \in 1..Len(q)
      BY <1>1, <2>2
    <3>2. q # <<>>
      BY <3>1
    <3>3. Head(q) = q[1]
      BY <1>1, <3>2
    <3>4. QED
      BY <1>1, <2>2, <3>1, <3>2, <3>3 DEF First
  <2>3. QED
    BY <2>1, <2>2
<1>3. First(q) \in After(First(t))
  <2>1. 1 \in 1..Len(t) /\ 1 + 1 = 2
    BY <1>1
  <2>2. QED
    BY <1>1, <1>2, <2>1 DEF Planned
<1>4. First(t) \in {"room", "store"} => Stores(t)
  <2>1. 1 \in 1..Len(t)
    BY <1>1
  <2>2. QED
    BY <1>1, <2>1 DEF Stores
<1>5. ASSUME NEW i \in 1..Len(q)
      PROVE  /\ i + 1 \in 1..Len(t) /\ q[i] = t[i + 1]
             /\ (IF i = Len(q) THEN "end" ELSE q[i + 1]) \in After(q[i])
  <2>1. /\ i + 1 \in 1..Len(t) /\ (i = Len(q) <=> i + 1 = Len(t))
        /\ i # Len(q) => i + 1 \in 1..Len(q)
    BY <1>1
  <2>2. /\ q[i] = t[i + 1]
        /\ i # Len(q) => q[i + 1] = t[(i + 1) + 1]
    BY <1>1, <2>1
  <2>3. QED
    BY <2>1, <2>2 DEF Planned
<1>6. Planned(q) /\ (Stores(q) => Stores(t))
  BY <1>5 DEF Planned, Stores
<1>7. ASSUME First(q) = "publish", Stores(q)
      PROVE  FALSE
  <2>1. PICK i \in 1..Len(q) : q[i] \in {"room", "store"}
    BY <1>7 DEF Stores
  <2>2. Len(t) # 1 /\ q[1] = "publish" /\ Len(q) \in Nat
    BY <1>1, <1>2, <1>7
  <2>3. 1 \in 1..Len(q) /\ 2 \in 1..Len(q) /\ 1 # Len(q) /\ 1 + 1 = 2
    BY <1>1, <2>1, <2>2
  <2>4. q[2] \in After("publish") /\ q[2] \in Accesses
    BY <1>1, <1>5, <2>2, <2>3
  <2>5. QED
    BY <2>4 DEF After, Accesses
<1>8. QED
  BY <1>1, <1>3, <1>4, <1>6, <1>7 DEF q

\* An access that leaves count and sent alone.
LEMMA PlanKeeps ==
  ASSUME IPlan, todo # <<>>, todo' = Tail(todo), UNCHANGED <<count, sent>>
  PROVE  IPlan' /\ At' \in After(At)
BY TailPlan DEF IPlan, At

\* A closed stream takes no sample.
LEMMA Silent ==
  ASSUME IInv
  PROVE  /\ ~act => ~On /\ ~Counting /\ widx = 0 /\ Backlog = <<>>
         /\ ~On => ~Counting
<1>1. ~act => ~On /\ widx = 0
  BY DEF IInv, IClosed
<1>2. ~On => ~Counting
  BY DEF IInv, IPass, On
<1>3. ~On => Backlog = <<>>
  BY DEF Backlog
<1>4. QED
  BY <1>1, <1>2, <1>3

LEMMA AppendGives ==
  ASSUME ITypes, NEW e \in {"pos", "vol"}, queue' = Append(queue, e)
  PROVE  /\ queue' \in Seq({"pos", "vol"})
         /\ \A x : x \in ToSet(queue') <=> x = e \/ x \in ToSet(queue)
<1>1. /\ queue \in Seq({"pos", "vol"}) /\ Len(queue) \in Nat
      /\ queue' \in Seq({"pos", "vol"}) /\ Len(queue') = Len(queue) + 1
      /\ \A i \in 1..Len(queue) : queue'[i] = queue[i]
      /\ queue'[Len(queue) + 1] = e
  BY AppendProperties DEF ITypes
<1>2. /\ \A x : x \in ToSet(queue) <=> \E i \in 1..Len(queue) : x = queue[i]
      /\ \A x : x \in ToSet(queue') <=> \E i \in 1..Len(queue') : x = queue'[i]
  BY <1>1 DEF ToSet
<1>3. /\ \A i \in 1..Len(queue') : i \in 1..Len(queue) \/ i = Len(queue) + 1
      /\ \A i \in 1..Len(queue) : i \in 1..Len(queue')
      /\ Len(queue) + 1 \in 1..Len(queue')
  BY <1>1
<1>4. QED
  BY <1>1, <1>2, <1>3

\* The stream is set up: it stays silent until the last access starts it.
LEMMA SetupKeeps ==
  ASSUME IInv, CallStep, At \in {"rate", "pos", "wptr", "vol"}
  PROVE  IInv' /\ UNCHANGED <<Backlog, heard>>
<1>1. /\ UNCHANGED <<want, pos, frac, latch, pass, cur, heard>>
      /\ todo # <<>> /\ Access(At) /\ Plain(At)
  BY CallGives
<1>2. /\ todo' = Tail(todo) /\ UNCHANGED <<act, widx, count, ring, sent>>
      /\ UNCHANGED starting
  BY <1>1 DEF Plain, Access, Hold, Push
<1>3. IPlan' /\ At' \in After(At)
  BY <1>1, <1>2, PlanKeeps DEF IInv
<1>4. ~act /\ ~On /\ ~Counting /\ widx = 0 /\ Backlog = <<>> /\ ~act'
  BY <1>2, Silent DEF IInv, IClosed, Setup
<1>5. /\ ITypes' /\ ~On' /\ ~Counting'
      /\ At' \in Setup /\ (At = "rate" => At' = "pos")
      /\ At' \in {"wptr", "vol", "ctrl"} => From' = 0
      /\ At' \in {"vol", "ctrl"} => wptr' = 0
  <2>1. ITypes /\ IClosed
    BY DEF IInv
  <2>2. CASE At = "rate"
    <3>1. UNCHANGED <<queue, active, cancelled, wptr>> /\ rate' = want
      BY <1>1, <2>2 DEF Access, Hold
    <3>2. At' = "pos"
      BY <1>3, <2>2 DEF After
    <3>3. QED
      BY <3>1, <3>2, <1>1, <1>2, <1>4, <2>1 DEF ITypes, On, Counting, Setup
  <2>3. CASE At = "pos"
    <3>1. /\ queue' = Append(queue, "pos") /\ active' = FALSE
          /\ cancelled' = (pass # "idle") /\ UNCHANGED <<rate, wptr>>
      BY <1>1, <2>3 DEF Access, Push
    <3>2. At' = "wptr"
      BY <1>3, <2>3 DEF After
    <3>3. queue' \in Seq({"pos", "vol"}) /\ From' = 0
      BY <2>1, <3>1, AppendGives DEF From
    <3>4. ITypes'
      <4>1. cancelled' \in BOOLEAN /\ active' \in BOOLEAN
        BY <3>1
      <4>2. UNCHANGED <<act, starting, widx, wptr, pos, latch, frac, want>>
        BY <3>1, <1>1, <1>2
      <4>3. UNCHANGED <<rate, count, sent, ring, pass>>
        BY <3>1, <1>1, <1>2
      <4>4. queue' \in Seq({"pos", "vol"})
        BY <3>3
      <4>5. QED
        BY <2>1, <4>1, <4>2, <4>3, <4>4 DEF ITypes
    <3>5. ~On' /\ ~Counting'
      BY <3>1, <1>1, <1>2, <1>4 DEF On, Counting
    <3>6. QED
      BY <2>3, <3>2, <3>3, <3>4, <3>5 DEF Setup
  <2>4. CASE At = "wptr"
    <3>1. UNCHANGED <<queue, active, cancelled, rate>> /\ wptr' = 0
      BY <1>1, <2>4 DEF Access, Hold
    <3>2. At' = "vol"
      BY <1>3, <2>4 DEF After
    <3>3. From' = 0
      BY <3>1, <1>1, <2>1, <2>4 DEF IClosed, From
    <3>4. ITypes'
      BY <3>1, <3>2, <3>3, <1>1, <1>2, <1>4, <2>1, Sizes DEF ITypes
    <3>5. ~On' /\ ~Counting'
      BY <3>1, <3>2, <3>3, <1>1, <1>2, <1>4, <2>1 DEF On, Counting
    <3>6. QED
      BY <3>1, <3>2, <3>3, <3>4, <3>5, <2>4 DEF Setup
  <2>5. CASE At = "vol"
    <3>1. /\ queue' = Append(queue, "vol") /\ active' = FALSE
          /\ cancelled' = (pass # "idle") /\ UNCHANGED <<rate, wptr>>
      BY <1>1, <2>5 DEF Access, Push
    <3>2. At' = "ctrl"
      BY <1>3, <2>5 DEF After
    <3>3. queue' \in Seq({"pos", "vol"}) /\ From' = From
      BY <2>1, <3>1, <1>1, AppendGives DEF From
    <3>4. From = 0 /\ wptr = 0
      BY <2>1, <2>5 DEF IClosed
    <3>5. ITypes'
      BY <3>1, <3>2, <3>3, <3>4, <1>1, <1>2, <1>4, <2>1, Sizes DEF ITypes
    <3>6. ~On' /\ ~Counting'
      BY <3>1, <3>2, <3>3, <3>4, <1>1, <1>2, <1>4, <2>1 DEF On, Counting
    <3>7. QED
      BY <3>1, <3>2, <3>3, <3>4, <3>5, <3>6, <2>5 DEF Setup
  <2>6. QED
    BY <2>2, <2>3, <2>4, <2>5
<1>6. IClosed'
  BY <1>2, <1>4, <1>5 DEF IClosed, Setup, Filling
<1>7. IRoom' /\ IPairs' /\ IPass' /\ Backlog' = <<>>
  BY <1>2, <1>4, <1>5 DEF IRoom, IPairs, IPass, Backlog, Setup
<1>8. QED
  BY <1>1, <1>3, <1>4, <1>5, <1>6, <1>7 DEF IInv

\* The voice is started, with nothing behind it yet.
LEMMA CtrlKeeps ==
  ASSUME IInv, CallStep, At = "ctrl"
  PROVE  IInv' /\ UNCHANGED <<Backlog, heard>>
<1>1. /\ UNCHANGED <<want, pos, frac, latch, pass, cur, heard>>
      /\ todo # <<>> /\ Access("ctrl") /\ Plain("ctrl")
  BY CallGives
<1>2. /\ todo' = Tail(todo) /\ UNCHANGED <<widx, count, ring, sent>>
      /\ act' = TRUE /\ starting' = TRUE
      /\ UNCHANGED <<queue, active, cancelled, rate, wptr>>
  BY <1>1 DEF Plain, Access
<1>3. IPlan' /\ At' \in {"room", "end"}
  BY <1>1, <1>2, PlanKeeps DEF IInv, After
<1>4. /\ ~act /\ ~On /\ ~Counting /\ widx = 0 /\ Backlog = <<>>
      /\ From = 0 /\ wptr = 0
  BY Silent DEF IInv, IClosed, Setup
<1>5. On' /\ From' = From /\ ~Counting'
  BY <1>1, <1>2, <1>4 DEF On, From, Counting
<1>6. Ahead(wptr, From)' = 0
  <2>1. Ahead(0, 0) = 0
    BY AheadGives, Sizes
  <2>2. QED
    BY <1>2, <1>4, <1>5, <2>1 DEF Ahead
<1>7. ITypes'
  BY <1>1, <1>2 DEF IInv, ITypes
<1>8. IClosed'
  BY <1>2, <1>3 DEF IClosed, Setup
<1>9. IRoom'
  <2>1. latch \in Nat
    BY Sizes DEF IInv, ITypes
  <2>2. latch = 0 \/ 0 < latch
    BY <2>1
  <2>3. QED
    BY <1>1, <1>2, <1>3, <1>4, <1>5, <2>2 DEF IRoom
<1>10. IPairs' /\ IPass'
  <2>1. 0..0 - 1 = {}
    OBVIOUS
  <2>2. QED
    BY <1>3, <1>5, <1>6, <2>1 DEF IPairs, IPass
<1>11. Backlog' = <<>>
  <2>1. (wptr + Size - From)' % Size = 0
    BY <1>6 DEF Ahead
  <2>2. 1..0 = {}
    OBVIOUS
  <2>3. Backlog' = IF On' THEN [i \in 1..Ahead(wptr, From)' |->
                                  ring'[(From + i - 1)' % Size]] ELSE <<>>
    BY DEF Backlog, From, Ahead
  <2>4. QED
    BY <1>5, <1>6, <2>2, <2>3
<1>12. QED
  BY <1>1, <1>3, <1>4, <1>7, <1>8, <1>9, <1>10, <1>11 DEF IInv

\* What the ring takes of a call.
LEMMA RoomKeeps ==
  ASSUME IInv, CallStep, At = "room"
  PROVE  IInv' /\ UNCHANGED <<Backlog, heard>>
<1>1. /\ UNCHANGED <<want, pos, frac, latch, pass, cur, heard>>
      /\ todo # <<>> /\ Access("room") /\ Take
  BY CallGives
<1>2. /\ UNCHANGED <<act, widx, ring, sent>>
      /\ UNCHANGED <<queue, active, starting, cancelled, rate, wptr>>
      /\ count' = IF count < Room THEN count ELSE Room
      /\ todo' = IF count' = 0 THEN <<>> ELSE Tail(todo)
  BY <1>1 DEF Take, Access, Hold
<1>3. act /\ ITypes /\ IPlan /\ From \in Index /\ count \in Nat
  BY Origin DEF IInv, IClosed, Filling, ITypes
<1>4. Room = Size - 1 - Ahead(widx, latch) /\ Ahead(widx, latch) \in 0..Size - 1
  <2>1. Ahead(widx, latch) \in 0..Size - 1
    BY <1>3, AheadGives DEF ITypes
  <2>2. QED
    BY <1>3, <2>1 DEF Room, Gap, Ahead
<1>5. count' \in Nat /\ count' <= count /\ count' <= Room /\ Room \in Nat
  <2>1. Room \in Nat
    BY <1>4, Sizes
  <2>2. QED
    BY <1>2, <1>3, <2>1
<1>6. ITypes'
  BY <1>1, <1>2, <1>3, <1>5 DEF ITypes
<1>7. IPlan' /\ At' \in {"store", "end"}
  <2>1. CASE count' = 0
    <3>1. todo' = <<>>
      BY <1>2, <2>1
    <3>2. QED
      BY <3>1 DEF IPlan, Planned, Stores, At, First
  <2>2. CASE count' # 0
    <3>1. /\ Tail(todo) \in Seq(Accesses) /\ Planned(Tail(todo))
          /\ First(Tail(todo)) \in After(First(todo)) /\ Stores(todo)
      BY <1>1, <1>3, TailPlan DEF IPlan, At
    <3>2. todo' = Tail(todo)
      BY <1>2, <2>2
    <3>3. sent' + count' <= Total
      <4>1. sent + count <= Total /\ sent \in Nat /\ Total \in Nat
        BY <1>3, <3>1, Sizes DEF IPlan, ITypes
      <4>2. \A n \in Nat : n <= count => sent + n <= Total
        BY <4>1, <1>3
      <4>3. QED
        BY <1>2, <1>5, <4>2
    <3>4. QED
      BY <3>1, <3>2, <3>3 DEF IPlan, At, After
  <2>3. QED
    BY <2>1, <2>2
<1>8. From' = From /\ On' = On /\ Counting' = Counting
  BY <1>1, <1>2 DEF From, On, Counting
<1>9. IClosed'
  BY <1>2, <1>3, <1>7 DEF IClosed, Setup
<1>10. IRoom'
  <2>1. widx = wptr /\ (latch = From \/ (From = 0 /\ widx < latch))
    BY <1>3 DEF IInv, IRoom
  <2>2. /\ count' <= Size - 1 - Ahead(widx, From)
        /\ latch = From \/ widx + count' < latch
    <3>1. \A n \in Nat : n <= Room =>
             /\ n <= Size - 1 - Ahead(widx, From)
             /\ latch = From \/ widx + n < latch
      <4>1. CASE latch = From
        BY <1>4, <4>1
      <4>2. CASE From = 0 /\ widx < latch
        <5>1. /\ Ahead(widx, latch) = widx - latch + Size
              /\ Ahead(widx, From) = widx
              /\ widx \in Nat /\ latch \in Nat /\ Size \in Nat /\ latch < Size
          <6>1. widx \in Index /\ latch \in Index /\ 0 \in Index
            BY <1>3, Sizes DEF ITypes
          <6>2. /\ Ahead(widx, latch) = IF latch <= widx THEN widx - latch
                                        ELSE widx - latch + Size
                /\ Ahead(widx, 0) = IF 0 <= widx THEN widx - 0
                                    ELSE widx - 0 + Size
            BY <6>1, AheadGives
          <6>3. QED
            BY <4>2, <6>1, <6>2, Sizes
        <5>2. QED
          BY <1>4, <5>1
      <4>3. QED
        BY <2>1, <4>1, <4>2
    <3>2. QED
      BY <1>5, <3>1
  <2>3. Ahead(widx, From)' = Ahead(widx, From)
    BY <1>2, <1>8 DEF Ahead
  <2>4. QED
    BY <1>1, <1>2, <1>7, <1>8, <2>1, <2>2, <2>3 DEF IRoom
<1>11. IPairs' /\ IPass' /\ Backlog' = Backlog
  BY <1>1, <1>2, <1>7, <1>8 DEF IInv, IPairs, IPass, Ahead, Backlog, From
<1>12. QED
  BY <1>1, <1>6, <1>7, <1>9, <1>10, <1>11 DEF IInv

\* What lies behind the writer is out of reach of the room before it.
LEMMA Reach ==
  ASSUME NEW w \in Index, NEW f \in Index, NEW k \in 0..Ahead(w, f) - 1
  PROVE  /\ (f + k) % Size \in Index
         /\ Ahead((f + k) % Size, w) = Size - Ahead(w, f) + k
<1> DEFINE c == (f + k) % Size
<1>1. /\ Ahead(w, f) \in 0..Size - 1
      /\ Ahead(w, f) = IF f <= w THEN w - f ELSE w - f + Size
  BY AheadGives
<1>2. k \in 0..Size
  BY <1>1, Sizes
<1>3. c \in Index /\ c = IF f + k < Size THEN f + k ELSE f + k - Size
  BY <1>2, FurtherGives
<1>4. Ahead(c, w) = IF w <= c THEN c - w ELSE c - w + Size
  BY <1>3, AheadGives
<1> HIDE DEF c
<1>5. Ahead(c, w) = Size - Ahead(w, f) + k
  BY <1>1, <1>2, <1>3, <1>4, Sizes
<1>6. QED
  BY <1>3, <1>5 DEF c

\* As far ahead as the writer is, there it is.
LEMMA There ==
  ASSUME NEW w \in Index, NEW f \in Index
  PROVE  (f + Ahead(w, f)) % Size = w
<1>1. /\ Ahead(w, f) \in 0..Size - 1
      /\ Ahead(w, f) = IF f <= w THEN w - f ELSE w - f + Size
  BY AheadGives
<1>2. Ahead(w, f) \in 0..Size
  BY <1>1, Sizes
<1>3. (f + Ahead(w, f)) % Size = IF f + Ahead(w, f) < Size THEN f + Ahead(w, f)
                                 ELSE f + Ahead(w, f) - Size
  BY <1>2, FurtherGives
<1>4. QED
  BY <1>1, <1>3, Sizes

\* The pairs of a call go into the ring; none that is still to be heard goes.
LEMMA StoreKeeps ==
  ASSUME IInv, CallStep, At = "store"
  PROVE  IInv' /\ UNCHANGED <<Backlog, heard>>
<1>1. /\ UNCHANGED <<want, pos, frac, latch, pass, cur, heard>>
      /\ todo # <<>> /\ Access("store") /\ Store
  BY CallGives
<1>2. /\ UNCHANGED <<act, count>>
      /\ UNCHANGED <<queue, active, starting, cancelled, rate, wptr>>
      /\ widx' = (widx + count) % Size /\ sent' = sent + count
      /\ todo' = Tail(todo)
      /\ ring' = [i \in Index |-> IF Ahead(i, widx) < count
                                  THEN sent + Ahead(i, widx) + 1 ELSE ring[i]]
  BY <1>1 DEF Store, Access, Hold, Ahead
<1>3. /\ act /\ ITypes /\ IPlan /\ From \in Index /\ count \in Nat
      /\ widx \in Index /\ wptr \in Index /\ latch \in Index
  BY Origin DEF IInv, IClosed, Filling, ITypes
<1> DEFINE L == Ahead(wptr, From)
<1>4. /\ widx = wptr /\ count <= Size - 1 - L /\ L \in 0..Size - 1
      /\ latch = From \/ (From = 0 /\ widx + count < latch)
  <2>1. /\ widx = wptr /\ count <= Size - 1 - Ahead(widx, From)
        /\ latch = From \/ From = 0
        /\ latch = From \/ widx + count < latch
    BY <1>3 DEF IInv, IRoom
  <2>2. L \in 0..Size - 1
    BY <1>3, AheadGives, Zenon
  <2>3. QED
    BY <2>1, <2>2
<1> HIDE DEF L
<1>5. /\ Tail(todo) \in Seq(Accesses) /\ Planned(Tail(todo))
      /\ First(Tail(todo)) = "publish" /\ ~Stores(Tail(todo))
      /\ sent + count <= Total
  <2>1. /\ Tail(todo) \in Seq(Accesses) /\ Planned(Tail(todo))
        /\ First(Tail(todo)) \in After(First(todo)) /\ Stores(todo)
        /\ First(Tail(todo)) = "publish" => ~Stores(Tail(todo))
    BY <1>1, <1>3, TailPlan DEF IPlan, At
  <2>2. QED
    BY <1>3, <2>1 DEF IPlan, At, After
<1>6. IPlan' /\ At' = "publish"
  BY <1>2, <1>5 DEF IPlan, At
<1>7. From' = From /\ On' = On /\ Counting' = Counting
  BY <1>1, <1>2 DEF From, On, Counting
<1>8. count \in 0..Size /\ Size \in Nat /\ L \in Nat
  BY <1>3, <1>4, Sizes
<1>9. ITypes'
  <2>1. widx' \in Index
    BY <1>2, <1>3, <1>8, FurtherGives
  <2>2. sent' \in 0..Total
    <3>1. sent \in Nat /\ Total \in Nat
      BY <1>3, Sizes DEF ITypes
    <3>2. sent + count \in 0..Total
      BY <1>3, <1>5, <3>1
    <3>3. QED
      BY <1>2, <3>2
  <2>3. DOMAIN ring' = Index
    BY <1>2
  <2>4. QED
    BY <1>1, <1>2, <1>3, <2>1, <2>2, <2>3 DEF ITypes
<1>10. IClosed'
  BY <1>2, <1>3, <1>6 DEF IClosed, Setup
<1>11. IRoom'
  <2>1. Ahead(wptr, From)' = L
    BY <1>2, <1>7 DEF Ahead, L
  <2>2. latch = From \/ (From = 0 /\ (widx + count) % Size < latch)
    <3>1. ASSUME widx + count < latch PROVE (widx + count) % Size = widx + count
      <4>1. widx + count < Size
        BY <1>3, <1>8, <3>1, Sizes
      <4>2. QED
        BY <1>3, <1>8, <4>1, FurtherGives
    <3>2. QED
      BY <1>4, <3>1
  <2>3. QED
    BY <1>1, <1>2, <1>4, <1>6, <1>7, <2>1, <2>2 DEF IRoom
<1>12. ASSUME NEW k \in 0..L - 1
       PROVE  ring'[(From + k) % Size] = ring[(From + k) % Size]
  <2>1. /\ (From + k) % Size \in Index
        /\ Ahead((From + k) % Size, wptr) = Size - L + k
    BY <1>3, Reach DEF L
  <2>2. ~(Size - L + k < count)
    BY <1>3, <1>4, <1>8
  <2>3. QED
    BY <1>2, <1>4, <2>1, <2>2
<1>13. IPairs'
  <2>1. ASSUME NEW k \in 0..count - 1
        PROVE  ring'[(wptr + k) % Size] \in 1..Total
    <3>1. k \in 0..Size - 1 /\ k \in 0..Size /\ k < count
      BY <1>3, <1>8
    <3>2. Ahead((wptr + k) % Size, wptr) = k /\ (wptr + k) % Size \in Index
      BY <1>3, <3>1, AheadFurther, FurtherGives
    <3>3. ring'[(wptr + k) % Size] = sent + k + 1
      BY <1>2, <1>4, <3>1, <3>2
    <3>4. sent \in Nat /\ Total \in Nat
      BY <1>3, Sizes DEF ITypes
    <3>5. sent + k + 1 \in 1..Total
      BY <1>3, <1>5, <3>1, <3>4
    <3>6. QED
      BY <3>3, <3>5
  <2>2. On => \A k \in 0..L - 1 : ring'[(From + k) % Size] \in 1..Total
    BY <1>12 DEF IInv, IPairs, L
  <2>3. Ahead(wptr, From)' = L
    BY <1>2, <1>7 DEF Ahead, L
  <2>4. QED
    BY <1>2, <1>7, <2>1, <2>2, <2>3 DEF IPairs
<1>14. IPass'
  <2>1. CASE ~Counting
    BY <1>7, <2>1 DEF IPass
  <2>2. CASE Counting
    <3>1. /\ active /\ queue = <<>> /\ cur.pos = pos /\ cur.rate \in 0..4
          /\ pass # "wptr" => Ahead(wptr, pos) >= Floor
          /\ pass = "play" => cur.taps = <<ring[pos], ring[(pos + 1) % Size]>>
          /\ pass = "commit" => heard = <<ring[pos], ring[(pos + 1) % Size]>>
      BY <2>2 DEF IInv, IPass
    <3>2. From = pos
      BY <1>3, <3>1, Origin
    <3>3. pass # "wptr" =>
             /\ ring'[pos] = ring[pos]
             /\ ring'[(pos + 1) % Size] = ring[(pos + 1) % Size]
      <4>1. SUFFICES ASSUME pass # "wptr"
                     PROVE  /\ ring'[pos] = ring[pos]
                            /\ ring'[(pos + 1) % Size] = ring[(pos + 1) % Size]
        OBVIOUS
      <4>2. L >= 3
        BY <1>8, <3>1, <3>2, <4>1, Sizes DEF L
      <4>3. 0 \in 0..L - 1 /\ 1 \in 0..L - 1
        BY <1>8, <4>2
      <4>4. (pos + 0) % Size = pos
        BY <1>3, Sizes DEF ITypes
      <4>5. QED
        BY <1>12, <3>2, <4>3, <4>4
    <3>4. Ahead(wptr, pos)' = Ahead(wptr, pos)
      BY <1>1, <1>2 DEF Ahead
    <3>5. QED
      BY <1>1, <1>2, <3>1, <3>3, <3>4 DEF IPass
  <2>3. QED
    BY <2>1, <2>2
<1>15. Backlog' = Backlog
  <2>1. Backlog = IF On THEN [i \in 1..L |-> ring[(From + (i - 1)) % Size]]
                  ELSE <<>>
    BY DEF Backlog, From, Ahead, L
  <2>2. Backlog' = IF On' THEN [i \in 1..L |-> ring'[(From + (i - 1)) % Size]]
                   ELSE <<>>
    BY <1>1, <1>2 DEF Backlog, From, Ahead, L
  <2>3. ASSUME NEW i \in 1..L
        PROVE  ring'[(From + (i - 1)) % Size] = ring[(From + (i - 1)) % Size]
    <3>1. i - 1 \in 0..L - 1
      BY <1>8
    <3>2. QED
      BY <1>12, <3>1
  <2>4. QED
    BY <1>7, <2>1, <2>2, <2>3
<1>16. QED
  BY <1>1, <1>6, <1>9, <1>10, <1>11, <1>13, <1>14, <1>15 DEF IInv

\* The write index is published: the backlog grows by the pairs of the call.
LEMMA PublishKeeps ==
  ASSUME IInv, CallStep, At = "publish"
  PROVE  IInv' /\ [Fifo!Next]_Fifo!fifoVars
<1>1. /\ UNCHANGED <<want, pos, frac, latch, pass, cur, heard>>
      /\ todo # <<>> /\ Access("publish") /\ Plain("publish")
  BY CallGives
<1>2. /\ UNCHANGED <<act, widx, count, ring, sent>>
      /\ UNCHANGED <<queue, active, starting, cancelled, rate>>
      /\ wptr' = widx /\ todo' = Tail(todo)
  BY <1>1 DEF Plain, Access, Hold
<1>3. /\ act /\ ITypes /\ From \in Index /\ count \in Nat
      /\ widx \in Index /\ wptr \in Index
  BY Origin DEF IInv, IClosed, Filling, ITypes
<1> DEFINE L == Ahead(wptr, From)
<1>4. /\ widx = (wptr + count) % Size /\ count <= Size - 1 - L
      /\ latch = From \/ (From = 0 /\ widx < latch)
      /\ L \in 0..Size - 1
  <2>1. L \in 0..Size - 1
    BY <1>3, AheadGives, Zenon
  <2>2. QED
    BY <1>3, <2>1 DEF IInv, IRoom
<1>5. /\ L \in Nat /\ Size \in Nat /\ count \in 0..Size /\ L + count < Size
      /\ L \in 0..Size
  BY <1>3, <1>4, Sizes
<1>6. Ahead(widx, From) = L + count
  BY <1>3, <1>4, <1>5, AheadAdds
<1> HIDE DEF L
<1>7. IPlan' /\ At' = "end"
  BY <1>1, <1>2, PlanKeeps DEF IInv, After
<1>8. From' = From /\ On' = On /\ Counting' = Counting
  BY <1>1, <1>2 DEF From, On, Counting
<1>9. Ahead(wptr, From)' = L + count
  BY <1>2, <1>6, <1>8 DEF Ahead
<1>10. ITypes'
  BY <1>1, <1>2, <1>3 DEF ITypes
<1>11. IClosed' /\ IRoom'
  BY <1>1, <1>2, <1>3, <1>4, <1>7, <1>8 DEF IClosed, IRoom, Setup, Filling
<1>12. On => \A k \in 0..L + count - 1 : ring[(From + k) % Size] \in 1..Total
  <2>1. SUFFICES ASSUME On, NEW k \in 0..L + count - 1
                 PROVE  ring[(From + k) % Size] \in 1..Total
    OBVIOUS
  <2>2. CASE k < L
    <3>1. k \in 0..L - 1
      BY <1>5, <2>2
    <3>2. QED
      BY <2>1, <3>1 DEF IInv, IPairs, L
  <2>3. CASE k >= L
    <3>1. /\ k - L \in 0..count - 1 /\ k - L \in 0..Size /\ L + (k - L) = k
          /\ L + (k - L) <= Size
      BY <1>3, <1>5, <2>3
    <3>2. (((From + L) % Size) + (k - L)) % Size = (From + (L + (k - L))) % Size
      BY <1>3, <1>5, <3>1, FurtherAdds
    <3>3. (From + L) % Size = wptr
      BY <1>3, There DEF L
    <3>4. ring[(wptr + (k - L)) % Size] \in 1..Total
      BY <3>1 DEF IInv, IPairs
    <3>5. QED
      BY <3>1, <3>2, <3>3, <3>4
  <2>4. QED
    BY <1>5, <2>2, <2>3
<1>13. IPairs'
  <2>1. On' => \A k \in 0..Ahead(wptr, From)' - 1 :
                  ring'[(From' + k) % Size] \in 1..Total
    <3> DEFINE P(n) ==
                 \A k \in 0..n - 1 : ring[(From + k) % Size] \in 1..Total
    <3>1. On => P(L + count)
      BY <1>5, <1>12
    <3> HIDE DEF P
    <3>2. On => P(Ahead(wptr, From)')
      BY <1>9, <3>1
    <3>3. On => \A k \in 0..Ahead(wptr, From)' - 1 :
                  ring[(From + k) % Size] \in 1..Total
      BY <3>2 DEF P
    <3>4. ring' = ring /\ From' = From /\ On' = On
      BY <1>2, <1>8
    <3>5. QED
      BY <3>3, <3>4
  <2>2. QED
    BY <1>7, <2>1 DEF IPairs
<1>14. IPass'
  <2>1. Counting => From = pos
    BY <1>3, Origin DEF IInv, IPass
  <2>2. L >= Floor => L + count >= Floor
    BY <1>3, <1>5, Sizes
  <2>3. Counting => Ahead(wptr, pos)' = L + count /\ Ahead(wptr, pos) = L
    BY <1>1, <1>2, <1>6, <2>1 DEF Ahead, L
  <2>4. CASE ~Counting
    BY <1>8, <2>4 DEF IPass
  <2>5. CASE Counting
    BY <1>1, <1>2, <2>2, <2>3, <2>5 DEF IInv, IPass
  <2>6. QED
    BY <2>4, <2>5
<1>15. CASE ~On
  <2>1. Backlog = <<>> /\ Backlog' = <<>>
    BY <1>8, <1>15 DEF Backlog
  <2>2. QED
    BY <1>1, <1>7, <1>10, <1>11, <1>13, <1>14, <2>1 DEF IInv, Fifo!fifoVars
<1>16. CASE On
  <2> DEFINE b == Backlog
             c == Backlog'
  <2>1. /\ b \in Seq(1..Total) /\ Len(b) = L
        /\ \A i \in 1..L : b[i] = ring[(From + (i - 1)) % Size]
    BY <1>16, BacklogGives DEF IInv, L
  <2>2. /\ c \in Seq(1..Total) /\ Len(c) = L + count
        /\ \A i \in 1..L + count : c[i] = ring[(From + (i - 1)) % Size]
    <3>1. (/\ Backlog \in Seq(1..Total)
           /\ On => /\ Len(Backlog) = Ahead(wptr, From)
                    /\ \A i \in 1..Len(Backlog) :
                          Backlog[i] = ring[(From + (i - 1)) % Size])'
      BY <1>10, <1>13, BacklogHolds, PTL
    <3>2. QED
      BY <1>2, <1>8, <1>9, <1>16, <3>1
  <2> HIDE DEF b, c
  <2>3. SubSeq(b, 1, L) = SubSeq(c, 1, L)
    <3> DEFINE p == SubSeq(b, 1, L)
               q == SubSeq(c, 1, L)
               V == 1..Total
    <3>1. b \in Seq(V) /\ c \in Seq(V) /\ L \in Int /\ 1 \in Int
      BY <1>5, <2>1, <2>2
    <3>2. \A i \in 1..L : i \in 1..Len(b) /\ i \in 1..Len(c) /\ b[i] = c[i]
      BY <1>3, <1>5, <2>1, <2>2
    <3> HIDE DEF V
    <3>3. \A i \in 1..L : b[i] \in V /\ c[i] \in V
      BY <3>1, <3>2
    <3>4. /\ p \in Seq(V) /\ Len(p) = IF 1 <= L THEN L - 1 + 1 ELSE 0
          /\ \A i \in 1..L - 1 + 1 : p[i] = b[1 + i - 1]
      BY <3>1, <3>3, SubSeqProperties
    <3>5. /\ q \in Seq(V) /\ Len(q) = IF 1 <= L THEN L - 1 + 1 ELSE 0
          /\ \A i \in 1..L - 1 + 1 : q[i] = c[1 + i - 1]
      BY <3>1, <3>3, SubSeqProperties
    <3> HIDE DEF p, q
    <3>6. Len(p) = L /\ Len(q) = L /\ \A i \in 1..L : p[i] = q[i]
      BY <1>5, <3>2, <3>4, <3>5
    <3>7. p = [i \in 1..L |-> p[i]] /\ q = [i \in 1..L |-> q[i]]
      BY <3>4, <3>5, <3>6
    <3>8. p = q
      BY <3>6, <3>7
    <3>9. QED
      BY <3>8 DEF p, q
  <2>4. Fifo!IsPrefix(b, c)
    BY <1>3, <1>5, <2>1, <2>2, <2>3 DEF Fifo!IsPrefix
  <2>5. Len(c) < Size
    BY <1>5, <2>2
  <2>6. Fifo!Write
    <3>1. /\ Fifo!IsPrefix(Backlog, Backlog') /\ Len(Backlog') < Size
          /\ Backlog' \in Seq(1..Total) /\ heard' = heard
      BY <1>1, <2>2, <2>4, <2>5 DEF b, c
    <3>2. QED
      BY <3>1 DEF Fifo!Write
  <2>7. QED
    BY <1>7, <1>10, <1>11, <1>13, <1>14, <2>6 DEF IInv, Fifo!Next
<1>17. QED
  BY <1>15, <1>16

\* The stream is stopped, by its own close or with all voices.
LEMMA StopKeeps ==
  ASSUME IInv, CallStep, At \in {"stop", "silence"}
  PROVE  IInv' /\ [Fifo!Next]_Fifo!fifoVars
<1>1. /\ UNCHANGED <<want, pos, frac, latch, pass, cur, heard>>
      /\ todo # <<>> /\ Access(At) /\ Plain(At)
  BY CallGives
<1>2. /\ UNCHANGED <<count, ring, sent, queue, rate, wptr>>
      /\ active' = FALSE /\ starting' = FALSE /\ cancelled' = (pass # "idle")
      /\ todo' = Tail(todo)
      /\ \/ At = "stop" /\ act' = FALSE /\ widx' = 0
         \/ At = "silence" /\ UNCHANGED <<act, widx>>
  BY <1>1 DEF Plain, Access, Deactivate
<1>3. IPlan' /\ At' = "end"
  BY <1>1, <1>2, PlanKeeps DEF IInv, After
<1>4. ITypes'
  BY <1>1, <1>2, Sizes DEF IInv, ITypes
<1>5. ~On' /\ ~Counting' /\ From' = From
  BY <1>1, <1>2 DEF On, Counting, From
<1>6. IClosed'
  BY <1>2, <1>3, <1>5 DEF IInv, IClosed, Setup, Filling
<1>7. IRoom'
  BY <1>1, <1>2, <1>3, <1>5 DEF IInv, IRoom
<1>8. IPairs' /\ IPass'
  BY <1>3, <1>5 DEF IPairs, IPass
<1>9. Fifo!Drop
  BY <1>1, <1>5 DEF Fifo!Drop, Backlog
<1>10. QED
  BY <1>3, <1>4, <1>6, <1>7, <1>8, <1>9 DEF IInv, Fifo!Next

-----------------------------------------------------------------------------
\* Every step is the FIFO's, or none of it.
LEMMA StreamStep ==
  ASSUME IInv, [Next]_vars
  PROVE  IInv' /\ [Fifo!Next]_Fifo!fifoVars
<1>1. CASE AppCall
  BY <1>1, AppCallKeeps DEF Fifo!fifoVars
<1>2. CASE CallStep
  <2>1. CASE At \in {"rate", "pos", "wptr", "vol"}
    BY <1>2, <2>1, SetupKeeps DEF Fifo!fifoVars
  <2>2. CASE At = "ctrl"
    BY <1>2, <2>2, CtrlKeeps DEF Fifo!fifoVars
  <2>3. CASE At = "room"
    BY <1>2, <2>3, RoomKeeps DEF Fifo!fifoVars
  <2>4. CASE At = "store"
    BY <1>2, <2>4, StoreKeeps DEF Fifo!fifoVars
  <2>5. CASE At = "publish"
    BY <1>2, <2>5, PublishKeeps
  <2>6. CASE At \in {"stop", "silence"}
    BY <1>2, <2>6, StopKeeps
  <2>7. At \in Accesses
    BY <1>2, CallGives
  <2>8. QED
    BY <2>1, <2>2, <2>3, <2>4, <2>5, <2>6, <2>7 DEF Accesses
<1>3. CASE Arm
  BY <1>3, ArmKeeps DEF Fifo!fifoVars
<1>4. CASE Drain
  BY <1>4, DrainKeeps DEF Fifo!fifoVars
<1>5. CASE Look \/ ReadWptr \/ Fetch
  BY <1>5, LookKeeps DEF Fifo!fifoVars
<1>6. CASE Mix
  BY <1>6, MixKeeps
<1>7. CASE Commit
  BY <1>7, CommitKeeps
<1>8. CASE UNCHANGED vars
  <2>1. /\ UNCHANGED <<act, widx, todo, count, want, ring, rate, wptr, queue>>
        /\ UNCHANGED <<active, starting, cancelled, pos, frac, latch, pass,
                       cur>>
        /\ UNCHANGED <<heard, sent>>
    BY <1>8 DEF vars, cpuVars, regVars, scanVars
  <2>2. From' = From /\ On' = On
    BY <2>1 DEF From, On
  <2>3. IPlan' /\ IClosed' /\ IRoom' /\ IPairs' /\ Backlog' = Backlog
    BY <2>1, <2>2, FirmwareApart
  <2>4. ITypes' /\ IPass'
    BY <2>1 DEF IInv, ITypes, IPass, Counting, Ahead
  <2>5. QED
    BY <2>1, <2>3, <2>4 DEF IInv, Fifo!fifoVars
<1>9. QED
  BY <1>1, <1>2, <1>3, <1>4, <1>5, <1>6, <1>7, <1>8 DEF Next, AppCall

\* The invariant, of every execution.
THEOREM RingInvariance == Spec => []IInv
<1>1. IInv /\ [Next]_vars => IInv'
  BY StreamStep
<1>2. QED
  BY StreamInit, <1>1, PTL DEF Spec

\* ImplementsFifo: the ring, its indices and the voice are a FIFO of pairs,
\* wherever the mixer is when the firmware touches a register, and also when a
\* stream is opened anew while the mixer still reports where the last one was.
THEOREM ImplementsFifoHolds == Spec => ImplementsFifo
<1>1. Init => Fifo!Init
  BY DEF Init, Fifo!Init, Backlog, On
<1>2. IInv /\ [Next]_vars => [Fifo!Next]_Fifo!fifoVars
  BY StreamStep
<1>3. QED
  BY <1>1, <1>2, RingInvariance, PTL DEF Spec, ImplementsFifo, Fifo!Spec
=============================================================================

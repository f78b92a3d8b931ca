-------------------------- MODULE SaveFilesProofs --------------------------
(***************************************************************************)
(* Proofs that closed files are published whole and that descriptors,      *)
(* size cache and datatable implement one file for each slot, for any      *)
(* number of descriptors and slots of any size, as long as no slot is open *)
(* twice.                                                                  *)
(***************************************************************************)
EXTENDS SaveFiles, SequenceTheorems, TLAPS

\* The part of the types that the sizes depend on.
SizesOK ==
    /\ fdTable \in [FDs -> Entry]
    /\ cache \in [Slots -> 0..Cap \cup {Unknown}]
    /\ dt \in [Slots -> 0..Cap] /\ length \in [Slots -> 0..Cap]

\* No slot is open twice.
OneUser ==
    \A d, e \in FDs :
        fdTable[d].slot # None /\ fdTable[d].slot = fdTable[e].slot => d = e

\* A descriptor that can write, or has truncated, knows its file's length.
OwnSize ==
    \A d \in FDs :
        fdTable[d].slot # None /\ (fdTable[d].dirty \/ fdTable[d].acc # "r")
            => fdTable[d].size = length[fdTable[d].slot]

\* What an open finds recorded is the length.
RecordedIsLength == \A s \in Slots : CurrentSize(s) = length[s]

\* Only a dirty descriptor holds back a length from the host.
CleanIsPublished ==
    \A s \in Listed :
        dt[s] = length[s] \/ \E d \in FDs : fdTable[d].slot = s
                                            /\ fdTable[d].dirty

\* The host has no size for a slot without an entry.
UnlistedEmpty == \A s \in Slots \ Listed : dt[s] = 0

IInv ==
    /\ SizesOK /\ OneUser /\ OwnSize /\ RecordedIsLength /\ CleanIsPublished
    /\ UnlistedEmpty

-----------------------------------------------------------------------------
\* Nothing is open at the start, and every length is the host's.
LEMMA SaveInit == Init => IInv
<1> SUFFICES ASSUME Init
             PROVE  IInv
  OBVIOUS
<1> USE SlotsAssumption, BytesAssumption, SizesAssumption DEF Init
<1>1. Free \in Entry
  <2>1. 0 \in 0..MaxOff + Cap /\ 0 \in 0..Cap
    OBVIOUS
  <2>2. QED
    BY <2>1, Zenon DEF Free, Entry
<1>2. SizesOK
  <2>1. fdTable \in [FDs -> Entry]
    BY <1>1
  <2>2. cache \in [Slots -> 0..Cap \cup {Unknown}]
    OBVIOUS
  <2>3. dt \in [Slots -> 0..Cap] /\ length = dt
    OBVIOUS
  <2>4. QED
    BY <2>1, <2>2, <2>3 DEF SizesOK
<1>3. OneUser /\ OwnSize
  BY DEF OneUser, OwnSize, Free
<1>4. RecordedIsLength /\ CleanIsPublished /\ UnlistedEmpty
  BY DEF RecordedIsLength, CurrentSize, Unknown, CleanIsPublished,
         UnlistedEmpty
<1>5. QED
  BY <1>2, <1>3, <1>4 DEF IInv

\* Every call keeps the sizes in their ranges.
LEMMA SizesStep == SizesOK /\ [Next]_saveVars => SizesOK'
<1> SUFFICES ASSUME SizesOK, [Next]_saveVars
             PROVE  SizesOK'
  OBVIOUS
<1> USE SlotsAssumption, BytesAssumption, SizesAssumption
    DEF SizesOK, Unknown
<1>1. ASSUME NEW d \in FDs, NEW s \in Slots,
             OpenRefused(d, s) \/ Stat(d, s)
      PROVE  SizesOK'
  BY <1>1 DEF OpenRefused, Stat, Remembered, CurrentSize
<1>2. ASSUME NEW d \in FDs, NEW s \in Slots, NEW acc \in Access,
             NEW app \in BOOLEAN, NEW trunc \in BOOLEAN,
             Open(d, s, acc, app, trunc)
      PROVE  SizesOK'
  BY <1>2 DEF Open, CurrentSize, SetSize, Entry
<1>3. ASSUME NEW d \in FDs, NEW n \in 1..Cap, NEW b \in Bytes, Write(d, n, b)
      PROVE  SizesOK'
  <2> DEFINE f  == fdTable[d]
             at == WriteAt(f)
             m  == ToWrite(n, at)
  <2>1. f \in Entry /\ f.slot \in Slots
    BY <1>3 DEF Write, Entry
  <2>2. at \in Nat /\ at < Cap /\ m \in Nat /\ at + m <= Cap
    BY <1>3, <2>1 DEF Write, WriteAt, ToWrite, Lesser, Entry
  <2>3. Greater(f.size, at + m) \in 0..Cap /\ at + m \in 0..MaxOff + Cap
    BY <2>1, <2>2 DEF Greater, Entry
  <2>4. Greater(length[f.slot], at + m) \in 0..Cap
    BY <2>1, <2>2 DEF Greater
  <2>5. fdTable' = [fdTable EXCEPT ![d] = [f EXCEPT !.off = at + m,
                        !.dirty = TRUE, !.size = Greater(f.size, at + m)]]
    BY <1>3, Zenon DEF Write
  <2>6. [f EXCEPT !.off = at + m, !.dirty = TRUE,
                  !.size = Greater(f.size, at + m)] \in Entry
    BY <2>1, <2>3 DEF Entry
  <2>7. fdTable' \in [FDs -> Entry]
    BY <2>5, <2>6
  <2>8. QED
    BY <1>3, <2>1, <2>3, <2>4, <2>7 DEF Write
<1>4. ASSUME NEW d \in FDs, NEW n \in 1..Cap, Read(d, n)
      PROVE  SizesOK'
  <2> DEFINE f == fdTable[d]
             m == IF f.off >= f.size THEN 0 ELSE Lesser(n, f.size - f.off)
  <2>1. f \in Entry
    OBVIOUS
  <2>2. f.off + m \in 0..MaxOff + Cap
    BY <2>1 DEF Lesser, Entry
  <2>3. fdTable' = [fdTable EXCEPT ![d] = [f EXCEPT !.off = f.off + m]]
    BY <1>4, Zenon DEF Read
  <2>4. [f EXCEPT !.off = f.off + m] \in Entry
    BY <2>1, <2>2 DEF Entry
  <2>5. QED
    BY <1>4, <2>3, <2>4 DEF Read
<1>5. ASSUME NEW d \in FDs, NEW off \in 0..MaxOff, Seek(d, off)
      PROVE  SizesOK'
  BY <1>5 DEF Seek, Entry
<1>6. ASSUME NEW d \in FDs, WriteFull(d)
      PROVE  SizesOK'
  BY <1>6 DEF WriteFull, WriteAt, Entry
<1>7. ASSUME NEW d \in FDs, Close(d)
      PROVE  SizesOK'
  BY <1>7 DEF Close, Published, SetSize, Free, Entry
<1>8. CASE Leave
  BY <1>8 DEF Leave, Free, Entry
<1>9. CASE UNCHANGED saveVars
  BY <1>9 DEF saveVars
<1>10. QED
  BY <1>1, <1>2, <1>3, <1>4, <1>5, <1>6, <1>7, <1>8, <1>9 DEF Next

\* What the sizes mean: the rest of the invariant.
LengthsAgree ==
    OneUser /\ OwnSize /\ RecordedIsLength /\ CleanIsPublished /\ UnlistedEmpty

\* Every call keeps the descriptors, the cache and the host in agreement.
LEMMA LengthsStep ==
    ASSUME ~Shared
    PROVE  IInv /\ [Next]_saveVars => LengthsAgree'
<1> SUFFICES ASSUME IInv, [Next]_saveVars
             PROVE  LengthsAgree'
  OBVIOUS
<1>a. SizesOK /\ LengthsAgree
  BY DEF IInv, LengthsAgree
<1> USE <1>a, SlotsAssumption, BytesAssumption, SizesAssumption
    DEF SizesOK, Entry, Access, Unknown, CurrentSize, LengthsAgree, OneUser,
        OwnSize, RecordedIsLength, CleanIsPublished, UnlistedEmpty
<1>1. ASSUME NEW d \in FDs, NEW s \in Slots,
             OpenRefused(d, s) \/ Stat(d, s)
      PROVE  LengthsAgree'
  BY <1>1, SMTT(30) DEF OpenRefused, Stat, Remembered
<1>2. ASSUME NEW d \in FDs, NEW s \in Slots, NEW acc \in Access,
             NEW app \in BOOLEAN, NEW trunc \in BOOLEAN,
             Open(d, s, acc, app, trunc)
      PROVE  LengthsAgree'
  BY <1>2, SMTT(30) DEF Open, Users, IsOpenSize, SetSize, Free
<1>3. ASSUME NEW d \in FDs, NEW n \in 1..Cap, NEW b \in Bytes, Write(d, n, b)
      PROVE  LengthsAgree'
  <2> DEFINE own == fdTable[d].slot
             end == WriteAt(fdTable[d]) + ToWrite(n, WriteAt(fdTable[d]))
             z == Greater(fdTable[d].size, end)
  <2>a. /\ fdTable'[d].slot = own /\ fdTable'[d].size = z
        /\ \A i \in FDs \ {d} : fdTable'[i] = fdTable[i]
        /\ own \in Slots /\ fdTable[d].size = length[own]
        /\ cache' = [cache EXCEPT ![own] = z] /\ dt' = dt
        /\ length' = [length EXCEPT ![own] = Greater(@, end)]
    BY <1>3 DEF Write
  <2>b. z \in 0..Cap
    BY <1>3 DEF Write, WriteAt, ToWrite, Lesser, Greater
  <2> HIDE DEF own, end, z
  <2>c. /\ length'[own] = z /\ cache'[own] = z
        /\ \A t \in Slots \ {own} :
              length'[t] = length[t] /\ cache'[t] = cache[t]
    BY <2>a DEF z
  <2>1. OneUser'
    BY <2>a DEF own
  <2>2. OwnSize'
    BY <2>a, <2>c DEF own
  <2>3. RecordedIsLength'
    BY <2>a, <2>b, <2>c
  <2>4. CleanIsPublished'
    <3> SUFFICES ASSUME NEW s \in Listed,
                        ~\E e \in FDs : fdTable'[e].slot = s
                                        /\ fdTable'[e].dirty
                 PROVE  dt'[s] = length'[s]
      OBVIOUS
    <3>1. fdTable'[d].slot = fdTable[d].slot /\ fdTable'[d].dirty
      BY <1>3, SMTT(20) DEF Write
    <3>2. \A e \in FDs \ {d} : fdTable'[e] = fdTable[e]
      BY <1>3 DEF Write
    <3>3. s # fdTable[d].slot
      BY <3>1
    <3>4. dt'[s] = dt[s] /\ length'[s] = length[s]
      BY <1>3, <3>3 DEF Write
    <3>5. QED
      BY <3>2, <3>3, <3>4
  <2>5. UnlistedEmpty'
    BY <1>3, SMTT(20) DEF Write, WriteAt, ToWrite, Lesser, Greater
  <2>6. QED
    BY <2>1, <2>2, <2>3, <2>4, <2>5
<1>4. ASSUME NEW d \in FDs, NEW n \in 1..Cap, Read(d, n)
      PROVE  LengthsAgree'
  BY <1>4, SMTT(30) DEF Read
<1>5. ASSUME NEW d \in FDs, NEW off \in 0..MaxOff, Seek(d, off)
      PROVE  LengthsAgree'
  BY <1>5, SMTT(30) DEF Seek
<1>6. ASSUME NEW d \in FDs, WriteFull(d)
      PROVE  LengthsAgree'
  BY <1>6, SMTT(30) DEF WriteFull
<1>7. ASSUME NEW d \in FDs, Close(d)
      PROVE  LengthsAgree'
  <2>1. OneUser'
    BY <1>7, SMTT(20) DEF Close, Published, SetSize, Free
  <2>2. OwnSize'
    BY <1>7, SMTT(20) DEF Close, Published, SetSize, Free
  <2>3. RecordedIsLength'
    BY <1>7, SMTT(20) DEF Close, Published, SetSize, Free
  <2>4. CleanIsPublished'
    BY <1>7, SMTT(20) DEF Close, Published, SetSize, Free
  <2>5. UnlistedEmpty'
    BY <1>7, SMTT(20) DEF Close, Published, SetSize, Free
  <2>6. QED
    BY <2>1, <2>2, <2>3, <2>4, <2>5
<1>8. CASE Leave
  BY <1>8, SMTT(20) DEF Leave, Free
<1>9. CASE UNCHANGED saveVars
  BY <1>9, SMTT(20) DEF saveVars
<1>10. QED
  BY <1>1, <1>2, <1>3, <1>4, <1>5, <1>6, <1>7, <1>8, <1>9 DEF Next

\* While no slot is open twice, the host knows the whole length of every listed
\* file that is closed: what is written back when the core is left is what the
\* descriptors wrote, through truncations, appends, seeks and earlier exits.
THEOREM ClosedFilesPublished ==
    ASSUME ~Shared
    PROVE  Spec => []PublishedIsWhole
<1>1. IInv /\ [Next]_saveVars => IInv'
  BY SizesStep, LengthsStep DEF IInv, LengthsAgree
<1>2. IInv => PublishedIsWhole
  BY SlotsAssumption DEF IInv, CleanIsPublished, PublishedIsWhole, Users
<1>3. QED
  BY SaveInit, <1>1, <1>2, PTL DEF Spec

-----------------------------------------------------------------------------
\* A descriptor without a size is of a slot for which the host has none either.
NoStaleZero ==
    \A d \in FDs : fdTable[d].slot # None /\ fdTable[d].size = 0
                    => dt[fdTable[d].slot] = 0

\* Only a truncation leaves a descriptor without a size, and it tells the host.
LEMMA ZeroStep ==
    ASSUME ~Shared
    PROVE  IInv /\ NoStaleZero /\ [Next]_saveVars => NoStaleZero'
<1> SUFFICES ASSUME IInv, NoStaleZero, [Next]_saveVars
             PROVE  NoStaleZero'
  OBVIOUS
<1> USE SlotsAssumption, BytesAssumption, SizesAssumption
    DEF IInv, SizesOK, Entry, NoStaleZero
<1>1. ASSUME NEW d \in FDs, NEW s \in Slots,
             OpenRefused(d, s) \/ Stat(d, s)
      PROVE  NoStaleZero'
  BY <1>1 DEF OpenRefused, Stat, Remembered
<1>2. ASSUME NEW d \in FDs, NEW s \in Slots, NEW acc \in Access,
             NEW app \in BOOLEAN, NEW trunc \in BOOLEAN,
             Open(d, s, acc, app, trunc)
      PROVE  NoStaleZero'
  <2>1. \A e \in FDs : fdTable[e].slot # s
    BY <1>2 DEF Open, Users
  <2>2. dt[s] = 0 \/ dt[s] = CurrentSize(s)
    BY <2>1 DEF CleanIsPublished, UnlistedEmpty, RecordedIsLength,
                CurrentSize
  <2>3. fdTable'[d].slot = s
    BY <1>2 DEF Open
  <2>4. \A e \in FDs \ {d} : fdTable'[e] = fdTable[e]
    BY <1>2 DEF Open
  <2>5. fdTable'[d].size = 0 => dt'[s] = 0
    BY <1>2, <2>2 DEF Open, IsOpenSize, SetSize
  <2>6. \A t \in Slots \ {s} : dt'[t] = dt[t]
    BY <1>2 DEF Open, SetSize
  <2>7. QED
    BY <2>1, <2>3, <2>4, <2>5, <2>6
<1>3. ASSUME NEW d \in FDs, NEW n \in 1..Cap, NEW b \in Bytes, Write(d, n, b)
      PROVE  NoStaleZero'
  BY <1>3, SMTT(20) DEF Write, WriteAt, ToWrite, Lesser, Greater
<1>4. ASSUME NEW d \in FDs, NEW n \in 1..Cap, Read(d, n)
      PROVE  NoStaleZero'
  BY <1>4 DEF Read
<1>5. ASSUME NEW d \in FDs, NEW off \in 0..MaxOff, Seek(d, off)
      PROVE  NoStaleZero'
  BY <1>5 DEF Seek
<1>6. ASSUME NEW d \in FDs, WriteFull(d)
      PROVE  NoStaleZero'
  BY <1>6 DEF WriteFull
<1>7. ASSUME NEW d \in FDs, Close(d)
      PROVE  NoStaleZero'
  BY <1>7, SMTT(20) DEF Close, SetSize, Free, OneUser
<1>8. CASE Leave
  BY <1>8 DEF Leave, Free
<1>9. CASE UNCHANGED saveVars
  BY <1>9 DEF saveVars
<1>10. QED
  BY <1>1, <1>2, <1>3, <1>4, <1>5, <1>6, <1>7, <1>8, <1>9 DEF Next

\* fstat and statx ask the host again when a descriptor has no size ("size == 0
\* && slot_id > 0", SYS_fstat): while no slot is open twice they never learn
\* another one, so these calls change no descriptor.
THEOREM FstatChangesNothing ==
    ASSUME ~Shared
    PROVE  Spec => []NoStaleZero
<1>1. Init => NoStaleZero
  BY DEF Init, Free, NoStaleZero
<1>2. IInv /\ NoStaleZero /\ [Next]_saveVars => (IInv /\ NoStaleZero)'
  BY SizesStep, LengthsStep, ZeroStep DEF IInv, LengthsAgree
<1>3. QED
  BY SaveInit, <1>1, <1>2, PTL DEF Spec

-----------------------------------------------------------------------------
(***************************************************************************)
(* The windows.                                                            *)
(***************************************************************************)

Window == [1..Cap -> Bytes]
WindowsOK == cram \in [Slots -> Window] /\ got \in Seq(Bytes)

\* Every byte a read delivers is one of a window.
LEMMA ReadIsBytes ==
    ASSUME SizesOK, WindowsOK, NEW d \in FDs, NEW count \in 1..Cap, Read(d,
           count)
    PROVE  LET f == fdTable[d]
               n == IF f.off >= f.size THEN 0 ELSE Lesser(count, f.size - f.off)
           IN  /\ f.slot \in Slots /\ n \in 0..Cap
               /\ n > 0 => f.off + n <= f.size
               /\ got' \in Seq(Bytes) /\ Len(got') = n
<1> DEFINE f == fdTable[d]
           n == IF f.off >= f.size THEN 0 ELSE Lesser(count, f.size - f.off)
<1> USE SizesAssumption
<1>1. f \in Entry
  BY DEF SizesOK
<1>2. f.off \in Nat /\ f.size \in 0..Cap /\ f.slot \in Slots
  BY <1>1 DEF Entry, Read
<1>3. n \in 0..Cap /\ (n > 0 => f.off + n <= f.size)
  BY <1>2 DEF Lesser
<1>4. got' = SubSeq(cram[f.slot], f.off + 1, f.off + n)
  BY DEF Read
<1> HIDE DEF f, n
<1>5. \A i \in (f.off + 1)..(f.off + n) : cram[f.slot][i] \in Bytes
  <2> TAKE i \in (f.off + 1)..(f.off + n)
  <2>1. n > 0 /\ i \in 1..Cap
    BY <1>2, <1>3
  <2>2. cram[f.slot] \in Window
    BY <1>2 DEF WindowsOK
  <2> QED
    BY <2>1, <2>2 DEF Window
<1>6. /\ SubSeq(cram[f.slot], f.off + 1, f.off + n) \in Seq(Bytes)
      /\ Len(SubSeq(cram[f.slot], f.off + 1, f.off + n)) = n
  <2>1. f.off + 1 \in Int /\ f.off + n \in Int
    BY <1>2, <1>3
  <2>2. n = IF f.off + 1 <= f.off + n THEN (f.off + n) - (f.off + 1) + 1
                                      ELSE 0
    BY <1>2, <1>3
  <2>3. /\ SubSeq(cram[f.slot], f.off + 1, f.off + n) \in Seq(Bytes)
        /\ Len(SubSeq(cram[f.slot], f.off + 1, f.off + n)) =
             IF f.off + 1 <= f.off + n THEN (f.off + n) - (f.off + 1) + 1 ELSE 0
    <3> DEFINE w == cram[f.slot]
               j == f.off + 1
               k == f.off + n
    <3>1. j \in Int /\ k \in Int /\ \A i \in j..k : w[i] \in Bytes
      BY <1>5, <2>1
    <3> HIDE DEF w, j, k
    <3>2. /\ SubSeq(w, j, k) \in Seq(Bytes)
          /\ Len(SubSeq(w, j, k)) = IF j <= k THEN k - j + 1 ELSE 0
      BY <3>1, SubSeqProperties
    <3> QED
      BY <3>2 DEF w, j, k
  <2> QED
    BY <2>2, <2>3
<1>7. got' \in Seq(Bytes) /\ Len(got') = n
  BY <1>4, <1>6
<1> QED
  BY <1>2, <1>3, <1>7 DEF f, n

LEMMA WindowsStep == SizesOK /\ WindowsOK /\ [Next]_saveVars => WindowsOK'
<1> SUFFICES ASSUME SizesOK, WindowsOK, [Next]_saveVars
             PROVE  WindowsOK'
  OBVIOUS
<1>1. ASSUME UNCHANGED <<cram, got>> PROVE WindowsOK'
  BY <1>1 DEF WindowsOK
<1>2. ASSUME NEW d \in FDs, NEW n \in 1..Cap, NEW b \in Bytes, Write(d, n, b)
      PROVE  WindowsOK'
  <2> DEFINE s == fdTable[d].slot
             at == WriteAt(fdTable[d])
             w == [i \in 1..Cap |-> IF i \in at+1..at+ToWrite(n, at) THEN b
                                    ELSE cram[s][i]]
  <2>1. s \in Slots
    BY <1>2 DEF Write, SizesOK, Entry
  <2>2. cram' = [cram EXCEPT ![s] = w] /\ got' = got
    BY <1>2 DEF Write
  <2>3. w \in Window
    BY <2>1 DEF Window, WindowsOK
  <2> HIDE DEF w, s
  <2> QED
    BY <2>1, <2>2, <2>3 DEF WindowsOK
<1>3. ASSUME NEW d \in FDs, NEW n \in 1..Cap, Read(d, n)
      PROVE  WindowsOK'
  <2>1. cram' = cram
    BY <1>3 DEF Read
  <2>2. got' \in Seq(Bytes)
    BY <1>3, ReadIsBytes
  <2> QED
    BY <2>1, <2>2 DEF WindowsOK
<1>4. CASE Leave
  <2>1. PICK b \in Bytes :
            cram' = [s \in Slots |-> [i \in 1..Cap |->
                                       IF i <= dt[s] THEN cram[s][i] ELSE b]]
    BY <1>4 DEF Leave
  <2>2. got' = <<>>
    BY <1>4 DEF Leave
  <2>3. \A s \in Slots :
            [i \in 1..Cap |-> IF i <= dt[s] THEN cram[s][i] ELSE b] \in Window
    BY DEF Window, WindowsOK
  <2>4. cram' \in [Slots -> Window]
    BY <2>1, <2>3
  <2> QED
    BY <2>2, <2>4 DEF WindowsOK
<1>5. CASE UNCHANGED saveVars
  BY <1>1, <1>5 DEF saveVars
<1>6. ASSUME NEW d \in FDs, NEW s \in Slots,
             \/ OpenRefused(d, s) \/ Stat(d, s)
             \/ \E acc \in Access, app, trunc \in BOOLEAN :
                  Open(d, s, acc, app, trunc)
      PROVE  WindowsOK'
  BY <1>1, <1>6 DEF OpenRefused, Stat, Remembered, Open
<1>7. ASSUME NEW d \in FDs,
             \/ \E off \in 0..MaxOff : Seek(d, off)
             \/ WriteFull(d) \/ Close(d)
      PROVE  WindowsOK'
  BY <1>1, <1>7 DEF Seek, WriteFull, Close
<1> QED
  BY <1>2, <1>3, <1>4, <1>5, <1>6, <1>7 DEF Next

\* The descriptor table, the sizes in cache and datatable and the windows keep
\* their types, slots open twice or not: no call makes a size or an offset
\* exceed what sys_write and sys_read can index (syscall.c).
THEOREM TypesHold == Spec => []TypeOK
<1>1. Init => SizesOK /\ WindowsOK
  <2> SUFFICES ASSUME Init PROVE WindowsOK
    BY SaveInit DEF IInv
  <2>1. got = <<>> /\ cram \in [Slots -> Window]
    BY DEF Init, Window
  <2> QED
    BY <2>1 DEF WindowsOK
<1>2. SizesOK /\ WindowsOK /\ [Next]_saveVars => (SizesOK /\ WindowsOK)'
  BY SizesStep, WindowsStep
<1>3. SizesOK /\ WindowsOK => TypeOK
  BY DEF SizesOK, WindowsOK, Window, TypeOK
<1> QED
  BY <1>1, <1>2, <1>3, PTL DEF Spec

-----------------------------------------------------------------------------
(***************************************************************************)
(* The files: the abstract specification's view of the windows.            *)
(***************************************************************************)

\* A file is the beginning of its window.
LEMMA FileIs ==
    ASSUME NEW w \in Window, NEW n \in 0..Cap
    PROVE  /\ SubSeq(w, 1, n) \in Seq(Bytes) /\ Len(SubSeq(w, 1, n)) = n
           /\ \A i \in 1..n : SubSeq(w, 1, n)[i] = w[i]
<1>1. \A i \in 1..n : w[i] \in Bytes
  BY SizesAssumption DEF Window
<1>2. /\ SubSeq(w, 1, n) \in Seq(Bytes)
      /\ Len(SubSeq(w, 1, n)) = IF 1 <= n THEN n - 1 + 1 ELSE 0
      /\ \A i \in 1..n - 1 + 1 : SubSeq(w, 1, n)[i] = w[1 + i - 1]
  <2>1. 1 \in Int /\ n \in Int
    OBVIOUS
  <2> QED
    BY <1>1, <2>1, SubSeqProperties
<1> QED
  BY <1>2

\* A part of a file is that part of its window.
LEMMA PartOfFile ==
    ASSUME NEW w \in Window, NEW n \in 0..Cap, NEW a \in Nat, NEW m \in 0..n
    PROVE  SubSeq(SubSeq(w, 1, n), a + 1, m) = SubSeq(w, a + 1, m)
<1> DEFINE v == SubSeq(w, 1, n)
<1>1. v \in Seq(Bytes) /\ Len(v) = n /\ \A i \in 1..n : v[i] = w[i]
  BY FileIs
<1> HIDE DEF v
<1>2. \A i \in (a + 1)..m : v[i] \in Bytes /\ v[i] = w[i]
  BY <1>1
<1>3. /\ SubSeq(v, a + 1, m) \in Seq(Bytes)
      /\ SubSeq(w, a + 1, m) \in Seq(Bytes)
      /\ Len(SubSeq(v, a + 1, m)) = Len(SubSeq(w, a + 1, m))
      /\ \A i \in 1..m - (a + 1) + 1 :
            /\ SubSeq(v, a + 1, m)[i] = v[a + 1 + i - 1]
            /\ SubSeq(w, a + 1, m)[i] = w[a + 1 + i - 1]
  <2>1. a + 1 \in Int /\ m \in Int /\ \A i \in (a + 1)..m : w[i] \in Bytes
    BY <1>2
  <2> QED
    BY <1>2, <2>1, SubSeqProperties
<1>4. Len(SubSeq(w, a + 1, m)) = IF a + 1 <= m THEN m - (a + 1) + 1 ELSE 0
  BY <1>2, SubSeqProperties
<1>5. \A i \in 1..Len(SubSeq(v, a + 1, m)) :
        SubSeq(v, a + 1, m)[i] = SubSeq(w, a + 1, m)[i]
  <2> TAKE i \in 1..Len(SubSeq(v, a + 1, m))
  <2>1. i \in 1..m - (a + 1) + 1 /\ a + 1 + i - 1 \in (a + 1)..m
    BY <1>3, <1>4
  <2> QED
    BY <1>2, <1>3, <2>1
<1>6. SubSeq(v, a + 1, m) = SubSeq(w, a + 1, m)
  <2> DEFINE x == SubSeq(v, a + 1, m)
             y == SubSeq(w, a + 1, m)
  <2>1. x \in Seq(Bytes) /\ y \in Seq(Bytes) /\ Len(x) = Len(y)
        /\ \A i \in 1..Len(x) : x[i] = y[i]
    BY <1>3, <1>5
  <2> HIDE DEF x, y
  <2>2. x = y
    BY <2>1, SeqEqual
  <2> QED
    BY <2>2 DEF x, y
<1> QED
  BY <1>6 DEF v

\* Windows that begin alike hold the same file.
LEMMA SameFile ==
    ASSUME NEW w \in Window, NEW v \in Window, NEW n \in 0..Cap,
           \A i \in 1..n : w[i] = v[i]
    PROVE  SubSeq(w, 1, n) = SubSeq(v, 1, n)
<1> DEFINE x == SubSeq(w, 1, n)
           y == SubSeq(v, 1, n)
<1>1. /\ x \in Seq(Bytes) /\ Len(x) = n /\ \A i \in 1..n : x[i] = w[i]
      /\ y \in Seq(Bytes) /\ Len(y) = n /\ \A i \in 1..n : y[i] = v[i]
  BY FileIs
<1> HIDE DEF x, y
<1>2. x = y
  BY <1>1, SeqEqual
<1> QED
  BY <1>2 DEF x, y

\* An empty file holds nothing.
LEMMA EmptyFile == \A w : SubSeq(w, 1, 0) = <<>>
BY SubSeqEmpty

-----------------------------------------------------------------------------
(***************************************************************************)
(* What the refinement needs beyond the lengths.                           *)
(***************************************************************************)

\* The size of a descriptor is the file's, but for a probe of a slot whose
\* length nobody has recorded.
KnownSize ==
    \A d \in FDs : fdTable[d].slot # None =>
        \/ fdTable[d].size = length[fdTable[d].slot]
        \/ fdTable[d].acc = "r" /\ length[fdTable[d].slot] = 0

\* The host never believes a file longer than it is.
NotLonger(m, n) == m <= n
HostIsBehind == \A s \in Slots : NotLonger(dt[s], length[s])

StoreInv == IInv /\ WindowsOK /\ KnownSize /\ HostIsBehind

LEMMA BehindStep ==
    ASSUME ~Shared
    PROVE  IInv /\ KnownSize /\ HostIsBehind /\ [Next]_saveVars
             => KnownSize' /\ HostIsBehind'
<1> SUFFICES ASSUME IInv, KnownSize, HostIsBehind, [Next]_saveVars
             PROVE  KnownSize' /\ HostIsBehind'
  OBVIOUS
<1>1. \A m \in 0..Cap : NotLonger(m, m) /\ NotLonger(0, m)
  BY SizesAssumption DEF NotLonger
<1>2. \A k, m, n \in 0..Cap :
        NotLonger(k, m) => NotLonger(k, Greater(m, n))
  BY SizesAssumption DEF NotLonger, Greater
<1>3. SizesOK /\ OneUser /\ OwnSize /\ RecordedIsLength /\ SizesOK'
  BY SizesStep DEF IInv
<1>4. ASSUME UNCHANGED <<fdTable, dt, length>>
      PROVE  KnownSize' /\ HostIsBehind'
  BY <1>4 DEF KnownSize, HostIsBehind
<1>5. ASSUME NEW d \in FDs, NEW s \in Slots, OpenRefused(d, s) \/ Stat(d, s)
      PROVE  KnownSize' /\ HostIsBehind'
  BY <1>4, <1>5 DEF OpenRefused, Stat, Remembered
<1>6. ASSUME NEW d \in FDs, NEW s \in Slots, NEW acc \in Access,
             NEW app \in BOOLEAN, NEW trunc \in BOOLEAN,
             Open(d, s, acc, app, trunc)
      PROVE  KnownSize' /\ HostIsBehind'
  <2>1. \A e \in FDs : fdTable[e].slot # s
    BY <1>6 DEF Open, Users
  <2>2. PICK n \in 0..Cap :
            /\ IsOpenSize(s, acc, trunc, n)
            /\ fdTable' = [fdTable EXCEPT ![d] =
                    [slot |-> s, acc |-> acc, app |-> app, size |-> n,
                     off |-> IF app THEN n ELSE 0, dirty |-> trunc]]
    BY <1>6 DEF Open
  <2>3. /\ fdTable'[d].slot = s /\ fdTable'[d].size = n /\ fdTable'[d].acc = acc
        /\ \A e \in FDs \ {d} : fdTable'[e] = fdTable[e]
    BY <1>3, <2>2 DEF SizesOK
  <2>4. /\ trunc => dt' = [dt EXCEPT ![s] = 0]
                    /\ length' = [length EXCEPT ![s] = 0]
        /\ ~trunc => dt' = dt /\ length' = length
    BY <1>6 DEF Open, SetSize
  <2>5. length'[s] = (IF trunc THEN 0 ELSE length[s])
        /\ \A t \in Slots \ {s} : length'[t] = length[t]
    BY <1>3, <2>4 DEF SizesOK
  <2>6. CurrentSize(s) = length[s]
    BY <1>3 DEF RecordedIsLength
  <2>7. n = length'[s] \/ (acc = "r" /\ length'[s] = 0)
    BY <2>2, <2>5, <2>6 DEF IsOpenSize
  <2>8. KnownSize'
    <3> SUFFICES ASSUME NEW e \in FDs, fdTable'[e].slot # None
                 PROVE  \/ fdTable'[e].size = length'[fdTable'[e].slot]
                        \/ /\ fdTable'[e].acc = "r"
                           /\ length'[fdTable'[e].slot] = 0
      BY DEF KnownSize
    <3>1. CASE e = d
      BY <2>3, <2>7, <3>1
    <3>2. CASE e # d
      <4>1. fdTable'[e] = fdTable[e] /\ fdTable[e].slot \in Slots \ {s}
        BY <1>3, <2>1, <2>3, <3>2 DEF SizesOK, Entry
      <4> QED
        BY <2>5, <4>1 DEF KnownSize
    <3> QED
      BY <3>1, <3>2
  <2>9. HostIsBehind'
    BY <1>1, <1>3, <2>4 DEF HostIsBehind, SizesOK
  <2> QED
    BY <2>8, <2>9
<1>7. ASSUME NEW d \in FDs, NEW n \in 1..Cap, NEW b \in Bytes, Write(d, n, b)
      PROVE  KnownSize' /\ HostIsBehind'
  <2> DEFINE f  == fdTable[d]
             e  == WriteAt(f) + ToWrite(n, WriteAt(f))
  <2>1. f \in Entry /\ f.slot \in Slots
    BY <1>3, <1>7 DEF Write, SizesOK, Entry
  <2>2. e \in 0..Cap
    BY <1>7, <2>1, SizesAssumption DEF Write, WriteAt, ToWrite, Lesser, Entry
  <2>3. f.size = length[f.slot]
    BY <1>3, <1>7, <2>1 DEF Write, OwnSize
  <2>4. /\ fdTable'[d].slot = f.slot /\ fdTable'[d].size = Greater(f.size, e)
        /\ \A i \in FDs \ {d} : fdTable'[i] = fdTable[i]
        /\ length' = [length EXCEPT ![f.slot] = Greater(@, e)] /\ dt' = dt
    BY <1>3, <1>7 DEF Write, SizesOK, Entry
  <2> HIDE DEF e
  <2>5. length'[f.slot] = Greater(f.size, e)
        /\ \A t \in Slots \ {f.slot} : length'[t] = length[t]
    BY <1>3, <2>1, <2>3, <2>4 DEF SizesOK
  <2>6. KnownSize'
    <3> SUFFICES ASSUME NEW i \in FDs, fdTable'[i].slot # None
                 PROVE  \/ fdTable'[i].size = length'[fdTable'[i].slot]
                        \/ /\ fdTable'[i].acc = "r"
                           /\ length'[fdTable'[i].slot] = 0
      BY DEF KnownSize
    <3>1. CASE i = d
      BY <2>4, <2>5, <3>1
    <3>2. CASE i # d
      <4>1. fdTable'[i] = fdTable[i]
        BY <2>4, <3>2
      <4>2. fdTable[i].slot \in Slots \ {f.slot}
        BY <1>3, <2>1, <3>2, <4>1, BytesAssumption DEF SizesOK, Entry, OneUser
      <4> QED
        BY <2>5, <4>1, <4>2 DEF KnownSize
    <3> QED
      BY <3>1, <3>2
  <2>7. HostIsBehind'
    <3> SUFFICES ASSUME NEW t \in Slots PROVE NotLonger(dt'[t], length'[t])
      BY DEF HostIsBehind
    <3>1. dt'[t] = dt[t] /\ dt[t] \in 0..Cap /\ length[t] \in 0..Cap
      BY <1>3, <2>4 DEF SizesOK
    <3>2. NotLonger(dt[t], length[t])
      BY DEF HostIsBehind
    <3>3. CASE t = f.slot
      <4>1. length'[t] = Greater(length[t], e)
        BY <2>3, <2>5, <3>3
      <4> QED
        BY <1>2, <2>2, <3>1, <3>2, <4>1
    <3>4. CASE t # f.slot
      BY <2>5, <3>1, <3>2, <3>4
    <3> QED
      BY <3>3, <3>4
  <2> QED
    BY <2>6, <2>7
<1>8. ASSUME NEW d \in FDs,
             \/ \E n \in 1..Cap : Read(d, n)
             \/ \E off \in 0..MaxOff : Seek(d, off)
             \/ WriteFull(d)
      PROVE  KnownSize' /\ HostIsBehind'
  <2>1. UNCHANGED <<dt, length>>
    BY <1>8 DEF Read, Seek, WriteFull
  <2>2. \A i \in FDs : /\ fdTable'[i].slot = fdTable[i].slot
                       /\ fdTable'[i].size = fdTable[i].size
                       /\ fdTable'[i].acc = fdTable[i].acc
    <3>1. \E x : fdTable' = [fdTable EXCEPT ![d].off = x]
      BY <1>8 DEF Read, Seek, WriteFull
    <3>2. \A i \in FDs : fdTable[i] \in Entry
      BY <1>3 DEF SizesOK
    <3> QED
      BY <1>3, <3>1, <3>2 DEF SizesOK, Entry
  <2> QED
    BY <2>1, <2>2 DEF KnownSize, HostIsBehind
<1>9. ASSUME NEW d \in FDs, Close(d)
      PROVE  KnownSize' /\ HostIsBehind'
  <2> DEFINE f == fdTable[d]
  <2>1. f \in Entry /\ f.slot \in Slots
    BY <1>3, <1>9 DEF Close, SizesOK, Entry
  <2>2. /\ fdTable'[d].slot = None
        /\ \A i \in FDs \ {d} : fdTable'[i] = fdTable[i]
    BY <1>3, <1>9 DEF Close, Free, SizesOK
  <2>3. \A t \in Slots \ {f.slot} : length'[t] = length[t] /\ dt'[t] = dt[t]
    BY <1>3, <1>9 DEF Close, SetSize, SizesOK
  <2>4. KnownSize'
    <3> SUFFICES ASSUME NEW i \in FDs, fdTable'[i].slot # None
                 PROVE  \/ fdTable'[i].size = length'[fdTable'[i].slot]
                        \/ /\ fdTable'[i].acc = "r"
                           /\ length'[fdTable'[i].slot] = 0
      BY DEF KnownSize
    <3>1. fdTable'[i] = fdTable[i] /\ i # d
      BY <2>2
    <3>2. fdTable[i].slot \in Slots \ {f.slot}
      BY <1>3, <2>1, <3>1, BytesAssumption DEF SizesOK, Entry, OneUser
    <3> QED
      BY <2>3, <3>1, <3>2 DEF KnownSize
  <2>5. HostIsBehind'
    <3> SUFFICES ASSUME NEW t \in Slots PROVE NotLonger(dt'[t], length'[t])
      BY DEF HostIsBehind
    <3>1. CASE t # f.slot
      BY <2>3, <3>1 DEF HostIsBehind
    <3>2. CASE t = f.slot /\ ~f.dirty
      BY <1>9, <3>2 DEF Close, HostIsBehind
    <3>3. CASE t = f.slot /\ f.dirty /\ t \in Listed
      <4>1. dt'[t] = f.size /\ length'[t] = length[t]
        BY <1>3, <1>9, <3>3 DEF Close, SetSize, Published, SizesOK
      <4>2. f.size = length[t]
        BY <1>3, <2>1, <3>3, BytesAssumption DEF OwnSize
      <4>3. NotLonger(length[t], length[t])
        BY <1>1, <1>3 DEF SizesOK
      <4> QED
        BY <4>1, <4>2, <4>3
    <3>4. CASE t = f.slot /\ f.dirty /\ t \notin Listed
      <4>1. dt'[t] = 0 /\ length'[t] = 0
        BY <1>3, <1>9, <3>4 DEF Close, SizesOK, IInv, UnlistedEmpty
      <4>2. NotLonger(0, 0)
        BY <1>1, SizesAssumption
      <4> QED
        BY <4>1, <4>2
    <3> QED
      BY <3>1, <3>2, <3>3, <3>4
  <2> QED
    BY <2>4, <2>5
<1>10. CASE Leave
  <2>1. /\ \A i \in FDs : fdTable'[i].slot = None
        /\ dt' = dt /\ length' = dt
    BY <1>10 DEF Leave, Free
  <2> QED
    BY <1>1, <1>3, <2>1 DEF KnownSize, HostIsBehind, SizesOK
<1>11. CASE UNCHANGED saveVars
  BY <1>4, <1>11 DEF saveVars
<1> QED
  BY <1>5, <1>6, <1>7, <1>8, <1>9, <1>10, <1>11 DEF Next

-----------------------------------------------------------------------------
(***************************************************************************)
(* The refinement of SaveStore, call by call.                              *)
(***************************************************************************)

LEMMA FilesAre ==
    ASSUME SizesOK, WindowsOK
    PROVE  /\ Files \in [Slots -> Seq(Bytes)]
           /\ \A s \in Slots :
                /\ Files[s] = SubSeq(cram[s], 1, length[s])
                /\ Len(Files[s]) = length[s]
                /\ \A i \in 1..length[s] : Files[s][i] = cram[s][i]
<1>1. \A s \in Slots : cram[s] \in Window /\ length[s] \in 0..Cap
  BY DEF SizesOK, WindowsOK
<1>2. \A s \in Slots :
        /\ SubSeq(cram[s], 1, length[s]) \in Seq(Bytes)
        /\ Len(SubSeq(cram[s], 1, length[s])) = length[s]
        /\ \A i \in 1..length[s] :
              SubSeq(cram[s], 1, length[s])[i] = cram[s][i]
  BY <1>1, FileIs
<1> QED
  BY <1>2 DEF Files

DescOf(f) == [slot |-> f.slot, acc |-> f.acc, app |-> f.app, off |-> f.off]

LEMMA DescsAre == Descs = [d \in FDs |-> DescOf(fdTable[d])]
BY DEF Descs, DescOf

LEMMA FreeIsNoDesc == DescOf(Free) = Store!NoDesc
BY DEF DescOf, Free, Store!NoDesc

\* A call on one descriptor.
LEMMA OneDesc ==
    ASSUME NEW d \in FDs, NEW f, SizesOK, fdTable' = [fdTable EXCEPT ![d] = f]
    PROVE  /\ Descs' = [Descs EXCEPT ![d] = DescOf(f)]
           /\ fdTable'[d] = f
           /\ \A e \in FDs \ {d} : fdTable'[e] = fdTable[e]
<1>1. fdTable'[d] = f /\ \A e \in FDs \ {d} : fdTable'[e] = fdTable[e]
  BY DEF SizesOK
<1>2. Descs' = [e \in FDs |-> DescOf(fdTable'[e])]
  BY DEF Descs, DescOf
<1>3. Descs' = [Descs EXCEPT ![d] = DescOf(f)]
  BY <1>1, <1>2, DescsAre
<1> QED
  BY <1>1, <1>3

\* What an open, a write and a close make of the slots not closed.
LEMMA OneUnsaved ==
    ASSUME NEW d \in FDs, NEW s \in Slots, OneUser, SizesOK,
           fdTable[d].slot \in {s, None}, fdTable'[d].slot \in {s, None},
           fdTable[d].slot = None => \A e \in FDs : fdTable[e].slot # s,
           \A e \in FDs \ {d} : fdTable'[e] = fdTable[e]
    PROVE  /\ s \in Unsaved <=> fdTable[d].slot = s /\ fdTable[d].dirty
           /\ Unsaved' = IF fdTable'[d].slot = s /\ fdTable'[d].dirty
                         THEN Unsaved \cup {s} ELSE Unsaved \ {s}
<1>1. \A e \in FDs \ {d} : fdTable[e].slot # s
  BY BytesAssumption DEF OneUser
<1>2. s \in Unsaved <=> fdTable[d].slot = s /\ fdTable[d].dirty
  BY <1>1 DEF Unsaved
<1>3. \A t \in Slots \ {s} : t \in Unsaved' <=> t \in Unsaved
  <2> TAKE t \in Slots \ {s}
  <2>1. fdTable[d].slot # t /\ fdTable'[d].slot # t
    BY BytesAssumption
  <2> QED
    BY <2>1 DEF Unsaved
<1>4. s \in Unsaved' <=> fdTable'[d].slot = s /\ fdTable'[d].dirty
  BY <1>1 DEF Unsaved
<1>5. Unsaved \subseteq Slots /\ Unsaved' \subseteq Slots
  BY DEF Unsaved
<1> QED
  BY <1>2, <1>3, <1>4, <1>5

LEMMA OpenIsOpen ==
    ASSUME StoreInv, NEW d \in FDs, NEW s \in Slots, NEW acc \in Access,
           NEW app \in BOOLEAN, NEW trunc \in BOOLEAN,
           ~Shared, Open(d, s, acc, app, trunc)
    PROVE  Store!Open(d, s, acc, app, trunc)
<1> USE SizesAssumption
<1>1. /\ SizesOK /\ WindowsOK /\ OneUser /\ RecordedIsLength
  BY DEF StoreInv, IInv
<1>2. PICK n \in 0..Cap :
        /\ IsOpenSize(s, acc, trunc, n)
        /\ fdTable' = [fdTable EXCEPT ![d] =
                        [slot |-> s, acc |-> acc, app |-> app, size |-> n,
                         off |-> IF app THEN n ELSE 0, dirty |-> trunc]]
  BY DEF Open
<1> DEFINE o == IF app THEN n ELSE 0
           f == [slot |-> s, acc |-> acc, app |-> app, size |-> n,
                 off |-> o, dirty |-> trunc]
<1>3. f.slot = s /\ f.acc = acc /\ f.app = app /\ f.off = o /\ f.dirty = trunc
  OBVIOUS
<1>4. /\ Descs' = [Descs EXCEPT ![d] = DescOf(f)]
      /\ fdTable'[d] = f /\ \A e \in FDs \ {d} : fdTable'[e] = fdTable[e]
  <2>1. fdTable' = [fdTable EXCEPT ![d] = f]
    BY <1>2
  <2> HIDE DEF f
  <2> QED
    BY <1>1, <2>1, OneDesc
<1> HIDE DEF f
<1>5. fdTable[d] = Free /\ (\A e \in FDs : fdTable[e].slot # s)
      /\ UNCHANGED <<cram, got>>
  BY DEF Open, Users
<1>6. Descs[d] = Store!NoDesc
  BY <1>5, DescsAre, FreeIsNoDesc
<1>7. Unsaved' = IF trunc THEN Unsaved \cup {s} ELSE Unsaved
  <2>1. /\ fdTable[d].slot = None
        /\ fdTable'[d].slot = s /\ fdTable'[d].dirty = trunc
    BY <1>3, <1>4, <1>5 DEF Free
  <2>2. /\ s \in Unsaved <=> fdTable[d].slot = s /\ fdTable[d].dirty
        /\ Unsaved' = IF fdTable'[d].slot = s /\ fdTable'[d].dirty
                      THEN Unsaved \cup {s} ELSE Unsaved \ {s}
    BY <1>1, <1>4, <1>5, <2>1, OneUnsaved
  <2> QED
    BY <2>1, <2>2, BytesAssumption
<1>8. length' = IF trunc THEN [length EXCEPT ![s] = 0] ELSE length
  BY DEF Open
<1>9. Files' = [t \in Slots |-> SubSeq(cram[t], 1, length'[t])]
  BY <1>5 DEF Files
<1>10. Files' = IF trunc THEN [Files EXCEPT ![s] = <<>>] ELSE Files
  <2>1. CASE trunc
    <3>1. \A t \in Slots : length'[t] = IF t = s THEN 0 ELSE length[t]
      BY <1>1, <1>8, <2>1 DEF SizesOK
    <3>2. \A t \in Slots : SubSeq(cram[t], 1, length'[t]) =
                             IF t = s THEN <<>> ELSE Files[t]
      BY <1>1, <3>1, EmptyFile, FilesAre
    <3> QED
      BY <1>1, <1>9, <2>1, <3>2, FilesAre
  <2>2. CASE ~trunc
    BY <1>8, <1>9, <2>2 DEF Files
  <2> QED
    BY <2>1, <2>2
<1>11. o \in 0..Cap
  OBVIOUS
<1>12. o = (IF app THEN Len(Files'[s]) ELSE 0) \/ Files'[s] = <<>>
  <2>1. CASE trunc
    BY <1>1, <1>10, <2>1, FilesAre
  <2>2. CASE ~trunc /\ length[s] = 0
    BY <1>1, <1>10, <2>2, FilesAre, EmptyFile
  <2>3. CASE ~trunc /\ length[s] # 0
    <3>1. CurrentSize(s) = length[s]
      BY <1>1 DEF RecordedIsLength
    <3>2. n = length[s]
      BY <1>2, <2>3, <3>1 DEF IsOpenSize
    <3>3. Len(Files'[s]) = length[s]
      BY <1>1, <1>10, <2>3, FilesAre
    <3> QED
      BY <3>2, <3>3
  <2> QED
    BY <2>1, <2>2, <2>3
<1>13. DescOf(f) = [slot |-> s, acc |-> acc, app |-> app, off |-> o]
  BY <1>3 DEF DescOf
<1> HIDE DEF o
<1> QED
  BY <1>4, <1>5, <1>6, <1>7, <1>10, <1>11, <1>12, <1>13 DEF Store!Open

LEMMA WriteIsWrite ==
    ASSUME StoreInv, NEW d \in FDs, NEW count \in 1..Cap, NEW b \in Bytes,
           ~Shared, Write(d, count, b)
    PROVE  Store!Write(d, count, b)
<1> USE SizesAssumption
<1> DEFINE f  == fdTable[d]
           s  == f.slot
           at == WriteAt(f)
           n  == ToWrite(count, at)
           g  == [f EXCEPT !.off = at + n, !.dirty = TRUE,
                           !.size = Greater(f.size, at + n)]
           w  == [i \in 1..Cap |-> IF i \in at+1..at+n THEN b ELSE cram[s][i]]
           z  == Greater(length[s], at + n)
<1>1. /\ SizesOK /\ WindowsOK /\ OneUser /\ OwnSize
  BY DEF StoreInv, IInv
<1>2. f \in Entry /\ s \in Slots /\ f.acc # "r" /\ at < Cap
  BY <1>1, BytesAssumption DEF Write, SizesOK, Entry
<1>3. f.size = length[s] /\ length[s] \in 0..Cap
  BY <1>1, <1>2, BytesAssumption DEF OwnSize, SizesOK
<1>4. at \in 0..Cap /\ n \in 1..Cap /\ at + n \in 0..Cap
  BY <1>2, <1>3 DEF WriteAt, ToWrite, Lesser, Entry
<1>5. /\ fdTable' = [fdTable EXCEPT ![d] = g]
      /\ cram' = [cram EXCEPT ![s] = w] /\ got' = got
      /\ length' = [length EXCEPT ![s] = z]
  <2>1. fdTable' = [fdTable EXCEPT ![d] = g]
    BY Zenon DEF Write
  <2> QED
    BY <2>1 DEF Write
<1>6. g.slot = s /\ g.acc = f.acc /\ g.app = f.app /\ g.off = at + n /\ g.dirty
  BY <1>2 DEF Entry
<1> HIDE DEF g
<1>7. /\ Descs' = [Descs EXCEPT ![d] = DescOf(g)] /\ fdTable'[d] = g
      /\ \A e \in FDs \ {d} : fdTable'[e] = fdTable[e]
  BY <1>1, <1>5, OneDesc
<1>8. Descs[d] = DescOf(f)
  BY DescsAre
<1>9. /\ Descs[d].slot = s /\ Descs[d].acc = f.acc /\ Descs[d].app = f.app
      /\ Descs[d].off = f.off
  BY <1>8 DEF DescOf
<1>10. Descs' = [Descs EXCEPT ![d].off = at + n]
  <2>1. DescOf(g) = [Descs[d] EXCEPT !.off = at + n]
    BY <1>6, <1>8 DEF DescOf
  <2> QED
    BY <1>7, <2>1
<1>11. Unsaved' = Unsaved \cup {s}
  <2>1. fdTable[d].slot = s /\ fdTable'[d].slot = s /\ fdTable'[d].dirty
        /\ s # None
    BY <1>2, <1>6, <1>7, BytesAssumption
  <2>2. Unsaved' = IF fdTable'[d].slot = s /\ fdTable'[d].dirty
                   THEN Unsaved \cup {s} ELSE Unsaved \ {s}
    BY <1>1, <1>2, <1>7, <2>1, OneUnsaved
  <2> QED
    BY <2>1, <2>2
<1>12. at = IF Descs[d].app THEN Len(Files[s]) ELSE Descs[d].off
  BY <1>1, <1>2, <1>3, <1>9, FilesAre DEF WriteAt
<1>13. n = Store!Lesser(count, Cap - at)
  BY DEF ToWrite, Lesser, Store!Lesser
<1>14. /\ w \in Window /\ z \in 0..Cap
       /\ cram'[s] = w /\ length'[s] = z
       /\ \A t \in Slots \ {s} : cram'[t] = cram[t] /\ length'[t] = length[t]
  <2>1. w \in Window
    BY <1>1, <1>2 DEF Window, WindowsOK
  <2>2. z \in 0..Cap
    BY <1>3, <1>4 DEF Greater
  <2> HIDE DEF w, z
  <2> QED
    BY <1>1, <1>2, <1>5, <2>1, <2>2 DEF SizesOK, WindowsOK
<1>15. Files'[s] = SubSeq(w, 1, z)
       /\ \A t \in Slots \ {s} : Files'[t] = Files[t]
  BY <1>2, <1>14 DEF Files
<1>16. Store!Written(Files[s], Files'[s], at, n, b)
  <2>1. /\ Len(Files'[s]) = z
        /\ \A i \in 1..z : Files'[s][i] = w[i]
    BY <1>14, <1>15, FileIs
  <2>2. /\ Len(Files[s]) = length[s]
        /\ \A i \in 1..length[s] : Files[s][i] = cram[s][i]
    BY <1>1, <1>2, FilesAre
  <2>3. z = IF at + n > length[s] THEN at + n ELSE length[s]
    BY <1>3, <1>4 DEF Greater
  <2>4. \A i \in 1..z : IF i \in at+1..at+n THEN Files'[s][i] = b
                        ELSE i <= length[s] => Files'[s][i] = Files[s][i]
    <3> TAKE i \in 1..z
    <3>0. Files'[s][i] = w[i]
      BY <2>1, Zenon
    <3>1. i \in 1..Cap
      <4> HIDE DEF z
      <4> QED
        BY <1>14
    <3>2. w[i] = IF i \in at+1..at+n THEN b ELSE cram[s][i]
      BY <3>1
    <3>3. i <= length[s] => Files[s][i] = cram[s][i]
      BY <1>3, <2>2
    <3> QED
      BY <3>0, <3>2, <3>3
  <2> HIDE DEF w, z, n, at, s
  <2>5. Len(Files'[s]) = IF at + n > Len(Files[s]) THEN at + n
                                                   ELSE Len(Files[s])
    BY <2>1, <2>2, <2>3
  <2> QED
    BY <2>1, <2>2, <2>4, <2>5 DEF Store!Written
<1>17. s # None
  BY <1>2, BytesAssumption
<1> HIDE DEF w, z, n, at, f, s
<1> QED
  BY <1>2, <1>5, <1>9, <1>10, <1>11, <1>12, <1>13, <1>15, <1>16, <1>17
     DEF Store!Write

\* What a reader gets: the part of the file ahead of it, or of a window whose
\* length nobody has recorded.
LEMMA ReadIsRead ==
    ASSUME StoreInv, NEW d \in FDs, NEW count \in 1..Cap, Read(d, count)
    PROVE  Store!Read(d, count)
<1> USE SizesAssumption
<1> DEFINE f == fdTable[d]
           s == f.slot
           n == IF f.off >= f.size THEN 0 ELSE Lesser(count, f.size - f.off)
           g == [f EXCEPT !.off = f.off + n]
           m == Lesser(f.off + count, length[s])
<1>1. SizesOK /\ WindowsOK /\ KnownSize
  BY DEF StoreInv, IInv
<1>2. /\ s \in Slots /\ n \in 0..Cap /\ (n > 0 => f.off + n <= f.size)
      /\ Len(got') = n
  BY <1>1, ReadIsBytes
<1>3. /\ f \in Entry /\ f.acc # "w" /\ s # None
      /\ f.off \in Nat /\ f.size \in 0..Cap /\ length[s] \in 0..Cap
  BY <1>1, <1>2, BytesAssumption DEF SizesOK, Entry, Read
<1>4. /\ fdTable' = [fdTable EXCEPT ![d] = g]
      /\ got' = SubSeq(cram[s], f.off + 1, f.off + n)
      /\ UNCHANGED <<cram, length>>
  <2>1. fdTable' = [fdTable EXCEPT ![d] = g]
    BY Zenon DEF Read
  <2> QED
    BY <2>1 DEF Read
<1>5. /\ g.slot = s /\ g.acc = f.acc /\ g.app = f.app /\ g.off = f.off + n
      /\ g.dirty = f.dirty
  BY <1>3 DEF Entry
<1>6. Descs[d] = DescOf(f) /\ Descs[d].slot = s /\ Descs[d].acc = f.acc
      /\ Descs[d].off = f.off
  BY DescsAre DEF DescOf
<1>7. Files' = Files
  BY <1>4 DEF Files
<1> HIDE DEF g
<1>8. /\ Descs' = [Descs EXCEPT ![d] = DescOf(g)] /\ fdTable'[d] = g
      /\ \A e \in FDs \ {d} : fdTable'[e] = fdTable[e]
  BY <1>1, <1>4, OneDesc
<1>9. Unsaved' = Unsaved
  <2>1. \A e \in FDs : /\ fdTable'[e].slot = fdTable[e].slot
                       /\ fdTable'[e].dirty = fdTable[e].dirty
    BY <1>5, <1>8
  <2> QED
    BY <2>1 DEF Unsaved
<1>10. Descs' = [Descs EXCEPT ![d].off = @ + Len(got')]
  <2>1. DescOf(g) = [Descs[d] EXCEPT !.off = f.off + n]
    BY <1>5, <1>6 DEF DescOf
  <2>2. Descs' = [Descs EXCEPT ![d].off = f.off + n]
    BY <1>8, <2>1
  <2> HIDE DEF n, f
  <2> QED
    BY <1>2, <1>6, <2>2
<1>11. \/ got' = SubSeq(Files[s], f.off + 1, m)
       \/ Files[s] = <<>> /\ f.acc = "r"
  <2>1. CASE f.size = length[s]
    <3>1. m \in 0..length[s]
      BY <1>3 DEF Lesser
    <3>2. SubSeq(Files[s], f.off + 1, m) = SubSeq(cram[s], f.off + 1, m)
      <4> DEFINE a == f.off
                 l == length[s]
                 w == cram[s]
      <4>1. w \in Window /\ l \in 0..Cap /\ a \in Nat /\ m \in 0..l
            /\ Files[s] = SubSeq(w, 1, l)
        BY <1>1, <1>2, <1>3, <3>1, FilesAre DEF WindowsOK
      <4> HIDE DEF a, l, w, m
      <4>2. SubSeq(SubSeq(w, 1, l), a + 1, m) = SubSeq(w, a + 1, m)
        BY <4>1, PartOfFile
      <4>3. SubSeq(Files[s], a + 1, m) = SubSeq(w, a + 1, m)
        BY <4>1, <4>2
      <4> QED
        BY <4>3 DEF a, w
    <3>3. CASE f.off < f.size
      <4>1. f.off + n = m
        BY <1>3, <2>1, <3>3 DEF Lesser
      <4> QED
        BY <1>4, <3>2, <4>1
    <3>4. CASE f.off >= f.size
      <4>1. n = 0 /\ m < f.off + 1
        BY <1>3, <2>1, <3>1, <3>4
      <4>2. f.off + n < f.off + 1 /\ f.off + 1 \in Int /\ f.off + n \in Int
        BY <1>3, <4>1
      <4> HIDE DEF m, n
      <4>3. SubSeq(cram[s], f.off + 1, m) = <<>>
        BY <3>1, <4>1, <4>2, SubSeqEmpty
      <4>4. SubSeq(cram[s], f.off + 1, f.off + n) = <<>>
        BY <4>2, SubSeqEmpty
      <4> QED
        BY <1>4, <3>2, <4>3, <4>4
    <3> QED
      BY <1>3, <3>3, <3>4
  <2>2. CASE f.acc = "r" /\ length[s] = 0
    BY <1>1, <1>2, <2>2, FilesAre, EmptyFile
  <2> QED
    BY <1>1, <1>3, <2>1, <2>2 DEF KnownSize
<1>12. m = Store!Lesser(Descs[d].off + count, Len(Files[s]))
  BY <1>1, <1>2, <1>6, FilesAre DEF Lesser, Store!Lesser
<1> HIDE DEF f, s, n, m
<1> QED
  BY <1>3, <1>6, <1>7, <1>9, <1>10, <1>11, <1>12 DEF Store!Read

\* A seek, and a write that finds the slot full, only move the descriptor.
LEMMA SeekIsSeek ==
    ASSUME StoreInv, NEW d \in FDs,
           (\E off \in 0..MaxOff : Seek(d, off)) \/ WriteFull(d)
    PROVE  Store!Seek(d)
<1>1. SizesOK
  BY DEF StoreInv, IInv
<1>2. fdTable[d] \in Entry /\ fdTable[d].slot # None
  BY <1>1 DEF SizesOK, Seek, WriteFull
<1>3. PICK o \in Nat : /\ fdTable' = [fdTable EXCEPT ![d].off = o]
                       /\ UNCHANGED <<cram, length, got>>
  <2>1. CASE \E off \in 0..MaxOff : Seek(d, off)
    <3>1. PICK off \in 0..MaxOff : Seek(d, off)
      BY <2>1
    <3>2. off \in Nat
      BY SizesAssumption
    <3> QED
      BY <3>1, <3>2 DEF Seek
  <2>2. CASE WriteFull(d)
    <3>1. WriteAt(fdTable[d]) \in Nat
      BY <1>2, SizesAssumption DEF Entry, WriteAt
    <3> QED
      BY <2>2, <3>1 DEF WriteFull
  <2> QED
    BY <2>1, <2>2
<1> DEFINE g == [fdTable[d] EXCEPT !.off = o]
<1>4. fdTable' = [fdTable EXCEPT ![d] = g]
  BY <1>3
<1>5. /\ g.slot = fdTable[d].slot /\ g.acc = fdTable[d].acc
      /\ g.app = fdTable[d].app /\ g.off = o /\ g.dirty = fdTable[d].dirty
  BY <1>2 DEF Entry
<1> HIDE DEF g
<1>6. /\ Descs' = [Descs EXCEPT ![d] = DescOf(g)] /\ fdTable'[d] = g
      /\ \A e \in FDs \ {d} : fdTable'[e] = fdTable[e]
  BY <1>1, <1>4, OneDesc
<1>7. Unsaved' = Unsaved
  <2>1. \A e \in FDs : /\ fdTable'[e].slot = fdTable[e].slot
                       /\ fdTable'[e].dirty = fdTable[e].dirty
    BY <1>5, <1>6
  <2> QED
    BY <2>1 DEF Unsaved
<1>8. Descs[d] = DescOf(fdTable[d]) /\ Descs[d].slot = fdTable[d].slot
  BY DescsAre DEF DescOf
<1>9. Descs' = [Descs EXCEPT ![d].off = o] /\ Descs'[d].off = o
  <2>1. DescOf(g) = [Descs[d] EXCEPT !.off = o] /\ DescOf(g).off = o
    BY <1>5, <1>8 DEF DescOf
  <2>2. d \in DOMAIN Descs
    BY DescsAre
  <2> QED
    BY <1>6, <2>1, <2>2
<1>10. Files' = Files
  BY <1>3 DEF Files
<1> QED
  BY <1>2, <1>3, <1>7, <1>8, <1>9, <1>10 DEF Store!Seek

LEMMA CloseIsClose ==
    ASSUME StoreInv, NEW d \in FDs, ~Shared, Close(d)
    PROVE  Store!Close(d)
<1> DEFINE f == fdTable[d]
           s == f.slot
<1>1. SizesOK /\ WindowsOK /\ OneUser
  BY DEF StoreInv, IInv
<1>2. f \in Entry /\ s \in Slots /\ s # None
  BY <1>1 DEF SizesOK, Entry, Close
<1>3. /\ fdTable' = [fdTable EXCEPT ![d] = Free] /\ UNCHANGED <<cram, got>>
      /\ length' = IF f.dirty /\ s \notin Listed THEN [length EXCEPT ![s] = 0]
                   ELSE length
  BY DEF Close
<1>4. /\ Descs' = [Descs EXCEPT ![d] = Store!NoDesc] /\ fdTable'[d] = Free
      /\ \A e \in FDs \ {d} : fdTable'[e] = fdTable[e]
  BY <1>1, <1>3, OneDesc, FreeIsNoDesc
<1>5. Descs[d].slot = s
  BY DescsAre DEF DescOf
<1>6. (s \in Unsaved <=> f.dirty) /\ Unsaved' = Unsaved \ {s}
  <2>1. fdTable'[d].slot = None /\ ~fdTable'[d].dirty
    BY <1>4 DEF Free
  <2>2. /\ s \in Unsaved <=> fdTable[d].slot = s /\ fdTable[d].dirty
        /\ Unsaved' = IF fdTable'[d].slot = s /\ fdTable'[d].dirty
                      THEN Unsaved \cup {s} ELSE Unsaved \ {s}
    BY <1>1, <1>2, <1>4, <2>1, OneUnsaved
  <2> QED
    BY <2>1, <2>2
<1> HIDE DEF f, s
<1>7. Files' = IF s \in Unsaved \ Listed THEN [Files EXCEPT ![s] = <<>>]
                                         ELSE Files
  <2>1. Files' = [t \in Slots |-> SubSeq(cram[t], 1, length'[t])]
    BY <1>3 DEF Files
  <2>2. CASE f.dirty /\ s \notin Listed
    <3>1. \A t \in Slots : length'[t] = IF t = s THEN 0 ELSE length[t]
      BY <1>1, <1>3, <2>2 DEF SizesOK
    <3>2. \A t \in Slots : SubSeq(cram[t], 1, length'[t]) =
                             IF t = s THEN <<>> ELSE Files[t]
      BY <1>1, <3>1, EmptyFile, FilesAre
    <3> QED
      BY <1>1, <1>6, <2>1, <2>2, <3>2, FilesAre
  <2>3. CASE ~(f.dirty /\ s \notin Listed)
    BY <1>3, <1>6, <2>1, <2>3 DEF Files
  <2> QED
    BY <2>2, <2>3
<1> QED
  BY <1>2, <1>3, <1>4, <1>5, <1>6, <1>7 DEF Store!Close

\* The host writes back a beginning of each file, and all of a closed one.
LEMMA LeaveIsLeave ==
    ASSUME StoreInv, Leave
    PROVE  Store!Leave
<1> USE SizesAssumption
<1>1. /\ SizesOK /\ WindowsOK /\ WindowsOK' /\ CleanIsPublished
      /\ HostIsBehind
  BY WindowsStep DEF StoreInv, IInv, Next
<1>2. /\ fdTable' = [d \in FDs |-> Free] /\ length' = dt /\ got' = <<>>
  BY DEF Leave
<1>3. \A s \in Slots : \A i \in 1..dt[s] : cram'[s][i] = cram[s][i]
  <2>1. PICK b \in Bytes :
            cram' = [s \in Slots |-> [i \in 1..Cap |->
                                       IF i <= dt[s] THEN cram[s][i] ELSE b]]
    BY DEF Leave
  <2> TAKE s \in Slots
  <2> TAKE i \in 1..dt[s]
  <2>2. dt[s] \in 0..Cap
    BY <1>1 DEF SizesOK
  <2>3. i \in 1..Cap /\ i <= dt[s]
    BY <2>2
  <2> QED
    BY <2>1, <2>3
<1>4. ASSUME NEW s \in Slots
      PROVE  /\ dt[s] \in 0..Len(Files[s])
             /\ Files'[s] = SubSeq(Files[s], 1, dt[s])
             /\ s \in Listed \ Unsaved => dt[s] = Len(Files[s])
  <2>1. dt[s] \in 0..Cap /\ length[s] \in 0..Cap
        /\ cram[s] \in Window /\ cram'[s] \in Window
        /\ Len(Files[s]) = length[s]
        /\ Files[s] = SubSeq(cram[s], 1, length[s])
    BY <1>1, FilesAre DEF SizesOK, WindowsOK
  <2>2. dt[s] \in 0..length[s]
    BY <1>1, <2>1 DEF HostIsBehind, NotLonger
  <2>3. Files'[s] = SubSeq(cram'[s], 1, dt[s])
    BY <1>2 DEF Files
  <2>4. SubSeq(cram'[s], 1, dt[s]) = SubSeq(cram[s], 1, dt[s])
    BY <1>3, <2>1, SameFile
  <2>5. SubSeq(Files[s], 1, dt[s]) = SubSeq(cram[s], 1, dt[s])
    <3>1. SubSeq(SubSeq(cram[s], 1, length[s]), 0 + 1, dt[s]) =
            SubSeq(cram[s], 0 + 1, dt[s])
      BY <2>1, <2>2, PartOfFile
    <3>2. 0 + 1 = 1
      OBVIOUS
    <3> QED
      BY <2>1, <3>1, <3>2
  <2>6. s \in Listed \ Unsaved => dt[s] = length[s]
    BY <1>1 DEF CleanIsPublished, Unsaved
  <2> QED
    BY <2>1, <2>2, <2>3, <2>4, <2>5, <2>6
<1>5. Descs' = [d \in FDs |-> Store!NoDesc]
  <2>1. Descs' = [d \in FDs |-> DescOf(fdTable'[d])]
    BY DEF Descs, DescOf
  <2>2. \A d \in FDs : DescOf(fdTable'[d]) = Store!NoDesc
    BY <1>2, FreeIsNoDesc
  <2> QED
    BY <2>1, <2>2
<1>6. Unsaved' = {}
  BY <1>2 DEF Unsaved, Free
<1> QED
  BY <1>2, <1>4, <1>5, <1>6 DEF Store!Leave

LEMMA StoreStep ==
    ASSUME ~Shared
    PROVE  StoreInv /\ [Next]_saveVars => [Store!Next]_Store!storeVars
<1> SUFFICES ASSUME StoreInv, [Next]_saveVars
             PROVE  [Store!Next]_Store!storeVars
  OBVIOUS
<1>1. ASSUME UNCHANGED <<fdTable, cram, length, got>>
      PROVE  UNCHANGED Store!storeVars
  BY <1>1 DEF Files, Descs, Unsaved, Store!storeVars
<1>2. ASSUME NEW d \in FDs, NEW s \in Slots, OpenRefused(d, s) \/ Stat(d, s)
      PROVE  UNCHANGED Store!storeVars
  BY <1>1, <1>2 DEF OpenRefused, Stat, Remembered
<1>3. ASSUME NEW d \in FDs, NEW s \in Slots, NEW acc \in Access,
             NEW app \in BOOLEAN, NEW trunc \in BOOLEAN,
             Open(d, s, acc, app, trunc)
      PROVE  Store!Next
  <2>1. Store!Open(d, s, acc, app, trunc)
    BY <1>3, OpenIsOpen
  <2> QED
    BY <2>1 DEF Store!Next, Access
<1>4. ASSUME NEW d \in FDs, NEW n \in 1..Cap, NEW b \in Bytes, Write(d, n, b)
      PROVE  Store!Next
  <2>1. Store!Write(d, n, b)
    BY <1>4, WriteIsWrite
  <2> QED
    BY <2>1 DEF Store!Next
<1>5. ASSUME NEW d \in FDs, NEW n \in 1..Cap, Read(d, n)
      PROVE  Store!Next
  <2>1. Store!Read(d, n)
    BY <1>5, ReadIsRead
  <2> QED
    BY <2>1 DEF Store!Next
<1>6. ASSUME NEW d \in FDs,
             (\E off \in 0..MaxOff : Seek(d, off)) \/ WriteFull(d)
      PROVE  Store!Next
  <2>1. Store!Seek(d)
    BY <1>6, SeekIsSeek
  <2> QED
    BY <2>1 DEF Store!Next
<1>7. ASSUME NEW d \in FDs, Close(d)
      PROVE  Store!Next
  <2>1. Store!Close(d)
    BY <1>7, CloseIsClose
  <2> QED
    BY <2>1 DEF Store!Next
<1>8. CASE Leave
  BY <1>8, LeaveIsLeave DEF Store!Next
<1>9. CASE UNCHANGED saveVars
  BY <1>1, <1>9 DEF saveVars
<1> QED
  BY <1>2, <1>3, <1>4, <1>5, <1>6, <1>7, <1>8, <1>9 DEF Next

\* Opens, reads, writes, seeks, closes and exits of slots open once at a time
\* are those of one file for each slot: per-descriptor size, size cache and
\* datatable never show, and what has been closed survives leaving the core
\* (syscall.c).
THEOREM ImplementsStoreHolds ==
    ASSUME ~Shared
    PROVE  Spec => ImplementsStore
<1>1. Init => StoreInv /\ Store!Init
  <2> SUFFICES ASSUME Init PROVE StoreInv /\ Store!Init
    OBVIOUS
  <2>1. IInv
    BY SaveInit
  <2>2. /\ got = <<>> /\ cram \in [Slots -> Window] /\ length = dt
        /\ fdTable = [d \in FDs |-> Free]
    BY DEF Init, Window
  <2>3. WindowsOK
    BY <2>2 DEF WindowsOK
  <2>4. \A m \in 0..Cap : NotLonger(m, m)
    BY SizesAssumption DEF NotLonger
  <2>5. KnownSize /\ HostIsBehind
    BY <2>1, <2>2, <2>4 DEF IInv, SizesOK, KnownSize, HostIsBehind, Free
  <2>6. Files \in [Slots -> Seq(Bytes)]
    BY <2>1, <2>3, FilesAre DEF IInv
  <2>7. Descs = [d \in FDs |-> Store!NoDesc]
    <3>1. \A d \in FDs : DescOf(fdTable[d]) = Store!NoDesc
      BY <2>2, FreeIsNoDesc
    <3> QED
      BY <3>1, DescsAre
  <2>8. Unsaved = {}
    BY <2>2 DEF Unsaved, Free
  <2> QED
    BY <2>1, <2>2, <2>3, <2>5, <2>6, <2>7, <2>8 DEF StoreInv, Store!Init
<1>2. StoreInv /\ [Next]_saveVars => StoreInv'
  BY SizesStep, LengthsStep, WindowsStep, BehindStep
     DEF StoreInv, IInv, LengthsAgree
<1>3. StoreInv /\ [Next]_saveVars => [Store!Next]_Store!storeVars
  BY StoreStep
<1> QED
  BY <1>1, <1>2, <1>3, PTL DEF Spec, ImplementsStore, Store!Spec
=============================================================================

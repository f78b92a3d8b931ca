----------------------------- MODULE SaveFiles ------------------------------
(***************************************************************************)
(* Nonvolatile files of the system-call layer (syscall.c) on the Pocket's  *)
(* save windows (save.c): descriptors with a size of their own, a size     *)
(* cache for the session, and the datatable whose size words tell the host *)
(* how much of each window to write back when the core is left.            *)
(*                                                                         *)
(* A system call is one step: it runs with interrupts masked, and the      *)
(* shutdown handshake is answered in the timer interrupt or a delay call.  *)
(***************************************************************************)
EXTENDS Integers, Sequences

CONSTANTS
    FDs,         \* free entries of fd_table
    Slots,       \* nonvolatile data slots
    Saves,       \* those that are save slots; the others hold settings
    Listed,      \* those with a datatable entry
    Bytes, Blank,  \* byte values; Blank ends a text
    Cap,         \* of_nvslot_capacity
    MaxOff,      \* bound on lseek
    Shared,      \* may a slot be open more than once?
    None

ASSUME SlotsAssumption == Saves \subseteq Slots /\ Listed \subseteq Slots
ASSUME BytesAssumption == Blank \in Bytes /\ None \notin Slots
ASSUME SizesAssumption == Cap \in Nat \ {0} /\ MaxOff \in Nat
ASSUME SharedAssumption == Shared \in BOOLEAN

Unknown == -1

VARIABLES
    fdTable,     \* fd_table, its nonvolatile entries
    cache,       \* save_size_cache, or Unknown
    dt,          \* the size words of the datatable
    cram,        \* the save windows
    length,      \* history: the files' lengths, as all descriptors made them
    got          \* history: the bytes the last read returned

saveVars == <<fdTable, cache, dt, cram, length, got>>

Access == {"r", "w", "rw"}
Entry == [slot : Slots \cup {None}, acc : Access \cup {"none"}, app : BOOLEAN,
          off : 0..MaxOff + Cap, size : 0..Cap, dirty : BOOLEAN]
Free == [slot |-> None, acc |-> "none", app |-> FALSE, off |-> 0, size |-> 0,
         dirty |-> FALSE]

Users(s) == {d \in FDs : fdTable[d].slot = s}

\* The host has loaded each listed slot's file into its window.
Init ==
    /\ fdTable = [d \in FDs |-> Free]
    /\ cache = [s \in Slots |-> Unknown]
    /\ dt \in [Slots -> {0, Cap}] /\ \A s \in Slots \ Listed : dt[s] = 0
    /\ cram \in [Slots -> {[i \in 1..Cap |-> b] : b \in Bytes}]
    /\ length = dt /\ got = <<>>

Lesser(a, b) == IF a <= b THEN a ELSE b
Greater(a, b) == IF a >= b THEN a ELSE b

\* nv_current_size: the session's size, else the datatable's.
CurrentSize(s) == IF cache[s] # Unknown THEN cache[s] ELSE dt[s]

\* nv_infer_text_size: the bytes before the first blank.
IsTextSize(s, n) ==
    /\ \A i \in 1..n : cram[s][i] # Blank
    /\ n < Cap => cram[s][n + 1] = Blank

\* The size of a new descriptor.  A read-only open may probe a slot that has no
\* recorded size: a save slot as a whole, settings as far as the text goes.
IsOpenSize(s, acc, trunc, n) ==
    CASE trunc -> n = 0
      [] ~trunc /\ CurrentSize(s) = 0 /\ acc = "r" ->
            IF s \in Saves THEN n = Cap ELSE IsTextSize(s, n)
      [] OTHER -> n = CurrentSize(s)

\* of_nvslot_set_size fails without a datatable entry.
SetSize(s, n) == s \in Listed /\ dt' = [dt EXCEPT ![s] = n]

\* open_nv_fd.  A truncation is refused if the host cannot be told.
Open(d, s, acc, app, trunc) ==
    /\ fdTable[d] = Free
    /\ Users(s) # {} => Shared
    /\ trunc => s \in Listed
    /\ \E n \in 0..Cap :
        /\ IsOpenSize(s, acc, trunc, n)
        /\ fdTable' = [fdTable EXCEPT ![d] =
                        [slot |-> s, acc |-> acc, app |-> app, size |-> n,
                         off |-> IF app THEN n ELSE 0, dirty |-> trunc]]
    /\ IF trunc
       THEN /\ SetSize(s, 0)
            /\ cache' = [cache EXCEPT ![s] = 0]
            /\ length' = [length EXCEPT ![s] = 0]
       ELSE /\ cache' = [cache EXCEPT ![s] = CurrentSize(s)]
            /\ UNCHANGED <<dt, length>>
    /\ UNCHANGED <<cram, got>>

\* What an open leaves behind when its descriptor is given up unused.
Remembered(s) ==
    /\ cache' = [cache EXCEPT ![s] = CurrentSize(s)]
    /\ UNCHANGED <<fdTable, dt, cram, length, got>>

\* open_nv_fd gives up when the host has no entry to truncate.
OpenRefused(d, s) ==
    /\ fdTable[d] = Free
    /\ Users(s) # {} => Shared
    /\ s \notin Listed
    /\ Remembered(s)

\* SYS_statx, SYS_fstatat: opened read-only for its size, then dropped.
Stat(d, s) == fdTable[d] = Free /\ Remembered(s)

\* Mutant: O_APPEND only positions the descriptor when it is opened.
WriteAtOffset(f) == f.off
WriteAt(f) == IF f.app THEN f.size ELSE f.off

ToWrite(count, at) == Lesser(count, Cap - at)

\* sys_write; past the end of the slot it fails with EFBIG.
Write(d, count, b) ==
    LET f  == fdTable[d]
        at == WriteAt(f)
        n  == ToWrite(count, at)
    IN  /\ f.slot # None /\ f.acc # "r" /\ at < Cap
        /\ cram' = [cram EXCEPT ![f.slot] =
                     [i \in 1..Cap |-> IF i \in at+1..at+n THEN b ELSE @[i]]]
        /\ fdTable' = [fdTable EXCEPT ![d].off = at + n, ![d].dirty = TRUE,
                                      ![d].size = Greater(f.size, at + n)]
        /\ cache' = [cache EXCEPT ![f.slot] = Greater(f.size, at + n)]
        /\ length' = [length EXCEPT ![f.slot] = Greater(@, at + n)]
        /\ UNCHANGED <<dt, got>>

\* A write at or past the end of the slot: O_APPEND has moved the offset.
WriteFull(d) ==
    LET f == fdTable[d]
    IN  /\ f.slot # None /\ f.acc # "r" /\ WriteAt(f) >= Cap
        /\ fdTable' = [fdTable EXCEPT ![d].off = WriteAt(f)]
        /\ UNCHANGED <<cache, dt, cram, length, got>>

\* sys_read
Read(d, count) ==
    LET f == fdTable[d]
        n == IF f.off >= f.size THEN 0 ELSE Lesser(count, f.size - f.off)
    IN  /\ f.slot # None /\ f.acc # "w"
        /\ got' = SubSeq(cram[f.slot], f.off + 1, f.off + n)
        /\ fdTable' = [fdTable EXCEPT ![d].off = @ + n]
        /\ UNCHANGED <<cache, dt, cram, length>>

\* sys_llseek
Seek(d, off) ==
    /\ fdTable[d].slot # None
    /\ fdTable' = [fdTable EXCEPT ![d].off = off]
    /\ UNCHANGED <<cache, dt, cram, length, got>>

\* Mutant: the size published is where the descriptor stands.
PublishOffset(f) == f.off
Published(f) == f.size

\* sys_close: a dirty descriptor publishes its size; where the host has no
\* entry for it, the cached size is given up.
Close(d) ==
    LET f == fdTable[d]
        s == f.slot
    IN  /\ s # None
        /\ fdTable' = [fdTable EXCEPT ![d] = Free]
        /\ IF ~f.dirty THEN UNCHANGED <<cache, dt, length>>
           ELSE IF s \in Listed
           THEN /\ SetSize(s, Published(f))
                /\ cache' = [cache EXCEPT ![s] = Published(f)]
                /\ UNCHANGED length
           ELSE /\ cache' = [cache EXCEPT ![s] = Unknown]
                /\ length' = [length EXCEPT ![s] = 0]
                /\ UNCHANGED dt
        /\ UNCHANGED <<cram, got>>

\* The core is left and started again: the host writes back as much of each
\* window as its size word says, and loads that again.
Leave ==
    /\ fdTable' = [d \in FDs |-> Free]
    /\ cache' = [s \in Slots |-> Unknown]
    /\ \E b \in Bytes :
        cram' = [s \in Slots |-> [i \in 1..Cap |->
                                   IF i <= dt[s] THEN cram[s][i] ELSE b]]
    /\ length' = dt /\ got' = <<>>
    /\ UNCHANGED dt

Next ==
    \/ \E d \in FDs :
        \/ \E s \in Slots :
            \/ OpenRefused(d, s) \/ Stat(d, s)
            \/ \E acc \in Access, app, trunc \in BOOLEAN :
                Open(d, s, acc, app, trunc)
        \/ \E n \in 1..Cap : (\E b \in Bytes : Write(d, n, b)) \/ Read(d, n)
        \/ \E off \in 0..MaxOff : Seek(d, off)
        \/ WriteFull(d) \/ Close(d)
    \/ Leave

Spec == Init /\ [][Next]_saveVars

-----------------------------------------------------------------------------
\* Descriptors, sizes and windows have their types; no size exceeds the slot.
TypeOK ==
    /\ fdTable \in [FDs -> Entry]
    /\ cache \in [Slots -> 0..Cap \cup {Unknown}] /\ dt \in [Slots -> 0..Cap]
    /\ cram \in [Slots -> [1..Cap -> Bytes]]
    /\ length \in [Slots -> 0..Cap] /\ got \in Seq(Bytes)

\* When the last descriptor of a slot is closed, the host knows the file's whole
\* length ("Dirty closes publish the logical size; Pocket persists them on core
\* exit", sys_openat).
PublishedIsWhole ==
    \A s \in Listed : Users(s) = {} => dt[s] = length[s]

\* The files, the descriptors and what is not closed, as SaveStore sees them.
Files == [s \in Slots |-> SubSeq(cram[s], 1, length[s])]
Descs == [d \in FDs |-> [slot |-> fdTable[d].slot, acc |-> fdTable[d].acc,
                         app |-> fdTable[d].app, off |-> fdTable[d].off]]
Unsaved == {s \in Slots : \E d \in FDs : fdTable[d].slot = s
                                         /\ fdTable[d].dirty}

Store == INSTANCE SaveStore WITH
    file <- Files, desc <- Descs, unsaved <- Unsaved

\* Reads, writes and exits of a slot open once at a time are those of one file:
\* the per-descriptor size, the size cache and the datatable never show.
ImplementsStore == Store!Spec
=============================================================================

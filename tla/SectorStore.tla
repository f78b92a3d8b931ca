---------------------------- MODULE SectorStore -----------------------------
(***************************************************************************)
(* What disk_read and disk_write promise FatFs: one call at a time; a      *)
(* successful read returns what the disk holds, a successful write leaves  *)
(* its data on the disk, and a failed write leaves each of its sectors     *)
(* either as it was or as it was to be.  Nothing else changes a disk.      *)
(***************************************************************************)
EXTENDS Integers, Sequences

CONSTANTS
    Disks, Sectors,
    Counts,        \* how many sectors a read asks for
    Payloads,      \* the sequences of sectors that are written
    Blank          \* the contents the disks start with

VARIABLES
    disk,          \* disk -> sector -> contents
    call,          \* the call in progress, or Nothing
    got, result    \* what the last successful read returned; the last outcome

storeVars == <<disk, call, got, result>>

Nothing == [disk |-> 0, at |-> 0, data |-> <<>>, rd |-> 0]

Init == disk = Blank /\ call = Nothing /\ got = <<>> /\ result = "ok"

Read(d, at, n) ==
    /\ call = Nothing
    /\ call' = [disk |-> d, at |-> at, data |-> <<>>, rd |-> n]
    /\ UNCHANGED <<disk, got, result>>

Write(d, at, data) ==
    /\ call = Nothing
    /\ call' = [disk |-> d, at |-> at, data |-> data, rd |-> 0]
    /\ UNCHANGED <<disk, got, result>>

\* The sector that the i-th block of the call is about.
Sector(i) == call.at + i - 1

StoreBlock(i) ==
    /\ i \in DOMAIN call.data
    /\ disk' = [disk EXCEPT ![call.disk][Sector(i)] = call.data[i]]
    /\ UNCHANGED <<call, got, result>>

Succeed ==
    /\ call # Nothing
    /\ \A i \in DOMAIN call.data : disk[call.disk][Sector(i)] = call.data[i]
    /\ got' = IF call.rd = 0 THEN got
              ELSE [i \in 1..call.rd |-> disk[call.disk][Sector(i)]]
    /\ call' = Nothing /\ result' = "ok"
    /\ UNCHANGED disk

\* A call may also be refused at once.
Fail ==
    /\ call' = Nothing /\ result' = "error"
    /\ UNCHANGED <<disk, got>>

Next ==
    \/ \E d \in Disks, at \in Sectors :
        \/ \E n \in Counts : Read(d, at, n)
        \/ \E data \in Payloads : Write(d, at, data)
    \/ \E i \in DOMAIN call.data : StoreBlock(i)
    \/ Succeed \/ Fail

Spec == Init /\ [][Next]_storeVars
=============================================================================

----------------------------- MODULE SaveStore ------------------------------
(***************************************************************************)
(* What the file calls promise about nonvolatile files: a slot is one file *)
(* of bytes that all its descriptors share, and leaving the core keeps     *)
(* every file that has been closed since it was last written.              *)
(***************************************************************************)
EXTENDS Integers, Sequences

CONSTANTS
    FDs, Slots, Bytes, None,
    Cap,         \* bytes in a slot
    Listed       \* the slots the host has a file for

VARIABLES
    file,        \* slot -> its contents
    desc,        \* descriptor -> [slot, acc, app, off], or NoDesc
    unsaved,     \* the slots written and not yet closed
    got          \* the bytes the last read returned

storeVars == <<file, desc, unsaved, got>>

NoDesc == [slot |-> None, acc |-> "none", app |-> FALSE, off |-> 0]

Init ==
    /\ file \in [Slots -> Seq(Bytes)]
    /\ desc = [d \in FDs |-> NoDesc]
    /\ unsaved = {} /\ got = <<>>

Lesser(a, b) == IF a <= b THEN a ELSE b

\* A read-only open of a file the host lists as empty may see the raw slot.
Open(d, s, acc, app, trunc) ==
    /\ desc[d] = NoDesc
    /\ file' = IF trunc THEN [file EXCEPT ![s] = <<>>] ELSE file
    /\ \E off \in 0..Cap :
        /\ off = (IF app THEN Len(file'[s]) ELSE 0) \/ file'[s] = <<>>
        /\ desc' = [desc EXCEPT ![d] = [slot |-> s, acc |-> acc, app |-> app,
                                        off |-> off]]
    /\ unsaved' = IF trunc THEN unsaved \cup {s} ELSE unsaved
    /\ UNCHANGED got

\* new is old with n bytes b written from offset at; what a hole holds is open.
Written(old, new, at, n, b) ==
    /\ Len(new) = IF at + n > Len(old) THEN at + n ELSE Len(old)
    /\ \A i \in 1..Len(new) :
        IF i \in at+1..at+n THEN new[i] = b
                            ELSE i <= Len(old) => new[i] = old[i]

Write(d, count, b) ==
    LET s  == desc[d].slot
        at == IF desc[d].app THEN Len(file[s]) ELSE desc[d].off
        n  == Lesser(count, Cap - at)
    IN  /\ s # None /\ desc[d].acc # "r" /\ at < Cap
        /\ Written(file[s], file'[s], at, n, b)
        /\ \A t \in Slots \ {s} : file'[t] = file[t]
        /\ desc' = [desc EXCEPT ![d].off = at + n]
        /\ unsaved' = unsaved \cup {s}
        /\ UNCHANGED got

Read(d, count) ==
    LET s == desc[d].slot
    IN  /\ s # None /\ desc[d].acc # "w"
        /\ \/ got' = SubSeq(file[s], desc[d].off + 1,
                            Lesser(desc[d].off + count, Len(file[s])))
           \/ file[s] = <<>> /\ desc[d].acc = "r"
        /\ desc' = [desc EXCEPT ![d].off = @ + Len(got')]
        /\ UNCHANGED <<file, unsaved>>

Seek(d) ==
    /\ desc[d].slot # None
    /\ desc'[d].off \in Nat
    /\ desc' = [desc EXCEPT ![d].off = desc'[d].off]
    /\ UNCHANGED <<file, unsaved, got>>

\* Closing a file that the host does not list loses it.
Close(d) ==
    LET s == desc[d].slot
    IN  /\ s # None
        /\ desc' = [desc EXCEPT ![d] = NoDesc]
        /\ file' = IF s \in unsaved \ Listed THEN [file EXCEPT ![s] = <<>>]
                                             ELSE file
        /\ unsaved' = unsaved \ {s}
        /\ UNCHANGED got

\* Of a file that is not closed, or not listed, a beginning survives.
Leave ==
    /\ \A s \in Slots :
        \E n \in 0..Len(file[s]) :
            /\ file'[s] = SubSeq(file[s], 1, n)
            /\ s \in Listed \ unsaved => n = Len(file[s])
    /\ desc' = [d \in FDs |-> NoDesc] /\ unsaved' = {} /\ got' = <<>>

Next ==
    \/ \E d \in FDs :
        \/ \E s \in Slots, acc \in {"r", "w", "rw"}, app, trunc \in BOOLEAN :
            Open(d, s, acc, app, trunc)
        \/ \E n \in 1..Cap : (\E b \in Bytes : Write(d, n, b)) \/ Read(d, n)
        \/ Seek(d) \/ Close(d)
    \/ Leave

Spec == Init /\ [][Next]_storeVars
=============================================================================

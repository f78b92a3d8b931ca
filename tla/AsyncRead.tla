----------------------------- MODULE AsyncRead ------------------------------
(***************************************************************************)
(* What of_file_read_async promises an application (hal/file.h): one read  *)
(* in flight at a time, and one completion for each, which is either a     *)
(* failure or a success whose destination holds the data that was asked    *)
(* for.                                                                    *)
(***************************************************************************)
CONSTANTS Reqs, None

VARIABLES
    pending,   \* the read in flight
    result     \* the completion delivered last

\* The completions a read of r may have.
Outcomes(r) == [req : {r}, rc : {"ok"}, data : {r}]
               \cup [req : {r}, rc : {"err", "timeout"}, data : {None}]

Init == pending = None /\ result = [req |-> None, rc |-> "none", data |-> None]

Submit(r) == pending = None /\ pending' = r /\ UNCHANGED result

Deliver == pending # None /\ result' \in Outcomes(pending) /\ pending' = None

Next == Deliver \/ \E r \in Reqs : Submit(r)

Spec == Init /\ [][Next]_<<pending, result>>
=============================================================================

--------------------------- MODULE MCMisterFiles ---------------------------
(***************************************************************************)
(* Model-checking instance of MisterFiles: a family image, the instance's  *)
(* own image, a borrowed library, and fewer ids than files.                *)
(***************************************************************************)
EXTENDS MisterFiles

On(dir, name) == [dir |-> dir, name |-> name]
\* image 0: the family, 1: the instance, 2: borrowed
Library == [v \in 0..2 |->
    CASE v = 0 -> <<On("common", "b.dat"), On("One", "game.cfg")>>
      [] v = 1 -> <<On("common", "b.dat"), On("One", "game.cfg"),
                    On("One", "slot_0.sav")>>
      [] v = 2 -> <<On("common", "HIP/b.dat"), On("common", "a.dat")>>]
LibraryBase == [n \in {"a.dat", "b.dat", "HIP/b.dat", "game.cfg",
                       "slot_0.sav", "app.elf"} |->
                  IF n = "HIP/b.dat" THEN "b.dat" ELSE n]
LibraryNames == {"b.dat", "HIP/b.dat", "game.cfg", "slot_0.sav"}
Saves == [i \in {10} |-> "slot_0.sav"]
App == [i \in {3} |-> "app.elf"]
TwoIds == <<4, 20>>

\* The library is one that ConfigWriteLandsHolds speaks of.
ASSUME LibraryOwnsNames == SettingsOwnNames

\* What the tables hold.
ASSUME TableTypes ==
    /\ Found \in [SUBSET Vols ->
                    [Roots -> [DOMAIN Base -> Files \cup {None}]]]
    /\ Shared \in [SUBSET Vols -> [DOMAIN FixedRead -> Files \cup {None}]]
    /\ Enumerated \in [SUBSET Vols -> [Roots -> Seq(Files)]]
    /\ Probing \in [SUBSET Vols -> [Roots -> SUBSET [id : Nat, name : STRING]]]
=============================================================================

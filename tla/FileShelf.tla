----------------------------- MODULE FileShelf ------------------------------
(***************************************************************************)
(* What the file pipeline promises about a course's indexed files, whoever *)
(* works on them and whatever crashes: a shelf of files and the bytes kept *)
(* for them.  A file is put on the shelf only when its bytes are kept and  *)
(* no file with the same bytes stands there; its bytes stay as long as it  *)
(* does; it is worked on until an outcome is written beside it; a file     *)
(* taken off never comes back.                                             *)
(***************************************************************************)
CONSTANTS File, ContentOf

VARIABLES shelf, kept

Outcome == {"ready", "stored", "failed"}
OnShelf(f) == shelf[f] \in {"pending"} \cup Outcome

ShelfInit ==
    /\ shelf = [f \in File |-> "absent"]
    /\ kept = {}

Keep(f) ==
    /\ shelf[f] = "absent"
    /\ kept' = kept \cup {f}
    /\ UNCHANGED shelf

Discard(f) ==
    /\ ~OnShelf(f)
    /\ kept' = kept \ {f}
    /\ UNCHANGED shelf

Add(f) ==
    /\ shelf[f] = "absent" /\ f \in kept
    /\ \A g \in File : OnShelf(g) => ContentOf[g] # ContentOf[f]
    /\ shelf' = [shelf EXCEPT ![f] = "pending"]
    /\ UNCHANGED kept

Settle(f) ==
    /\ shelf[f] = "pending"
    /\ \E o \in Outcome : shelf' = [shelf EXCEPT ![f] = o]
    /\ UNCHANGED kept

Reopen(f) ==
    /\ shelf[f] \in Outcome
    /\ shelf' = [shelf EXCEPT ![f] = "pending"]
    /\ UNCHANGED kept

Remove(f) ==
    /\ OnShelf(f)
    /\ shelf' = [shelf EXCEPT ![f] = "gone"]
    /\ UNCHANGED kept

ShelfNext ==
    \E f \in File : \/ Keep(f) \/ Discard(f) \/ Add(f)
                    \/ Settle(f) \/ Reopen(f) \/ Remove(f)

ShelfSpec == ShelfInit /\ [][ShelfNext]_<<shelf, kept>>

(* Whatever is on the shelf is eventually dealt with. *)
FairShelfSpec ==
    ShelfSpec /\ \A f \in File : WF_<<shelf, kept>>(Settle(f))
=============================================================================

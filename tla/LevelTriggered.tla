--------------------------- MODULE LevelTriggered ---------------------------
(***************************************************************************)
(* What a level-triggered status controller promises its readers. For      *)
(* every object it knows what the inputs ask to be recorded now and what   *)
(* is recorded; between the two stands the work that is still due. An      *)
(* object nobody has work for shows the truth, and work is forgotten only  *)
(* together with its object.                                               *)
(***************************************************************************)
CONSTANTS
    Keys,   \* names of the objects
    Gone    \* wanted of, and recorded for, an object that does not exist

VARIABLES
    want,   \* key -> what the inputs ask for now
    have,   \* key -> what is recorded
    due     \* keys the controller has still to deal with

vars == <<want, have, due>>

Init == \A k \in Keys \ due : have[k] = want[k]

Untouched(k) == want'[k] = want[k] /\ have'[k] = have[k]

\* Inputs change, an attempt fails, or a write is made that has still to be
\* confirmed: whatever is touched is due afterwards. Work is dropped only for
\* objects that do not exist.
Change ==
    /\ \A k \in Keys \ due' : Untouched(k)
    /\ \A k \in due \ due' : want'[k] = Gone /\ have'[k] = Gone

\* The work for k is done, and what is recorded is what is wanted.
Settle(k) ==
    /\ k \in due
    /\ due' = due \ {k}
    /\ have'[k] = want'[k]
    /\ want'[k] = want[k]
    /\ \A j \in Keys \ {k} : Untouched(j)

Next == Change \/ \E k \in Keys : Settle(k)

Spec == Init /\ [][Next]_vars

=============================================================================

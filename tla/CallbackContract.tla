-------------------------- MODULE CallbackContract --------------------------
(***************************************************************************)
(* What MediaControlManager may expect of the callback of a request        *)
(* (MediaControlManager.java:75-82), whatever goes on in the native code:  *)
(* it is refused at once, or kept until it is answered, or dropped; and    *)
(* whatever became of it is final.                                         *)
(***************************************************************************)
CONSTANT Requests
VARIABLE phase

Phases == {"new", "waiting", "refused", "answered", "dropped"}

TypeOK == phase \in [Requests -> Phases]

Init == phase = [r \in Requests |-> "new"]

Move(r, from, to) ==
    /\ phase[r] = from
    /\ phase' = [phase EXCEPT ![r] = to]

\* A stop drops every callback that waits, except the one being answered.
DropMany(S) ==
    /\ \A r \in S : phase[r] = "waiting"
    /\ phase' = [r \in Requests |-> IF r \in S THEN "dropped" ELSE phase[r]]

Next ==
    \/ \E r \in Requests :
          \/ Move(r, "new", "waiting") \/ Move(r, "new", "refused")
          \/ Move(r, "new", "dropped") \/ Move(r, "waiting", "answered")
    \/ \E S \in SUBSET Requests : DropMany(S)

Spec == Init /\ [][Next]_phase
=============================================================================

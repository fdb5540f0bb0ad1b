--------------------------- MODULE TransitionSlot ---------------------------
(***************************************************************************)
(* What the setup service promises its callers: one exclusive slot for     *)
(* everything that changes the network or its stored profiles.  A request  *)
(* reserves the free slot, may begin radio work while it holds it, and     *)
(* gives slot and work up together.  Once closed, the slot is never        *)
(* reserved again and no reserved request begins work.                     *)
(***************************************************************************)
CONSTANT Requests

VARIABLES holders,   \* the request that holds the slot, as a set
          working,   \* the request whose radio work is running, as a set
          closed     \* the service is stopping

Init ==
    /\ holders = {}
    /\ working = {}
    /\ closed = FALSE

Reserve(r) ==
    /\ ~closed
    /\ holders = {}
    /\ holders' = {r}
    /\ UNCHANGED <<working, closed>>

Begin(r) ==
    /\ ~closed
    /\ holders = {r}
    /\ working = {}
    /\ working' = {r}
    /\ UNCHANGED <<holders, closed>>

Release(r) ==
    /\ holders = {r}
    /\ holders' = {}
    /\ working' = {}
    /\ UNCHANGED closed

\* Closing cancels a reservation whose work has not begun.
Close ==
    /\ ~closed
    /\ closed' = TRUE
    /\ holders' = holders \/ (working = {} /\ holders' = {})
    /\ UNCHANGED working

Next == Close \/ \E r \in Requests : Reserve(r) \/ Begin(r) \/ Release(r)

Spec == Init /\ [][Next]_<<holders, working, closed>>
=============================================================================

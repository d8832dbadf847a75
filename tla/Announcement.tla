--------------------------- MODULE Announcement ---------------------------
(***************************************************************************)
(* What the plan-ready path promises the client, without jobs, handlers or *)
(* claims: the posts of an approved month get done one step at a time, and *)
(* once all of them are done the month is announced, once.                 *)
(***************************************************************************)
EXTENDS Naturals

CONSTANT Posts

VARIABLES done, announced

Init == done = {} /\ announced = 0

\* Some more posts are written, fail for good, or are removed.
Settle ==
  /\ done' \in SUBSET Posts /\ done \subseteq done' /\ done' # done
  /\ UNCHANGED announced

Announce ==
  /\ done = Posts /\ announced = 0
  /\ announced' = 1
  /\ UNCHANGED done

Spec == Init /\ [][Settle \/ Announce]_<<done, announced>>

=============================================================================

------------------------------ MODULE TaskPool ------------------------------
(***************************************************************************)
(* What the timing engine expects of its thread pool: a client submits a   *)
(* batch of tasks, the pool executes each of them exactly once in any      *)
(* order, and the client gets control back only when nothing it submitted  *)
(* is left to do.  DispatchQueue is shown to implement this specification, *)
(* and the parallel breadth first search is built on it.                   *)
(***************************************************************************)
CONSTANT Tasks          (* identities of the closures that are submitted   *)

VARIABLES
  submitted,            (* tasks handed to the pool so far                 *)
  executed,             (* tasks whose body has returned                   *)
  open                  (* the client is between its first submit and the  *)
                        (* return from the wait for the batch              *)

vars == <<submitted, executed, open>>

Init ==
  /\ submitted = {}
  /\ executed = {}
  /\ open = FALSE

Submit(t) ==
  /\ t \in Tasks \ submitted
  /\ submitted' = submitted \cup {t}
  /\ open' = TRUE
  /\ UNCHANGED executed

Execute(t) ==
  /\ t \in submitted \ executed
  /\ executed' = executed \cup {t}
  /\ UNCHANGED <<submitted, open>>

Return ==
  /\ executed = submitted
  /\ open' = FALSE
  /\ UNCHANGED <<submitted, executed>>

Next ==
  \/ \E t \in Tasks : Submit(t) \/ Execute(t)
  \/ Return

Spec == Init /\ [][Next]_vars
=============================================================================

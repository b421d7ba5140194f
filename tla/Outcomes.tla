------------------------------ MODULE Outcomes ------------------------------
(***************************************************************************)
(* C functions that return 0 or an errno and change state on the way.      *)
(*                                                                         *)
(* Such a function is modelled by an operator F(st, ..) that returns the   *)
(* set of its possible outcomes when it is called in state st: the state   *)
(* it leaves behind and whether it returned 0.  A SAI call that fails in   *)
(* the middle is an outcome of its own, so that a caller's early return    *)
(* (ERRNO_EXIT) and an error it only logs (ERRNO_LOG) are told apart.      *)
(***************************************************************************)

Done(st) == [ok |-> TRUE, st |-> st]
Failed(st) == [ok |-> FALSE, st |-> st]

\* "ERRNO_EXIT(status)" after a call with outcomes S: Rest runs where the call
\* succeeded, where it failed the caller returns.
Then(S, Rest(_)) == UNION {IF o.ok THEN Rest(o.st) ELSE {o} : o \in S}

\* "ERRNO_LOG(status)", or no look at the status: Rest runs in any case.
Regardless(S, Rest(_)) == UNION {Rest(o.st) : o \in S}

=============================================================================

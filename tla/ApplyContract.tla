--------------------------- MODULE ApplyContract ---------------------------
(***************************************************************************)
(* What carrying out a plan promises, whatever order it is walked in: a    *)
(* set of operations, each with prerequisites; at most one verdict each;   *)
(* an attempt only after the prerequisites succeeded; an operation given   *)
(* up only because a prerequisite did not.  Apply implements it.           *)
(***************************************************************************)
CONSTANT Ops

VARIABLES needs,     \* operation -> the operations it waits for
          status,    \* the verdict of every operation, see Apply
          written,   \* the operations the target has carried out
          returned   \* the run is over

cvars == <<needs, status, written, returned>>

Verdicts == {"none", "not_attempted", "applied", "failed", "blocked"}

Ready(op) == \A p \in needs[op] : status[p] \in {"none", "applied"}

CInit ==
  /\ needs \in [Ops -> SUBSET Ops]
  /\ status \in [Ops -> {"none", "not_attempted"}]
  /\ written = {}
  /\ returned = FALSE

\* One operation is tried at the target, and what its failure rules out may be
\* given up in the same step.
Attempt(op) ==
  /\ status[op] = "not_attempted" /\ Ready(op)
  /\ status'[op] \in {"applied", "failed"}
  /\ written' \in {written, written \cup {op}}
  /\ status'[op] = "applied" => op \in written'
  /\ UNCHANGED <<needs, returned>>

GiveUp(op) ==
  /\ status[op] = "not_attempted"
  /\ status'[op] = "blocked"
  /\ \E p \in needs[op] : status'[p] \in {"failed", "blocked"}

\* The status map of all operations but those of `tried' changes by GiveUp only.
OthersGiveUp(tried) ==
  /\ status' \in [Ops -> Verdicts]
  /\ \A op \in Ops \ tried : status'[op] = status[op] \/ GiveUp(op)

Step ==
  /\ ~returned
  /\ \/ \E op \in Ops : OthersGiveUp({op}) /\ Attempt(op)
     \/ OthersGiveUp({}) /\ UNCHANGED <<needs, written, returned>>

Return ==
  /\ ~returned /\ returned' = TRUE
  /\ UNCHANGED <<needs, status, written>>

CNext == Step \/ Return

Spec == CInit /\ [][CNext]_cvars
=============================================================================

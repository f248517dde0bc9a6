----------------------------- MODULE FetchPromise -----------------------------
(***************************************************************************)
(* What the caller of a Fetcher (types.go) is promised: it returns, once,  *)
(* with data and perhaps warnings about parts of it, or with one failure.  *)
(***************************************************************************)
CONSTANTS
  Kinds,     \* the kinds of failure
  Sections   \* the parts of the data whose failure is only a warning

VARIABLES
  returned,  \* whether Fetch has returned
  outcome    \* what it returned: [kind, warned]

vars == <<returned, outcome>>

Outcomes ==
  [kind : {"ok"}, warned : SUBSET Sections] \cup [kind : Kinds, warned : {{}}]

Pending == [kind |-> "ok", warned |-> {}]

Init == returned = FALSE /\ outcome = Pending

Return ==
  /\ returned = FALSE
  /\ returned' = TRUE
  /\ outcome' \in Outcomes

Next == Return

Spec == Init /\ [][Next]_vars /\ WF_vars(Next)
===============================================================================

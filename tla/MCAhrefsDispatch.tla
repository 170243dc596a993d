-------------------------- MODULE MCAhrefsDispatch --------------------------
(* Values for model-checking AhrefsDispatch.                                *)
EXTENDS AhrefsDispatch

CONSTANTS j1, j2, i1

TwoJobs == {j1, j2}
OneInstance == {i1}

Saw(page, status, events, tunnel) ==
  [page |-> page, status |-> status, events |-> events, tunnel |-> tunnel]

\* A success on a flapping proxy, a block, a network that never came up, and a failure that
\* rotation cannot cure.
FourObservations ==
  {Saw("ok", "", TRUE, TRUE), Saw("none", "pending", TRUE, FALSE),
   Saw("none", "not_called", FALSE, FALSE), Saw("listError", "", TRUE, FALSE)}
=============================================================================

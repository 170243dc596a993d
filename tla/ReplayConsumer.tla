--------------------------- MODULE ReplayConsumer ---------------------------
(***************************************************************************)
(* What a tab relies on when it drains its replay: a queue accepts events  *)
(* until it is ended, a consumer posts what was accepted, in whatever      *)
(* batches it likes, and says it is done only when the queue has ended and *)
(* nothing accepted is left.  TabLifecycle uses its consumer in this way.  *)
(***************************************************************************)
EXTENDS Naturals

CONSTANT MaxEvents   \* bound: events of one tab

VARIABLES
    open,     \* the queue accepts events
    pending,  \* accepted and not yet posted
    done      \* the consumer has signalled its Deferred

vars == <<open, pending, done>>

Init == open = TRUE /\ pending = 0 /\ done = FALSE

Offer == open /\ pending < MaxEvents /\ pending' = pending + 1 /\ UNCHANGED <<open, done>>

End == open /\ open' = FALSE /\ UNCHANGED <<pending, done>>

Flush == pending' \in 0..(pending - 1) /\ UNCHANGED <<open, done>>

Finish == ~open /\ pending = 0 /\ ~done /\ done' = TRUE /\ UNCHANGED <<open, pending>>

Next == Offer \/ End \/ Flush \/ Finish

\* Once the queue has ended, the consumer gets to its end.
Spec == Init /\ [][Next]_vars /\ WF_vars(~open /\ (Flush \/ Finish))

=============================================================================

--------------------------- MODULE ReplayPipeline ---------------------------
(***************************************************************************)
(* tabConsumer: the fiber that takes the rrweb events of one tab from its  *)
(* queue, gathers them in batches and posts each batch to the replay       *)
(* server.  The first post creates the replay, the later ones append to    *)
(* it.  A post may fail; its batch is then given up.                       *)
(*                                                                         *)
(* Events are numbered in the order in which the queue accepted them.      *)
(***************************************************************************)
EXTENDS Naturals, Sequences

CONSTANTS
    BatchSize,  \* BATCH_SIZE
    MaxEvents   \* bound: events of one tab

ASSUME ReplayPipelineAssumption ==
    /\ BatchSize \in Nat \ {0}
    /\ MaxEvents \in Nat

VARIABLES
    queue,         \* the tab's queue
    ended,         \* Queue.end has been called
    offered,       \* events accepted so far
    accumulated,   \* taken and not yet in a batch
    batch,         \* the batch of the post under way
    replayCreated, \* the consumer believes the replay exists
    totalFlushed,  \* events the consumer counts as flushed
    at,            \* reading, posting or done
    exists,        \* the server has the replay
    stored         \* the events it holds

vars == <<queue, ended, offered, accumulated, batch, replayCreated, totalFlushed,
          at, exists, stored>>

serverVars == <<exists, stored>>

Events == 1..MaxEvents

TypeOK ==
    /\ queue \in Seq(Events) /\ accumulated \in Seq(Events) /\ batch \in Seq(Events)
    /\ ended \in BOOLEAN /\ replayCreated \in BOOLEAN /\ exists \in BOOLEAN
    /\ offered \in 0..MaxEvents /\ totalFlushed \in 0..MaxEvents
    /\ at \in {"reading", "posting", "done"}
    /\ stored \in Seq(Events)

Init ==
    /\ queue = <<>> /\ accumulated = <<>> /\ batch = <<>>
    /\ ended = FALSE /\ offered = 0
    /\ replayCreated = FALSE /\ totalFlushed = 0 /\ at = "reading"
    /\ exists = FALSE /\ stored = <<>>

-----------------------------------------------------------------------------

\* offerEvents, while the tab has its queue.
Offer ==
    /\ ~ended /\ offered < MaxEvents
    /\ offered' = offered + 1
    /\ queue' = Append(queue, offered + 1)
    /\ UNCHANGED <<ended, accumulated, batch, replayCreated, totalFlushed, at, serverVars>>

\* The finalizer of the tab's scope ends the queue.
End ==
    /\ ~ended
    /\ ended' = TRUE
    /\ UNCHANGED <<queue, offered, accumulated, batch, replayCreated, totalFlushed, at,
                   serverVars>>

\* flush: splice the gathered events and post them.
Flush(events) ==
    /\ batch' = events /\ accumulated' = <<>>
    /\ at' = "posting"

\* The stream takes the next event; a full batch is flushed before another.
Take ==
    /\ at = "reading" /\ queue # <<>>
    /\ queue' = Tail(queue)
    /\ LET events == Append(accumulated, Head(queue))
       IN  IF Len(events) >= BatchSize
           THEN Flush(events)
           ELSE accumulated' = events /\ UNCHANGED <<batch, at>>
    /\ UNCHANGED <<ended, offered, replayCreated, totalFlushed, serverVars>>

\* The post has been answered: stored, refused, or stored and the answer lost.
\* writeTabReplay creates the replay, appendTabEvents needs it.
Posted ==
    /\ at = "posting"
    /\ \E arrives \in BOOLEAN :
        /\ exists' = (exists \/ (arrives /\ ~replayCreated))
        /\ stored' = IF arrives /\ (exists \/ ~replayCreated) THEN stored \o batch ELSE stored
    /\ replayCreated' = TRUE
    /\ totalFlushed' = totalFlushed + Len(batch)
    /\ batch' = <<>> /\ at' = "reading"
    /\ UNCHANGED <<queue, ended, offered, accumulated>>

\* A faulty consumer: the last events are not flushed when the queue ends.
FinishAtOnce ==
    /\ at = "reading" /\ ended /\ queue = <<>>
    /\ at' = "done" /\ UNCHANGED <<accumulated, batch>>
    /\ UNCHANGED <<queue, ended, offered, replayCreated, totalFlushed, serverVars>>

\* The queue has ended and is empty: the final flush, then the Deferred.
Finish ==
    /\ at = "reading" /\ ended /\ queue = <<>>
    /\ IF accumulated # <<>>
       THEN Flush(accumulated)
       ELSE at' = "done" /\ UNCHANGED <<accumulated, batch>>
    /\ UNCHANGED <<queue, ended, offered, replayCreated, totalFlushed, serverVars>>

Rest == at = "done" /\ UNCHANGED vars

Next == Offer \/ End \/ Take \/ Posted \/ Finish \/ Rest

\* The consumer's fiber is scheduled, and a post is answered or times out.
Spec == Init /\ [][Next]_vars /\ WF_vars(Take) /\ WF_vars(Posted) /\ WF_vars(Finish)

-----------------------------------------------------------------------------

\* The events the consumer has counted as flushed are all those that left it:
\* nothing accepted is dropped between the queue and a post, and nothing is
\* counted twice.
CountsEveryEvent ==
    offered = Len(queue) + Len(accumulated) + Len(batch) + totalFlushed

\* The consumer does what the tab's scope relies on.
Consumer == INSTANCE ReplayConsumer WITH
    open <- ~ended,
    pending <- Len(queue) + Len(accumulated) + Len(batch),
    done <- (at = "done")

ConsumerSpec == Consumer!Spec

=============================================================================

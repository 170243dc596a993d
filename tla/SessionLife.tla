---------------------------- MODULE SessionLife ----------------------------
(***************************************************************************)
(* What the session server promises of every session whose directory is    *)
(* its own, without launcher, registry, tasks and callers: it is listed at *)
(* most once, and once its destruction has begun nothing ends it but the   *)
(* attempt to remove its directory, which may leave the directory behind.  *)
(* Only the end of a shutdown forgets sessions, those that were listed     *)
(* after its snapshot.                                                     *)
(***************************************************************************)
CONSTANTS Sessions

VARIABLES
    life,   \* where each session stands
    up      \* the server's shutdown is not over

vars == <<life, up>>

Stations ==
    {"absent", "launching", "failed", "listed", "ending", "removed", "left", "forgotten"}

TypeOK == life \in [Sessions -> Stations] /\ up \in BOOLEAN

Init == life = [s \in Sessions |-> "absent"] /\ up = TRUE

At(p) == {s \in Sessions : life[s] = p}

Move(S, to) == life' = [s \in Sessions |-> IF s \in S THEN to ELSE life[s]]

Launch(s) == life[s] = "absent" /\ Move({s}, "launching") /\ UNCHANGED up

\* Chrome does not start, or a hook rejects: nobody will hear of the session.
Fail(s) == life[s] = "launching" /\ Move({s}, "failed") /\ UNCHANGED up

List(s) == life[s] = "launching" /\ Move({s}, "listed") /\ UNCHANGED up

\* What can be destroyed: what is listed, and what a caller had found before it was
\* forgotten or left.
Found == At("listed") \cup At("forgotten") \cup At("left")

Destroy(S) == S \subseteq Found /\ Move(S, "ending") /\ UNCHANGED up

\* The removal of the directory succeeds, or fails and is not repeated.
Clean(s) ==
    life[s] = "ending" /\ (Move({s}, "removed") \/ Move({s}, "left")) /\ UNCHANGED up

ShutDown == up /\ up' = FALSE /\ Move(At("listed"), "forgotten")

Next ==
    \/ \E s \in Sessions : Launch(s) \/ Fail(s) \/ List(s) \/ Clean(s)
    \/ \E S \in SUBSET Found : Destroy(S)
    \/ ShutDown

Spec == Init /\ [][Next]_vars
=============================================================================

--------------------------- MODULE ChallengeLife ---------------------------
(***************************************************************************)
(* What a client may rely on about the Cloudflare challenges of one page:  *)
(* one at a time, each settled at most once, nothing reported as failed    *)
(* that was not, no widget detected where one was solved, and all quiet    *)
(* after the session.  How fibers, timers, navigations and pushes get      *)
(* there is CfDetection's business, which is shown to implement this.      *)
(***************************************************************************)
EXTENDS Naturals, Sequences

VARIABLES
    challenges, \* the challenges of the page, in the order they were detected
    over        \* the session's solver is gone

vars == <<challenges, over>>

Kinds == {"turnstile", "interstitial"}

Init == challenges = <<>> /\ over = FALSE

AnyLive == \E i \in DOMAIN challenges : challenges[i].live

\* A solved widget goes on spawning iframes, which are no challenge.
Spent(kind) ==
    \E i \in DOMAIN challenges :
        kind = "turnstile" /\ challenges[i].kind = kind /\ challenges[i].outcome = "solved"

\* A challenge is detected, to be solved or given up at once.
Appears(kind, hopeless) ==
    /\ ~over /\ ~AnyLive /\ ~Spent(kind)
    /\ challenges' = Append(challenges,
            [kind |-> kind, live |-> ~hopeless, told |-> {},
             outcome |-> IF hopeless THEN "failed" ELSE "pending"])
    /\ UNCHANGED over

\* One challenge, before and after a step.
Later(c, d) ==
    /\ d.kind = c.kind
    /\ d.live => c.live
    /\ c.outcome # "pending" => d.outcome = c.outcome
    /\ c.told \subseteq d.told
    /\ "failed" \in d.told => d.outcome = "failed"
    /\ over => d.told = c.told

\* Challenges are settled, reported and dropped; the end of the session drops them all.
GoOn ==
    /\ Len(challenges') = Len(challenges)
    /\ \A i \in DOMAIN challenges : Later(challenges[i], challenges'[i])
    /\ over => over'
    /\ over' => ~AnyLive'

Next == GoOn \/ \E kind \in Kinds, hopeless \in BOOLEAN : Appears(kind, hopeless)

Spec == Init /\ [][Next]_vars
=============================================================================

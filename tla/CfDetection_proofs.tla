------------------------ MODULE CfDetection_proofs ------------------------
(***************************************************************************)
(* The safety properties of the solver's detections on a page, for any     *)
(* number of detections and signals and any limits of the code.            *)
(* Each step is also one of ChallengeLife, or leaves it alone.             *)
(***************************************************************************)
EXTENDS CfDetection, TLAPS

DetRec ==
  [type : {"turnstile", "interstitial"}, via : {"url", "dom", "bridge"},
   rechallenges : 0 .. MaxRechallenges - 1, attempt : 1 .. MaxAttempts,
   scope : {"open", "closed"}, aborted : BOOLEAN, resolved : BOOLEAN,
   outcome : {"pending", "solved", "failed"},
   cosmetic : BOOLEAN, clicked : BOOLEAN, rejected : BOOLEAN,
   oopif : {"unbound", "bound", "cleared"},
   solver : {"none", "dispatching", "racing", "done", "interrupted"},
   watchers : SUBSET {"stuck", "rejection"},
   told : SUBSET {"solved", "failed"}]

PageRec ==
  [known : BOOLEAN, solved : BOOLEAN, autoSolved : BOOLEAN, bridged : BOOLEAN,
   iframe : BOOLEAN, rechallenges : 0 .. MaxRechallenges - 1,
   reloads : 0 .. MaxWidgetReloads, rejections : 0 .. MaxClickRetries]

Refs == {None} \cup DOMAIN detections
FiberRec ==
  [pc : {"idle", "frame", "poll", "detect", "dispatch", "grace", "race", "restart"}, d : Refs]
NavRec == [pc : {"idle", "classifying", "waiting"}, d : Refs, to : Destinations]

\* The type invariant, part by part.
LEMMA Types ==
  TypeOK <=> /\ detections \in Seq(DetRec) /\ Len(detections) <= MaxDetections
             /\ registered \in Refs
             /\ page \in PageRec /\ fiber \in FiberRec /\ nav \in [Events -> NavRec]
             /\ stop \in {"open", "yielded", "closed"}
             /\ enabled \in BOOLEAN /\ destroyed \in BOOLEAN
             /\ signals \in 0 .. MaxSignals
  BY DEF TypeOK, DetRec, PageRec, Refs, FiberRec, NavRec

-----------------------------------------------------------------------------
(* What every function on a detection keeps.                               *)

\* What is true of a detection at any time: a report of failure is the truth, a turnstile
\* has no solver of its own, and an open scope is neither aborted nor resolved.
DetInv(r) ==
  /\ "failed" \in r.told => r.outcome = "failed"
  /\ r.type = "turnstile" => r.solver = "none"
  /\ r.scope = "open" => ~r.aborted /\ ~r.resolved

\* From r to s: still that detection, with its invariant, not opened again, settled only
\* once, and told more, if anybody is there to hear it.
Becomes(r, s) ==
  /\ s \in DetRec /\ DetInv(s)
  /\ s.type = r.type
  /\ s.scope = "open" => r.scope = "open"
  /\ r.outcome # "pending" => s.outcome = r.outcome
  /\ r.told \subseteq s.told /\ (destroyed => s.told = r.told)

LEMMA SettledKeeps ==
  ASSUME NEW r \in DetRec, DetInv(r), NEW o \in {"solved", "failed"}
  PROVE  /\ Becomes(r, Settled(r, o))
         /\ Settled(r, o).outcome = IF r.outcome = "pending" THEN o ELSE r.outcome
         /\ Settled(r, o).scope = r.scope /\ Settled(r, o).aborted = r.aborted
         /\ Settled(r, o).resolved = r.resolved /\ Settled(r, o).told = r.told
  <1>1. CASE r.outcome = "pending" BY <1>1 DEF Settled, DetRec, DetInv, Becomes
  <1>2. CASE r.outcome # "pending" BY <1>2 DEF Settled, Becomes
  <1> QED BY <1>1, <1>2

LEMMA ClosedKeeps ==
  ASSUME NEW r \in DetRec,
         "failed" \in r.told => r.outcome = "failed",
         r.type = "turnstile" => r.solver = "none"
  PROVE  /\ Becomes(r, Closed(r)) /\ Closed(r).scope = "closed"
         /\ Closed(r).outcome = r.outcome /\ Closed(r).resolved = r.resolved
         /\ Closed(r).attempt = r.attempt /\ Closed(r).told = r.told
         /\ Closed(r).solver = "none" <=> r.solver = "none"
  <1> DEFINE solver == IF r.solver \in {"dispatching", "racing"} THEN "interrupted" ELSE r.solver
  <1>1. CASE r.scope = "closed" BY <1>1 DEF Closed, Becomes, DetInv
  <1>2. CASE r.scope # "closed"
    <2>1. Closed(r) = [r EXCEPT !.scope = "closed", !.watchers = {}, !.oopif = "unbound",
                                !.clicked = FALSE, !.solver = solver]
      BY <1>2 DEF Closed
    <2>2. solver \in {"none", "dispatching", "racing", "done", "interrupted"} BY DEF DetRec
    <2>3. solver = "none" <=> r.solver = "none" OBVIOUS
    <2> HIDE DEF solver
    <2>4. Closed(r) \in DetRec BY <2>1, <2>2 DEF DetRec
    <2>5. /\ Closed(r).scope = "closed" /\ Closed(r).type = r.type
          /\ Closed(r).solver = solver /\ Closed(r).told = r.told
          /\ Closed(r).outcome = r.outcome /\ Closed(r).resolved = r.resolved
          /\ Closed(r).attempt = r.attempt
      BY <2>1 DEF DetRec
    <2> QED BY <2>3, <2>4, <2>5 DEF Becomes, DetInv
  <1> QED BY <1>1, <1>2 DEF DetRec

LEMMA AbortedKeeps ==
  ASSUME NEW r \in DetRec, DetInv(r)
  PROVE  /\ Becomes(r, Aborted(r)) /\ Aborted(r).scope = "closed"
         /\ Aborted(r).outcome = r.outcome /\ Aborted(r).attempt = r.attempt
         /\ Aborted(r).told = r.told /\ Aborted(r).aborted
  <1>1. CASE r.aborted BY <1>1 DEF Aborted, Becomes, DetInv, DetRec
  <1>2. CASE ~r.aborted
    <2> DEFINE s == [r EXCEPT !.aborted = TRUE]
    <2>1. /\ s \in DetRec /\ s.told = r.told /\ s.outcome = r.outcome /\ s.type = r.type
          /\ s.solver = r.solver /\ s.attempt = r.attempt /\ s.scope = r.scope /\ s.aborted
      BY DEF DetRec
    <2>2. Aborted(r) = Closed(s) BY <1>2 DEF Aborted
    <2> HIDE DEF s
    <2>3. /\ Becomes(s, Closed(s)) /\ Closed(s).scope = "closed"
          /\ Closed(s).outcome = s.outcome /\ Closed(s).attempt = s.attempt
          /\ Closed(s).told = s.told
      BY <2>1, ClosedKeeps DEF DetInv
    <2>4. Closed(s).aborted BY <2>1 DEF Closed, DetRec
    <2> QED BY <2>1, <2>2, <2>3, <2>4 DEF Becomes
  <1> QED BY <1>1, <1>2

LEMMA ResolvedKeeps ==
  ASSUME NEW r \in DetRec, DetInv(r)
  PROVE  /\ Becomes(r, Resolved(r)) /\ Resolved(r).scope = "closed"
         /\ Resolved(r).outcome = r.outcome /\ Resolved(r).told = r.told
  <1>1. CASE r.resolved BY <1>1 DEF Resolved, Becomes, DetInv, DetRec
  <1>2. CASE ~r.resolved
    <2> DEFINE s == [r EXCEPT !.resolved = TRUE]
    <2>1. /\ s \in DetRec /\ s.told = r.told /\ s.outcome = r.outcome /\ s.type = r.type
          /\ s.solver = r.solver /\ s.scope = r.scope
      BY DEF DetRec
    <2>2. Resolved(r) = Closed(s) BY <1>2 DEF Resolved
    <2> HIDE DEF s
    <2> QED BY <2>1, <2>2, ClosedKeeps DEF DetInv, Becomes
  <1> QED BY <1>1, <1>2

LEMMA ToldKeeps ==
  ASSUME NEW r \in DetRec, DetInv(r), NEW o \in {"solved", "failed"},
         o = "failed" => r.outcome = "failed"
  PROVE  /\ Becomes(r, Told(r, o))
         /\ Told(r, o).outcome = r.outcome /\ Told(r, o).scope = r.scope
         /\ Told(r, o).aborted = r.aborted /\ Told(r, o).resolved = r.resolved
         /\ destroyed \/ o \in Told(r, o).told
  <1>1. CASE destroyed BY <1>1 DEF Told, Becomes
  <1>2. CASE ~destroyed
    <2>1. Told(r, o) = [r EXCEPT !.told = r.told \cup {o}] BY <1>2 DEF Told
    <2>2. Told(r, o) \in DetRec BY <2>1 DEF DetRec
    <2>3. /\ Told(r, o).told = r.told \cup {o} /\ Told(r, o).outcome = r.outcome
          /\ Told(r, o).type = r.type /\ Told(r, o).solver = r.solver
          /\ Told(r, o).scope = r.scope /\ Told(r, o).aborted = r.aborted
          /\ Told(r, o).resolved = r.resolved
      BY <2>1 DEF DetRec
    <2> QED BY <1>2, <2>2, <2>3 DEF Becomes, DetInv
  <1> QED BY <1>1, <1>2

\* One after the other.
LEMMA BecomesBoth ==
  ASSUME NEW r, NEW s, NEW u, Becomes(r, s), Becomes(s, u)
  PROVE  Becomes(r, u)
  BY DEF Becomes

LEMMA RacedKeeps ==
  ASSUME NEW r \in DetRec, DetInv(r)
  PROVE  /\ Becomes(r, Raced(r)) /\ Raced(r).scope = "closed"
         /\ Raced(r).outcome = IF r.outcome = "pending" THEN "failed" ELSE r.outcome
         /\ destroyed \/ Raced(r).outcome \in Raced(r).told
  <1> DEFINE s == Settled(r, "failed")
             u == Told(s, s.outcome)
  <1>1. Becomes(r, s) /\ s.outcome = IF r.outcome = "pending" THEN "failed" ELSE r.outcome
    BY SettledKeeps
  <1>2. s.outcome \in {"solved", "failed"} BY <1>1 DEF DetRec
  <1>3. Raced(r) = Resolved(u) BY DEF Raced
  <1> HIDE DEF s
  <1>4. /\ Becomes(s, u) /\ u.outcome = s.outcome
        /\ destroyed \/ s.outcome \in u.told
    BY <1>1, <1>2, ToldKeeps DEF Becomes
  <1> HIDE DEF u
  <1>5. /\ Becomes(u, Resolved(u)) /\ Resolved(u).scope = "closed"
        /\ Resolved(u).outcome = u.outcome /\ Resolved(u).told = u.told
    BY <1>4, ResolvedKeeps DEF Becomes
  <1> QED BY <1>1, <1>3, <1>4, <1>5, BecomesBoth

LEMMA UnregisteredKeeps ==
  ASSUME NEW r \in DetRec, DetInv(r)
  PROVE  /\ Becomes(r, Unregistered(r)) /\ Unregistered(r).scope = "closed"
         /\ Unregistered(r).outcome = "solved" => r.outcome = "solved"
  <1>1. CASE r.resolved BY <1>1, ClosedKeeps DEF Unregistered, DetInv
  <1>2. CASE ~r.resolved /\ r.outcome # "pending" BY <1>2, ResolvedKeeps DEF Unregistered
  <1>3. CASE ~r.resolved /\ r.outcome = "pending"
    <2> DEFINE s == Settled(r, "failed")
               u == Told(s, "failed")
    <2>1. Becomes(r, s) /\ s.outcome = "failed" BY <1>3, SettledKeeps
    <2>2. Unregistered(r) = Resolved(u) BY <1>3 DEF Unregistered
    <2> HIDE DEF s
    <2>3. Becomes(s, u) /\ u.outcome = "failed" BY <2>1, ToldKeeps DEF Becomes
    <2> HIDE DEF u
    <2>4. Becomes(u, Resolved(u)) /\ Resolved(u).scope = "closed" /\ Resolved(u).outcome = u.outcome
      BY <2>3, ResolvedKeeps DEF Becomes
    <2> QED BY <2>1, <2>2, <2>3, <2>4, BecomesBoth
  <1> QED BY <1>1, <1>2, <1>3

\* The finalizer that runs when nobody is left to hear of it.
LEMMA OrphanedKeeps ==
  ASSUME NEW r \in DetRec, DetInv(r)
  PROVE  /\ Becomes(r, Orphaned(r, FALSE)) /\ Orphaned(r, FALSE).scope = "closed"
         /\ Orphaned(r, FALSE).outcome = "solved" => r.outcome = "solved"
  <1>1. CASE r.resolved \/ r.aborted BY <1>1, ClosedKeeps DEF Orphaned, DetInv
  <1>2. CASE ~(r.resolved \/ r.aborted)
    <2> DEFINE s == [r EXCEPT !.aborted = TRUE]
               u == Settled(s, "failed")
    <2>1. /\ s \in DetRec /\ s.told = r.told /\ s.outcome = r.outcome /\ s.type = r.type
          /\ s.solver = r.solver /\ s.scope = r.scope
      BY DEF DetRec
    <2>2. Orphaned(r, FALSE) = Closed(u) BY <1>2 DEF Orphaned
    <2> HIDE DEF s
    <2>3. /\ u \in DetRec /\ u.told = r.told /\ u.type = r.type /\ u.solver = r.solver
          /\ u.scope = r.scope
          /\ u.outcome = IF r.outcome = "pending" THEN "failed" ELSE r.outcome
      BY <2>1 DEF Settled, DetRec
    <2> HIDE DEF u
    <2>4. /\ "failed" \in u.told => u.outcome = "failed"
          /\ u.type = "turnstile" => u.solver = "none"
      BY <2>3 DEF DetInv
    <2>5. Becomes(u, Closed(u)) /\ Closed(u).scope = "closed" /\ Closed(u).outcome = u.outcome
      BY <2>3, <2>4, ClosedKeeps
    <2>6. u.outcome = "solved" => r.outcome = "solved" BY <2>3
    <2> QED BY <2>2, <2>3, <2>5, <2>6 DEF Becomes
  <1> QED BY <1>1, <1>2

-----------------------------------------------------------------------------
(* The inductive invariant.                                                *)

Looking == {"frame", "poll", "detect"}
Handling == {"dispatch", "grace", "race"}

\* The registry has the one detection whose scope is open.
DetsInv ==
  \A i \in DOMAIN detections :
    /\ DetInv(detections[i])
    /\ detections[i].scope = "open" <=> registered = i

\* A session that is over has no detection and no fiber.
OverInv == destroyed => registered = None /\ fiber = Idle

\* A solved turnstile has its page's fiber until the client is told.
ToldInv ==
  \A i \in DOMAIN detections :
    stop = "open" /\ ~destroyed /\ UntoldSolve(i) => fiber.d = i /\ fiber.pc \in Handling

\* A fiber past the search has its detection; it waits to reload the page only while a
\* reload is left; and no fiber outlives the stop of its tab.
FiberInv ==
  /\ fiber.pc \in Handling \cup {"restart"} => fiber.d \in DOMAIN detections
  /\ fiber.pc = "grace" => page.reloads < MaxWidgetReloads
  /\ stop = "closed" => fiber = Idle

\* What a navigation is about to judge is an interstitial.
NavInv ==
  \A e \in Events : nav[e].pc = "classifying" =>
    nav[e].d \in DOMAIN detections /\ detections[nav[e].d].type = "interstitial"

Turnstile(i) == i \in DOMAIN detections /\ detections[i].type = "turnstile"
SolvedTurnstile(i) == Turnstile(i) /\ detections[i].outcome = "solved"

\* A registered turnstile has the page's fiber, also while the tab is being stopped.
AliveInv ==
  stop # "closed" /\ Turnstile(registered) => fiber.d = registered /\ fiber.pc \in Handling

\* Once a turnstile is solved, its page is so marked, and no fiber is looking for another.
SolvedInv ==
  (\E i \in DOMAIN detections : SolvedTurnstile(i)) =>
    /\ stop = "open" /\ ~destroyed => page.solved
    /\ fiber.pc \notin Looking

Inv == TypeOK /\ DetsInv /\ FiberInv /\ NavInv /\ AliveInv /\ SolvedInv /\ OverInv /\ ToldInv

LEMMA InvInit == Init => Inv
  <1> SUFFICES ASSUME Init PROVE Inv
    OBVIOUS
  <1> USE BoundsAreCounts DEF BoundsAreCounts
  <1>1. detections = <<>> /\ DOMAIN detections = {} BY DEF Init
  <1>2. 0 \in 0 .. MaxRechallenges - 1 /\ 0 \in 0 .. MaxWidgetReloads
        /\ 0 \in 0 .. MaxClickRetries /\ 0 \in 0 .. MaxSignals /\ 0 <= MaxDetections
    OBVIOUS
  <1>3. page \in PageRec BY <1>2 DEF Init, NewPage, PageRec
  <1>4. fiber \in FiberRec /\ nav \in [Events -> NavRec] /\ registered \in Refs
    BY <1>1 DEF Init, Idle, NoNav, FiberRec, NavRec, Refs, Destinations
  <1>5. detections \in Seq(DetRec) /\ Len(detections) <= MaxDetections BY <1>1, <1>2
  <1>6. TypeOK BY <1>2, <1>3, <1>4, <1>5, Types DEF Init
  <1> QED
    BY <1>1, <1>6
       DEF Inv, DetsInv, FiberInv, NavInv, AliveInv, SolvedInv, OverInv, ToldInv, Turnstile,
           Init, Idle, NoNav, Handling

-----------------------------------------------------------------------------
(* What a step must show.                                                  *)

\* The page's fiber: it stays, starts anew where startDetectionFiber lets it, goes on
\* looking, goes on with its detection, or is done.
FiberGoes ==
  \/ fiber' = fiber
  \/ /\ fiber' = [pc |-> "frame", d |-> None]
     /\ stop = "open" /\ ~destroyed /\ registered' = None /\ ~page'.solved
  \/ fiber.pc \in Looking /\ fiber'.pc \in Looking \cup {"idle"}
  \/ fiber.pc \in Handling /\ fiber'.pc \in Handling /\ fiber'.d = fiber.d
  \/ /\ fiber.pc \in Handling \cup {"restart"} /\ fiber'.pc \in {"idle", "restart"}
     /\ fiber'.d \in DOMAIN detections \/ fiber'.pc = "idle"
     /\ fiber.pc \in Handling =>
          registered' # fiber.d /\ (destroyed \/ \A k : k = fiber.d => ~UntoldSolve(k)')

\* No page loses the mark of its solve.
PageKeeps ==
  /\ page.solved => page'.solved
  /\ fiber'.pc = "grace" => page'.reloads < MaxWidgetReloads

NavKeeps ==
  \A e \in Events :
    nav'[e].pc = "classifying" =>
      nav'[e].d \in DOMAIN detections /\ detections[nav'[e].d].type = "interstitial"

\* A turnstile is solved while it is registered, and the page is marked in the same step.
SolvesMarked ==
  \A i \in DOMAIN detections :
    /\ detections[i].type = "turnstile"
    /\ detections[i].outcome # "solved" /\ detections'[i].outcome = "solved"
    => registered = i /\ page'.solved /\ fiber' = fiber

\* Every step keeps the invariant and is one in the life of the page's challenges.
Goes == Inv' /\ [Challenge!Next]_Challenge!vars

\* Those are the detections as the client knows them.
Seen == [i \in DOMAIN detections |-> View(detections[i])]

LEMMA SeenIs ==
  ASSUME detections \in Seq(DetRec)
  PROVE  Len(Seen) = Len(detections) /\ DOMAIN Seen = DOMAIN detections
  BY DEF Seen

\* A step that registers nothing lets the challenges go on.
LEMMA ChallengesGoOn ==
  ASSUME detections \in Seq(DetRec), detections' \in Seq(DetRec),
         Len(detections') = Len(detections),
         \A i \in DOMAIN detections : Becomes(detections[i], detections'[i]),
         destroyed => destroyed',
         destroyed' => \A i \in DOMAIN detections : detections'[i].scope # "open"
  PROVE  [Challenge!Next]_Challenge!vars
  <1>1. /\ DOMAIN detections' = DOMAIN detections
        /\ Len(Seen') = Len(Seen) /\ DOMAIN Seen = DOMAIN detections
        /\ DOMAIN Seen' = DOMAIN detections
    BY DEF Seen
  <1>2. ASSUME NEW i \in DOMAIN detections
        PROVE  Challenge!Later(Seen[i], Seen'[i]) /\ Seen'[i].live = (detections'[i].scope = "open")
    <2>1. Seen[i] = View(detections[i]) /\ Seen'[i] = View(detections'[i])
      BY <1>1 DEF Seen
    <2>2. ASSUME NEW r PROVE /\ View(r).kind = r.type /\ View(r).live = (r.scope = "open")
                              /\ View(r).outcome = r.outcome /\ View(r).told = r.told
      BY DEF View
    <2>3. Becomes(detections[i], detections'[i]) OBVIOUS
    <2>4. Seen'[i].live = (detections'[i].scope = "open") BY <2>1, <2>2
    <2>5. Seen'[i].live => Seen[i].live BY <2>1, <2>2, <2>3 DEF Becomes
    <2> QED BY <2>1, <2>2, <2>3, <2>4, <2>5 DEF Challenge!Later, Becomes, DetInv
  <1>3. Challenge!GoOn
    BY <1>1, <1>2 DEF Challenge!GoOn, Challenge!AnyLive, Seen
  <1> QED BY <1>3 DEF Challenge!Next

\* A step that registers nothing.
LEMMA StepKeeps ==
  ASSUME Inv,
         detections' \in Seq(DetRec), Len(detections') = Len(detections),
         \A i \in DOMAIN detections : Becomes(detections[i], detections'[i]),
         Finalize, SolvesMarked,
         page' \in PageRec, fiber' \in FiberRec, nav' \in [Events -> NavRec],
         enabled' \in BOOLEAN, signals' \in 0 .. MaxSignals,
         UNCHANGED <<stop, destroyed>>,
         FiberGoes, PageKeeps, NavKeeps
  PROVE  Goes
  <1>1. /\ detections \in Seq(DetRec) /\ registered \in Refs /\ Len(detections) <= MaxDetections
        /\ stop \in {"open", "yielded", "closed"} /\ destroyed \in BOOLEAN
        /\ fiber \in FiberRec /\ page \in PageRec
    BY Types DEF Inv
  <1>2. DOMAIN detections' = DOMAIN detections BY <1>1
  <1>3. Refs' = Refs BY <1>2 DEF Refs
  <1>4. registered' \in {None, registered} BY DEF Finalize
  <1>5. TypeOK'
    <2>1. FiberRec' = FiberRec /\ NavRec' = NavRec BY <1>3 DEF FiberRec, NavRec
    <2>2. registered' \in Refs BY <1>1, <1>4 DEF Refs
    <2>3. detections' \in Seq(DetRec) /\ Len(detections') <= MaxDetections
          /\ registered' \in Refs' /\ page' \in PageRec /\ fiber' \in FiberRec'
          /\ nav' \in [Events -> NavRec'] /\ stop' \in {"open", "yielded", "closed"}
          /\ enabled' \in BOOLEAN /\ destroyed' \in BOOLEAN /\ signals' \in 0 .. MaxSignals
      BY <1>1, <1>3, <2>1, <2>2
    <2> QED BY <2>3 DEF TypeOK, DetRec, PageRec, Refs, FiberRec, NavRec
  <1>6. DetsInv'
    <2>1. ASSUME NEW i \in DOMAIN detections
          PROVE  detections'[i].scope = "open" <=> registered' = i
      <3>1. detections[i].scope = "open" <=> registered = i BY DEF Inv, DetsInv
      <3>2. i # None BY <1>1 DEF None
      <3>3. detections[i] \in DetRec /\ detections'[i] \in DetRec BY <1>1, <1>2
      <3>4. CASE \E k \in DOMAIN detections :
                    detections[k].scope = "open" /\ detections'[k].scope = "closed"
        <4>1. registered' = None BY <3>4 DEF Finalize
        <4>2. PICK k \in DOMAIN detections :
                detections[k].scope = "open" /\ detections'[k].scope = "closed"
          BY <3>4
        <4>3. registered = k BY <4>2 DEF Inv, DetsInv
        <4>4. detections'[i].scope # "open"
          BY <3>1, <4>2, <4>3 DEF Becomes
        <4> QED BY <3>2, <4>1, <4>4
      <3>5. CASE ~\E k \in DOMAIN detections :
                    detections[k].scope = "open" /\ detections'[k].scope = "closed"
        <4>1. registered' = registered BY <3>5 DEF Finalize
        <4>2. detections'[i].scope = "open" <=> detections[i].scope = "open"
          BY <3>3, <3>5 DEF Becomes, DetRec
        <4> QED BY <3>1, <4>1, <4>2
      <3> QED BY <3>4, <3>5
    <2> QED BY <1>2, <2>1 DEF DetsInv, Becomes
  <1>7. \A i \in DOMAIN detections : detections'[i].type = detections[i].type BY DEF Becomes
  <1>8. FiberInv'
    <2>1. FiberInv BY DEF Inv
    <2>2. fiber'.pc \in Handling \cup {"restart"} => fiber'.d \in DOMAIN detections
      BY <2>1 DEF FiberGoes, FiberInv, Handling, Looking
    <2>3. stop = "closed" => fiber' = Idle
      BY <2>1 DEF FiberGoes, FiberInv, Handling, Looking, Idle
    <2> QED BY <1>2, <2>2, <2>3 DEF FiberInv, PageKeeps
  <1>9. NavInv' BY <1>2, <1>7 DEF NavInv, NavKeeps
  <1>10. AliveInv'
    <2> SUFFICES ASSUME stop # "closed", Turnstile(registered)'
                 PROVE  fiber'.d = registered' /\ fiber'.pc \in Handling
      BY DEF AliveInv
    <2>1. registered' = registered /\ Turnstile(registered)
      BY <1>1, <1>2, <1>4, <1>7 DEF Turnstile, None
    <2>2. fiber.d = registered /\ fiber.pc \in Handling BY <2>1 DEF Inv, AliveInv
    <2>3. registered' # None BY <1>1, <2>1 DEF Turnstile, None
    <2> QED BY <2>1, <2>2, <2>3 DEF FiberGoes, Handling, Looking
  <1>11. SolvedInv'
    <2> SUFFICES ASSUME NEW i \in DOMAIN detections, SolvedTurnstile(i)'
                 PROVE  /\ stop = "open" /\ ~destroyed => page'.solved
                        /\ fiber'.pc \notin Looking
      BY <1>2 DEF SolvedInv
    <2>1. detections[i].type = "turnstile" /\ detections'[i].outcome = "solved"
      BY <1>7 DEF SolvedTurnstile, Turnstile
    <2>2. CASE detections[i].outcome = "solved"
      <3>1. /\ stop = "open" /\ ~destroyed => page.solved
            /\ fiber.pc \notin Looking
        BY <2>1, <2>2 DEF Inv, SolvedInv, SolvedTurnstile, Turnstile
      <3>2. stop = "open" /\ ~destroyed => page'.solved BY <3>1 DEF PageKeeps
      <3>3. fiber'.pc \notin Looking
        BY <3>1, <3>2 DEF FiberGoes, Looking, Handling
      <3> QED BY <3>2, <3>3
    <2>3. CASE detections[i].outcome # "solved"
      <3>1. registered = i /\ page'.solved /\ fiber' = fiber BY <2>1, <2>3 DEF SolvesMarked
      <3>2. CASE stop = "closed" BY <3>1, <3>2 DEF Inv, FiberInv, Idle, Looking
      <3>3. CASE stop # "closed"
        BY <2>1, <3>1, <3>3 DEF Inv, AliveInv, Turnstile, Looking, Handling
      <3> QED BY <3>1, <3>2, <3>3
    <2> QED BY <2>2, <2>3
  <1>12. OverInv'
    <2> SUFFICES ASSUME destroyed PROVE registered' = None /\ fiber' = Idle
      BY DEF OverInv
    <2>1. registered = None /\ fiber = Idle BY DEF Inv, OverInv
    <2> QED BY <1>4, <2>1 DEF FiberGoes, Idle, Looking, Handling
  <1>13. ToldInv'
    <2> SUFFICES ASSUME NEW i \in DOMAIN detections, stop = "open", ~destroyed, UntoldSolve(i)'
                 PROVE  fiber'.d = i /\ fiber'.pc \in Handling
      BY <1>2 DEF ToldInv
    <2>1. /\ detections[i].type = "turnstile" /\ detections'[i].outcome = "solved"
          /\ "solved" \notin detections'[i].told
      BY <1>7 DEF UntoldSolve
    <2>2. CASE detections[i].outcome # "solved"
      <3>1. registered = i /\ fiber' = fiber BY <2>1, <2>2 DEF SolvesMarked
      <3> QED BY <2>1, <3>1 DEF Inv, AliveInv, Turnstile
    <2>3. CASE detections[i].outcome = "solved"
      <3>1. Becomes(detections[i], detections'[i]) OBVIOUS
      <3>2. UntoldSolve(i) BY <2>1, <2>3, <3>1 DEF UntoldSolve, Becomes
      <3>3. fiber.d = i /\ fiber.pc \in Handling BY <3>2 DEF Inv, ToldInv
      <3>4. page'.solved
        BY <2>1, <2>3 DEF Inv, SolvedInv, SolvedTurnstile, Turnstile, PageKeeps
      <3> QED BY <3>3, <3>4 DEF FiberGoes, Handling, Looking
    <2> QED BY <2>2, <2>3
  <1>14. [Challenge!Next]_Challenge!vars
    <2>1. destroyed' => \A i \in DOMAIN detections : detections'[i].scope # "open"
      <3> SUFFICES ASSUME destroyed, NEW i \in DOMAIN detections
                   PROVE  detections'[i].scope # "open"
        OBVIOUS
      <3>1. registered = None /\ i # None BY <1>1 DEF Inv, OverInv, None
      <3>2. detections[i].scope # "open" BY <3>1 DEF Inv, DetsInv
      <3> QED BY <3>2 DEF Becomes
    <2> QED BY <1>1, <2>1, ChallengesGoOn
  <1> QED BY <1>5, <1>6, <1>8, <1>9, <1>10, <1>11, <1>12, <1>13, <1>14 DEF Inv, Goes

\* A step that registers r, or, if its scope is closed, only records it.
LEMMA AppendKeeps ==
  ASSUME Inv, registered = None, ~destroyed,
         NEW r \in DetRec, DetInv(r), r.told = {},
         r.outcome = IF r.scope = "open" THEN "pending" ELSE "failed",
         Len(detections) < MaxDetections, detections' = Append(detections, r),
         registered' = IF r.scope = "open" THEN Len(detections) + 1 ELSE None,
         page' \in PageRec, page'.solved = page.solved, page'.reloads = page.reloads,
         nav' \in [Events -> NavRec], NavKeeps,
         enabled' \in BOOLEAN, signals' \in 0 .. MaxSignals, UNCHANGED <<stop, destroyed>>,
         \/ fiber' = fiber /\ r.type = "interstitial"
         \/ /\ fiber.pc = "detect" /\ fiber' = Idle
            /\ r.type = "interstitial" \/ r.scope = "closed"
         \/ /\ fiber.pc = "detect" /\ r.scope = "open"
            /\ fiber' = [pc |-> "dispatch", d |-> Len(detections) + 1]
  PROVE  Goes
  <1> DEFINE n == Len(detections) + 1
  <1>1. /\ detections \in Seq(DetRec) /\ Len(detections) <= MaxDetections
        /\ stop \in {"open", "yielded", "closed"} /\ destroyed \in BOOLEAN
        /\ fiber \in FiberRec /\ page \in PageRec /\ MaxDetections \in Nat
    BY Types, BoundsAreCounts DEF Inv, BoundsAreCounts
  <1>2. /\ detections' \in Seq(DetRec) /\ Len(detections') = n /\ n \in Nat /\ n <= MaxDetections
        /\ DOMAIN detections = 1 .. Len(detections) /\ DOMAIN detections' = 1 .. n
        /\ \A i \in DOMAIN detections : detections'[i] = detections[i]
        /\ detections'[n] = r
        /\ DOMAIN detections' = DOMAIN detections \cup {n} /\ n \notin DOMAIN detections
    BY <1>1
  <1>3. n \in Refs' /\ Refs \subseteq Refs' /\ None \in Refs BY <1>2 DEF Refs
  <1>4. n # None /\ None \notin DOMAIN detections BY <1>2 DEF None
  <1> HIDE DEF n
  <1>5. fiber' \in FiberRec'
    <2>1. \A f \in FiberRec : f \in FiberRec' BY <1>3 DEF FiberRec
    <2>2. Idle \in FiberRec' BY <1>3 DEF FiberRec, Idle
    <2>3. [pc |-> "dispatch", d |-> n] \in FiberRec' BY <1>3 DEF FiberRec
    <2> QED BY <1>1, <2>1, <2>2, <2>3 DEF n
  <1>6. nav' \in [Events -> NavRec']
    <2>1. NavRec \subseteq NavRec' BY <1>3 DEF NavRec
    <2> QED BY <2>1
  <1>7. TypeOK'
    <2>1. registered' \in Refs' BY <1>3 DEF n
    <2> QED BY <1>1, <1>2, <1>5, <1>6, <2>1 DEF TypeOK, DetRec, PageRec, Refs, FiberRec, NavRec
  <1>8. DetsInv'
    <2>1. ASSUME NEW i \in DOMAIN detections
          PROVE  DetInv(detections'[i]) /\ (detections'[i].scope = "open" <=> registered' = i)
      <3>1. DetInv(detections[i]) /\ detections[i].scope # "open"
        BY <1>4 DEF Inv, DetsInv
      <3>2. registered' # i BY <1>2, <1>4 DEF n
      <3> QED BY <1>2, <3>1, <3>2
    <2>2. DetInv(detections'[n]) /\ (detections'[n].scope = "open" <=> registered' = n)
      BY <1>2, <1>4 DEF n
    <2> QED BY <1>2, <2>1, <2>2 DEF DetsInv
  <1>9. fiber'.pc \in Handling \cup {"restart"} => fiber'.d \in DOMAIN detections'
    BY <1>2 DEF Inv, FiberInv, Idle, Handling, n
  <1>10. FiberInv'
    <2>1. fiber'.pc = "grace" => fiber' = fiber BY DEF Idle
    <2>2. stop = "closed" => fiber' = Idle BY DEF Inv, FiberInv, Idle
    <2> QED BY <1>9, <2>1, <2>2 DEF Inv, FiberInv
  <1>11. NavInv' BY <1>2 DEF NavInv, NavKeeps
  <1>12. AliveInv'
    <2> SUFFICES ASSUME stop # "closed", Turnstile(registered)'
                 PROVE  fiber'.d = registered' /\ fiber'.pc \in Handling
      BY DEF AliveInv
    <2>1. registered' # None BY <1>2 DEF Turnstile, None
    <2>2. registered' = n /\ r.scope = "open" /\ r.type = "turnstile"
      BY <1>2, <2>1 DEF Turnstile, n
    <2> QED BY <2>2 DEF Handling, n
  <1>13. SolvedInv'
    <2> SUFFICES ASSUME NEW i \in DOMAIN detections', SolvedTurnstile(i)'
                 PROVE  /\ stop = "open" /\ ~destroyed => page'.solved
                        /\ fiber'.pc \notin Looking
      BY DEF SolvedInv, SolvedTurnstile, Turnstile
    <2>1. i \in DOMAIN detections /\ SolvedTurnstile(i)
      BY <1>2 DEF SolvedTurnstile, Turnstile
    <2>2. /\ stop = "open" /\ ~destroyed => page.solved
          /\ fiber.pc \notin Looking
      BY <2>1 DEF Inv, SolvedInv
    <2> QED BY <2>2 DEF Looking
  <1>14. OverInv' BY DEF OverInv
  <1>15. ToldInv'
    <2> SUFFICES ASSUME NEW i \in DOMAIN detections', stop = "open", UntoldSolve(i)'
                 PROVE  fiber'.d = i /\ fiber'.pc \in Handling
      BY DEF ToldInv
    <2>1. i \in DOMAIN detections /\ UntoldSolve(i) BY <1>2 DEF UntoldSolve
    <2>2. fiber.d = i /\ fiber.pc \in Handling BY <2>1 DEF Inv, ToldInv
    <2> QED BY <2>2 DEF Handling
  <1>16. [Challenge!Next]_Challenge!vars
    <2> DEFINE hopeless == r.scope # "open"
    <2>1. /\ Len(Seen) = Len(detections) /\ DOMAIN Seen = DOMAIN detections
          /\ \A i \in DOMAIN detections : Seen[i] = View(detections[i])
      BY <1>1, SeenIs DEF Seen
    <2>2. ~Challenge!AnyLive
      BY <1>4 DEF Inv, DetsInv, Challenge!AnyLive, View
    <2>3. ~Challenge!Spent(r.type)
      <3>1. r.type = "turnstile" => fiber.pc \in Looking BY DEF DetRec, Looking
      <3>2. r.type = "turnstile" => ~\E i \in DOMAIN detections : SolvedTurnstile(i)
        BY <3>1 DEF Inv, SolvedInv
      <3> QED BY <3>2 DEF Challenge!Spent, View, SolvedTurnstile, Turnstile
    <2>4. Seen' = Append(Seen, View(r))
      <3>1. DOMAIN Seen' = 1 .. n /\ Len(Seen') = n BY <1>2 DEF Seen
      <3>2. \A i \in 1 .. n : Seen'[i] = View(detections'[i]) BY <1>2 DEF Seen
      <3> QED BY <1>1, <1>2, <2>1, <3>1, <3>2 DEF n, Seen
    <2>5. View(r) = [kind |-> r.type, live |-> ~hopeless, told |-> {},
                     outcome |-> IF hopeless THEN "failed" ELSE "pending"]
      BY DEF View
    <2>6. r.type \in Challenge!Kinds /\ hopeless \in BOOLEAN BY DEF DetRec, Challenge!Kinds
    <2> QED BY <2>2, <2>3, <2>4, <2>5, <2>6 DEF Challenge!Next, Challenge!Appears, Seen
  <1> QED BY <1>7, <1>8, <1>10, <1>11, <1>12, <1>13, <1>14, <1>15, <1>16 DEF Inv, Goes

-----------------------------------------------------------------------------
(* What the actions are made of.                                           *)

\* Some of the detections have moved on.
BecomesAll(ds, es) ==
  /\ es \in Seq(DetRec) /\ Len(es) = Len(ds)
  /\ \A i \in DOMAIN ds : Becomes(ds[i], es[i])

LEMMA AllStay ==
  ASSUME Inv
  PROVE  /\ BecomesAll(detections, detections)
         /\ \A i \in DOMAIN detections : detections[i] \in DetRec /\ DetInv(detections[i])
  <1>1. detections \in Seq(DetRec) BY Types DEF Inv
  <1>2. \A i \in DOMAIN detections : detections[i] \in DetRec BY <1>1
  <1> QED BY <1>1, <1>2 DEF BecomesAll, Becomes, Inv, DetsInv

\* One of them moves on.
LEMMA OneBecomes ==
  ASSUME Inv, NEW es, BecomesAll(detections, es),
         NEW i \in DOMAIN detections, NEW s, Becomes(es[i], s),
         NEW fs, fs = [es EXCEPT ![i] = s]
  PROVE  /\ BecomesAll(detections, fs) /\ fs[i] = s
         /\ \A k \in DOMAIN detections \ {i} : fs[k] = es[k]
  <1>1. detections \in Seq(DetRec) BY Types DEF Inv
  <1>2. DOMAIN es = DOMAIN detections /\ es \in Seq(DetRec) BY <1>1 DEF BecomesAll
  <1>3. s \in DetRec BY DEF Becomes
  <1>4. /\ fs \in Seq(DetRec) /\ Len(fs) = Len(es) /\ fs[i] = s
        /\ \A k \in DOMAIN detections \ {i} : fs[k] = es[k]
    BY <1>2, <1>3
  <1>5. ASSUME NEW k \in DOMAIN detections PROVE Becomes(detections[k], fs[k])
    <2>1. Becomes(detections[k], es[k]) BY DEF BecomesAll
    <2> QED BY <1>4, <2>1, BecomesBoth
  <1> QED BY <1>4, <1>5 DEF BecomesAll

\* A step that leaves the detections alone.
LEMMA NothingMoves ==
  ASSUME Inv, UNCHANGED <<detections, registered>>
  PROVE  /\ detections' \in Seq(DetRec) /\ Len(detections') = Len(detections)
         /\ \A i \in DOMAIN detections : Becomes(detections[i], detections'[i])
         /\ Finalize /\ SolvesMarked
  <1>1. Finalize BY DEF Finalize
  <1>2. SolvesMarked BY DEF SolvesMarked
  <1> QED BY <1>1, <1>2, AllStay DEF BecomesAll

\* A step that closes no scope.
LEMMA NothingCloses ==
  ASSUME UNCHANGED registered,
         \A i \in DOMAIN detections : detections'[i].scope = detections[i].scope
  PROVE  Finalize
  BY DEF Finalize

\* startDetectionFiber replaces the fiber only where no turnstile is solved or registered.
LEMMA StartDetectionGoes ==
  ASSUME Inv, NEW p, p.solved = page'.solved, StartDetection(p)
  PROVE  /\ FiberGoes /\ fiber' \in FiberRec
         /\ fiber'.pc = "grace" => fiber' = fiber
  <1>1. fiber \in FiberRec BY Types DEF Inv
  <1>2. CASE Refused(p) BY <1>1, <1>2 DEF StartDetection, FiberGoes
  <1>3. CASE ~Refused(p)
    <2>1. fiber' = [pc |-> "frame", d |-> None] BY <1>3 DEF StartDetection
    <2>2. stop = "open" /\ ~destroyed /\ registered' = None /\ ~page'.solved
      BY <1>3 DEF Refused
    <2>3. fiber' \in FiberRec BY <2>1 DEF FiberRec, Refs
    <2> QED BY <2>1, <2>2, <2>3 DEF FiberGoes
  <1> QED BY <1>2, <1>3

\* A navigation handler ends, is replaced or goes to wait.
LEMMA NavEnds ==
  ASSUME Inv, \/ nav' = nav
              \/ \E e \in Events : nav' = [nav EXCEPT ![e] = NoNav]
              \/ \E e \in Events : nav' = [nav EXCEPT ![e] = Waiting]
  PROVE  nav' \in [Events -> NavRec] /\ NavKeeps
  <1>1. nav \in [Events -> NavRec] BY Types DEF Inv
  <1>2. NoNav \in NavRec /\ NoNav.pc = "idle" BY DEF NoNav, NavRec, Refs, Destinations
  <1>3. Waiting \in NavRec /\ Waiting.pc = "waiting"
    BY DEF Waiting, NoNav, NavRec, Refs, Destinations
  <1>4. nav' \in [Events -> NavRec] BY <1>1, <1>2, <1>3
  <1>5. \A e \in Events : nav'[e] \in {nav[e], NoNav, Waiting} BY <1>1
  <1>6. \A e \in Events : nav'[e].pc = "classifying" => nav'[e] = nav[e] BY <1>2, <1>3, <1>5
  <1>7. NavInv BY DEF Inv
  <1> QED BY <1>4, <1>6, <1>7 DEF NavKeeps, NavInv

\* The counter and the flags that most steps leave alone.
LEMMA Flags ==
  ASSUME Inv
  PROVE  /\ enabled \in BOOLEAN /\ signals \in 0 .. MaxSignals /\ page \in PageRec
         /\ fiber \in FiberRec /\ nav \in [Events -> NavRec]
         /\ detections \in Seq(DetRec) /\ registered \in Refs
  BY Types DEF Inv

\* The widget's waits, which only the loss of a reload could break.
LEMMA PageStays ==
  ASSUME Inv, page.solved => page'.solved, page'.reloads = page.reloads,
         fiber'.pc = "grace" => fiber.pc = "grace"
  PROVE  PageKeeps
  BY DEF Inv, FiberInv, PageKeeps

-----------------------------------------------------------------------------
(* The steps that leave the detections alone.                              *)

LEMMA StillStep ==
  ASSUME Inv, UNCHANGED <<detections, registered, stop, destroyed>>,
         page' \in PageRec, page.solved => page'.solved, page'.reloads = page.reloads,
         enabled' \in BOOLEAN, signals' \in 0 .. MaxSignals,
         nav' \in [Events -> NavRec], NavKeeps,
         fiber' \in FiberRec, FiberGoes, fiber'.pc = "grace" => fiber.pc = "grace"
  PROVE  Goes
  <1>1. PageKeeps BY PageStays
  <1> QED BY <1>1, NothingMoves, StepKeeps

LEMMA EnableStep ==
  ASSUME Inv, signals' \in 0 .. MaxSignals, Enable
  PROVE  Goes
  <1>1. /\ UNCHANGED <<detections, registered, page, nav, stop, destroyed>>
        /\ enabled' = TRUE /\ page \in PageRec
    BY Flags DEF Enable
  <1>2. nav' \in [Events -> NavRec] /\ NavKeeps BY <1>1, NavEnds
  <1>3. FiberGoes /\ fiber' \in FiberRec /\ (fiber'.pc = "grace" => fiber' = fiber)
    <2>1. CASE page.known BY <1>1, <2>1, StartDetectionGoes DEF Enable
    <2>2. CASE ~page.known BY <2>2, Flags DEF Enable, FiberGoes
    <2> QED BY <2>1, <2>2
  <1> QED BY <1>1, <1>2, <1>3, StillStep

LEMMA BridgeDetectedStep ==
  ASSUME Inv, signals' \in 0 .. MaxSignals, BridgeDetected
  PROVE  Goes
  <1>1. /\ UNCHANGED <<detections, registered, nav, stop, enabled, destroyed>>
        /\ page' = [page EXCEPT !.bridged = TRUE] /\ page \in PageRec /\ enabled \in BOOLEAN
    BY Flags DEF BridgeDetected
  <1>2. page' \in PageRec /\ page'.solved = page.solved /\ page'.reloads = page.reloads
    BY <1>1 DEF PageRec
  <1>3. nav' \in [Events -> NavRec] /\ NavKeeps BY <1>1, NavEnds
  <1>4. FiberGoes /\ fiber' \in FiberRec /\ (fiber'.pc = "grace" => fiber' = fiber)
    <2>1. CASE page.known BY <1>2, <2>1, StartDetectionGoes DEF BridgeDetected
    <2>2. CASE ~page.known BY <2>2, Flags DEF BridgeDetected, FiberGoes
    <2> QED BY <2>1, <2>2
  <1> QED BY <1>1, <1>2, <1>3, <1>4, StillStep

\* Only the handler of a navigation, and the fiber it may start.
LEMMA WaitedStep ==
  ASSUME Inv, signals' \in 0 .. MaxSignals, NEW e \in Events, Waited(e)
  PROVE  Goes
  <1>1. /\ UNCHANGED <<detections, registered, page, stop, enabled, destroyed>>
        /\ page \in PageRec /\ enabled \in BOOLEAN
    BY Flags DEF Waited
  <1>2. nav' \in [Events -> NavRec] /\ NavKeeps BY NavEnds DEF Waited
  <1>3. FiberGoes /\ fiber' \in FiberRec /\ (fiber'.pc = "grace" => fiber' = fiber)
    BY <1>1, StartDetectionGoes DEF Waited
  <1> QED BY <1>1, <1>2, <1>3, StillStep

LEMMA FrameHandlerReplacedStep ==
  ASSUME Inv, signals' \in 0 .. MaxSignals, FrameHandlerReplaced
  PROVE  Goes
  <1>1. /\ UNCHANGED <<detections, registered, page, fiber, stop, enabled, destroyed>>
        /\ page \in PageRec /\ enabled \in BOOLEAN /\ fiber \in FiberRec
    BY Flags DEF FrameHandlerReplaced
  <1>2. nav' \in [Events -> NavRec] /\ NavKeeps BY NavEnds DEF FrameHandlerReplaced, Events
  <1>3. FiberGoes BY <1>1 DEF FiberGoes
  <1> QED BY <1>1, <1>2, <1>3, StillStep

\* The page's fiber looks on, gives up or starts anew.
LEMMA LookingStep ==
  ASSUME Inv, signals' \in 0 .. MaxSignals,
         FrameTree \/ Poll \/ DetectedNothing \/ Restart
  PROVE  Goes
  <1>1. /\ UNCHANGED <<detections, registered, page, nav, stop, enabled, destroyed>>
        /\ page \in PageRec /\ enabled \in BOOLEAN /\ fiber \in FiberRec
    BY Flags DEF FrameTree, Poll, DetectedNothing, Restart
  <1>2. nav' \in [Events -> NavRec] /\ NavKeeps BY <1>1, NavEnds
  <1>3. Idle \in FiberRec BY DEF Idle, FiberRec, Refs
  <1>4. [fiber EXCEPT !.pc = "poll"] \in FiberRec /\ [fiber EXCEPT !.pc = "detect"] \in FiberRec
    BY <1>1 DEF FiberRec
  <1>5. CASE FrameTree \/ Poll \/ DetectedNothing
    <2>1. /\ fiber.pc \in Looking /\ fiber' \in FiberRec
          /\ fiber'.pc \in {"idle", "poll", "detect"}
      BY <1>1, <1>3, <1>4, <1>5 DEF FrameTree, Poll, DetectedNothing, Idle, FiberRec, Looking
    <2> QED BY <1>1, <1>2, <2>1, StillStep DEF FiberGoes, Looking
  <1>6. CASE Restart
    <2>1. CASE fiber' = Idle
      BY <1>1, <1>2, <1>3, <1>6, <2>1, StillStep DEF Restart, FiberGoes, Idle, Handling
    <2>2. CASE fiber' # Idle
      <3>1. fiber' = [pc |-> "frame", d |-> None] /\ ~Refused(page) BY <1>6, <2>2 DEF Restart
      <3>2. fiber' \in FiberRec BY <3>1 DEF FiberRec, Refs
      <3>3. FiberGoes BY <1>1, <3>1 DEF FiberGoes, Refused
      <3> QED BY <1>1, <1>2, <3>1, <3>2, <3>3, StillStep
    <2> QED BY <2>1, <2>2
  <1> QED BY <1>5, <1>6

\* stopTargetDetection returns: the fiber is interrupted, and no other starts.
LEMMA StopFinishStep ==
  ASSUME Inv, signals' \in 0 .. MaxSignals, StopFinish
  PROVE  Goes
  <1>1. /\ UNCHANGED <<detections, registered, page, nav, enabled, destroyed>>
        /\ stop' = "closed" /\ fiber' = Idle /\ TypeOK
    BY DEF StopFinish, Inv
  <1>2. TypeOK' BY <1>1 DEF TypeOK, Idle
  <1>3. DetsInv' /\ NavInv' BY <1>1 DEF Inv, DetsInv, NavInv
  <1>4. FiberInv' /\ AliveInv' BY <1>1 DEF FiberInv, AliveInv, Idle, Handling
  <1>5. SolvedInv' BY <1>1 DEF SolvedInv, Idle, Looking
  <1>6. OverInv' /\ ToldInv' BY <1>1 DEF Inv, OverInv, ToldInv
  <1>7. [Challenge!Next]_Challenge!vars BY <1>1 DEF Challenge!vars
  <1> QED BY <1>2, <1>3, <1>4, <1>5, <1>6, <1>7 DEF Inv, Goes

-----------------------------------------------------------------------------
(* The steps in which a detection moves on.                                *)

\* Only one does.
LEMMA OneMoves ==
  ASSUME Inv, NEW i \in DOMAIN detections, NEW s, Becomes(detections[i], s),
         detections' = [detections EXCEPT ![i] = s],
         \/ detections[i].type = "interstitial"
         \/ s.outcome = "solved" => detections[i].outcome = "solved"
         \/ registered = i /\ page'.solved /\ fiber' = fiber
  PROVE  /\ detections' \in Seq(DetRec) /\ Len(detections') = Len(detections)
         /\ \A k \in DOMAIN detections : Becomes(detections[k], detections'[k])
         /\ SolvesMarked /\ detections'[i] = s
         /\ s.scope = detections[i].scope /\ registered' = registered => Finalize
  <1>1. detections \in Seq(DetRec) /\ BecomesAll(detections, detections) BY Flags, AllStay
  <1>2. /\ BecomesAll(detections, detections') /\ detections'[i] = s
        /\ \A k \in DOMAIN detections \ {i} : detections'[k] = detections[k]
    BY <1>1, OneBecomes
  <1>3. SolvesMarked
    <2> SUFFICES ASSUME NEW k \in DOMAIN detections, detections[k].type = "turnstile",
                        detections[k].outcome # "solved", detections'[k].outcome = "solved"
                 PROVE  registered = k /\ page'.solved /\ fiber' = fiber
      BY DEF SolvesMarked
    <2>1. k = i BY <1>2
    <2> QED BY <1>2, <2>1
  <1>4. s.scope = detections[i].scope /\ registered' = registered => Finalize
    BY <1>2, NothingCloses
  <1> QED BY <1>2, <1>3, <1>4 DEF BecomesAll

\* The fiber and the handlers of navigations go on as they were.
LEMMA MovesStep ==
  ASSUME Inv, signals' \in 0 .. MaxSignals,
         detections' \in Seq(DetRec), Len(detections') = Len(detections),
         \A i \in DOMAIN detections : Becomes(detections[i], detections'[i]),
         Finalize, SolvesMarked,
         page' \in PageRec, page.solved => page'.solved, page'.reloads = page.reloads,
         UNCHANGED <<fiber, nav, stop, enabled, destroyed>>
  PROVE  Goes
  <1>1. nav' \in [Events -> NavRec] /\ NavKeeps BY NavEnds
  <1>2. fiber' \in FiberRec /\ enabled' \in BOOLEAN BY Flags
  <1>3. FiberGoes BY DEF FiberGoes
  <1>4. PageKeeps BY PageStays
  <1> QED BY <1>1, <1>2, <1>3, <1>4, StepKeeps

\* A registered detection is one of the page's, and its scope is open.
LEMMA RegisteredIs ==
  ASSUME Inv, registered # None
  PROVE  /\ registered \in DOMAIN detections /\ detections[registered].scope = "open"
         /\ detections[registered] \in DetRec /\ DetInv(detections[registered])
         /\ ~detections[registered].aborted /\ ~detections[registered].resolved
  <1>1. registered \in DOMAIN detections BY Flags DEF Refs
  <1>2. detections[registered].scope = "open" BY <1>1 DEF Inv, DetsInv
  <1> QED BY <1>1, <1>2, AllStay DEF DetInv

\* The other way round.
LEMMA OpenIs ==
  ASSUME Inv, NEW i \in DOMAIN detections
  PROVE  /\ i # None
         /\ detections[i].scope = "open" <=> registered = i
         /\ detections[i].type = "turnstile" => detections[i].solver = "none"
  <1>1. i # None BY Flags DEF None
  <1> QED BY <1>1 DEF Inv, DetsInv, DetInv

\* One detection moves on, whatever else a step may leave alone.
LEMMA OneMovesStep ==
  ASSUME Inv, signals' \in 0 .. MaxSignals,
         NEW i \in DOMAIN detections, NEW s, Becomes(detections[i], s),
         detections' = [detections EXCEPT ![i] = s], Finalize,
         \/ detections[i].type = "interstitial"
         \/ s.outcome = "solved" => detections[i].outcome = "solved"
         \/ registered = i /\ page'.solved /\ fiber' = fiber,
         page' \in PageRec, page.solved => page'.solved, page'.reloads = page.reloads,
         UNCHANGED <<fiber, nav, stop, enabled, destroyed>>
  PROVE  Goes
  BY OneMoves, MovesStep

\* Attributes that neither the invariant of a detection nor its scope depends on.
LEMMA AttributesKeep ==
  ASSUME NEW r \in DetRec, DetInv(r), NEW s \in DetRec,
         s.type = r.type, s.scope = r.scope, s.told = r.told, s.outcome = r.outcome,
         s.solver = r.solver \/ r.solver # "none", s.aborted = r.aborted, s.resolved = r.resolved
  PROVE  Becomes(r, s)
  BY DEF Becomes, DetInv

LEMMA AttributeKeeps ==
  ASSUME NEW r \in DetRec, DetInv(r), NEW s,
         \/ \E w \in {"stuck", "rejection"} : s \in {Watched(r, w), Fired(r, w)}
         \/ \E b \in BOOLEAN : s = [r EXCEPT !.rejected = b]
         \/ s = [r EXCEPT !.clicked = TRUE]
         \/ s = [r EXCEPT !.cosmetic = TRUE]
         \/ \E o \in {"bound", "cleared"} : s = [r EXCEPT !.oopif = o]
         \/ r.solver # "none" /\ \E v \in {"racing", "done"} : s = [r EXCEPT !.solver = v]
  PROVE  /\ Becomes(r, s) /\ s.scope = r.scope /\ s.outcome = r.outcome
         /\ s.aborted = r.aborted /\ s.resolved = r.resolved
         /\ s.solver = "none" <=> r.solver = "none"
  <1>1. /\ s \in DetRec /\ s.type = r.type /\ s.scope = r.scope /\ s.told = r.told
        /\ s.outcome = r.outcome /\ s.aborted = r.aborted /\ s.resolved = r.resolved
        /\ s.solver = r.solver \/ (r.solver # "none" /\ s.solver # "none")
    <2>1. CASE \E w \in {"stuck", "rejection"} : s \in {Watched(r, w), Fired(r, w)}
      BY <2>1 DEF DetRec, Watched, Fired
    <2>2. CASE \E b \in BOOLEAN : s = [r EXCEPT !.rejected = b] BY <2>2 DEF DetRec
    <2>3. CASE s = [r EXCEPT !.clicked = TRUE] BY <2>3 DEF DetRec
    <2>4. CASE s = [r EXCEPT !.cosmetic = TRUE] BY <2>4 DEF DetRec
    <2>5. CASE \E o \in {"bound", "cleared"} : s = [r EXCEPT !.oopif = o] BY <2>5 DEF DetRec
    <2>6. CASE r.solver # "none" /\ \E v \in {"racing", "done"} : s = [r EXCEPT !.solver = v]
      BY <2>6 DEF DetRec
    <2> QED BY <2>1, <2>2, <2>3, <2>4, <2>5, <2>6
  <1> QED BY <1>1, AttributesKeep

LEMMA StuckStep ==
  ASSUME Inv, signals' \in 0 .. MaxSignals, NEW d \in DOMAIN detections, Stuck(d)
  PROVE  Goes
  <1> DEFINE r == detections[d]
             s == Fired(r, "stuck")
             u == Settled(s, "failed")
  <1>1. r \in DetRec /\ DetInv(r) BY AllStay
  <1>2. Becomes(r, s) /\ s.scope = r.scope /\ s.outcome = r.outcome BY <1>1, AttributeKeeps
  <1>3. detections' = [detections EXCEPT ![d] = u] BY DEF Stuck
  <1> HIDE DEF s
  <1>4. /\ Becomes(s, u) /\ u.scope = s.scope
        /\ u.outcome = "solved" => s.outcome = "solved"
    BY <1>2, SettledKeeps DEF Becomes
  <1> HIDE DEF u
  <1>5. Becomes(r, u) BY <1>2, <1>4, BecomesBoth
  <1>6. UNCHANGED <<registered, page, fiber, nav, stop, enabled, destroyed>> /\ page \in PageRec
    BY Flags DEF Stuck
  <1>7. Finalize BY <1>2, <1>3, <1>4, <1>5, <1>6, OneMoves
  <1> QED BY <1>2, <1>3, <1>4, <1>5, <1>6, <1>7, OneMovesStep

LEMMA ClickRejectedStep ==
  ASSUME Inv, signals' \in 0 .. MaxSignals, NEW d \in DOMAIN detections, ClickRejected(d)
  PROVE  Goes
  <1> DEFINE r == detections[d]
             s == Fired(r, "rejection")
             b == r.outcome = "pending"
             t == [s EXCEPT !.rejected = b]
             u == Settled(t, "failed")
  <1>1. r \in DetRec /\ DetInv(r) BY AllStay
  <1>2. Becomes(r, s) /\ s.scope = r.scope /\ s.outcome = r.outcome BY <1>1, AttributeKeeps
  <1>3. detections' = [detections EXCEPT ![d] = u] /\ b \in BOOLEAN BY DEF ClickRejected
  <1> HIDE DEF s, b
  <1>4. Becomes(s, t) /\ t.scope = s.scope /\ t.outcome = s.outcome
    <2>1. s \in DetRec /\ DetInv(s) BY <1>2 DEF Becomes
    <2> QED BY <1>3, <2>1, AttributeKeeps
  <1> HIDE DEF t
  <1>5. /\ Becomes(t, u) /\ u.scope = t.scope
        /\ u.outcome = "solved" => t.outcome = "solved"
    BY <1>4, SettledKeeps DEF Becomes
  <1> HIDE DEF u
  <1>6. Becomes(r, u) BY <1>2, <1>4, <1>5, BecomesBoth
  <1>7. UNCHANGED <<registered, page, fiber, nav, stop, enabled, destroyed>> /\ page \in PageRec
    BY Flags DEF ClickRejected
  <1>8. Finalize BY <1>2, <1>3, <1>4, <1>5, <1>6, <1>7, OneMoves
  <1> QED BY <1>2, <1>3, <1>4, <1>5, <1>6, <1>7, <1>8, OneMovesStep

\* A signal of the page settles the registered detection, if anything does, and marks the
\* page where it was a turnstile.
LEMMA SignalSolvedStep ==
  ASSUME Inv, signals' \in 0 .. MaxSignals, registered # None,
         SignalSolved(registered), Finalize,
         page' \in PageRec, page.solved => page'.solved, page'.reloads = page.reloads,
         SolvesPage(registered) => page'.solved,
         UNCHANGED <<fiber, nav, stop, enabled, destroyed>>
  PROVE  Goes
  <1> DEFINE r == detections[registered]
             s == Settled(r, "solved")
             u == Aborted(s)
  <1>1. registered \in DOMAIN detections /\ r \in DetRec /\ DetInv(r) BY RegisteredIs
  <1>2. CASE r.outcome # "pending"
    <2>1. detections' = detections BY <1>2 DEF SignalSolved
    <2>2. SolvesMarked BY <2>1 DEF SolvesMarked
    <2> QED BY <2>1, <2>2, AllStay, MovesStep DEF BecomesAll
  <1>3. CASE r.outcome = "pending"
    <2>1. detections' = [detections EXCEPT ![registered] = u] BY <1>3 DEF SignalSolved
    <2>2. Becomes(r, s) BY <1>1, SettledKeeps
    <2> HIDE DEF s
    <2>3. Becomes(s, u) BY <2>2, AbortedKeeps DEF Becomes
    <2> HIDE DEF u
    <2>4. Becomes(r, u) BY <2>2, <2>3, BecomesBoth
    <2>5. r.type = "interstitial" \/ page'.solved BY <1>1, <1>3 DEF DetRec, SolvesPage
    <2> HIDE DEF r
    <2> QED BY <1>1, <2>1, <2>4, <2>5, OneMovesStep DEF r
  <1> QED BY <1>2, <1>3

LEMMA WidgetSucceededStep ==
  ASSUME Inv, signals' \in 0 .. MaxSignals, WidgetSucceeded
  PROVE  Goes
  <1>1. page \in PageRec BY Flags
  <1>2. page' = [page EXCEPT !.solved = TRUE] BY DEF WidgetSucceeded, MarkSolved
  <1>3. page' \in PageRec /\ page'.solved /\ page'.reloads = page.reloads
    BY <1>1, <1>2 DEF PageRec
  <1> QED BY <1>3, SignalSolvedStep DEF WidgetSucceeded

\* What a bridge or a beacon marks of a page.
LEMMA PageMarked ==
  ASSUME Inv, NEW b \in BOOLEAN,
         page' = [page EXCEPT !.autoSolved = TRUE, !.solved = @ \/ b]
  PROVE  /\ page' \in PageRec /\ page'.reloads = page.reloads
         /\ page.solved \/ b => page'.solved
  <1>1. page \in PageRec BY Flags
  <1>2. (page.solved \/ b) \in BOOLEAN OBVIOUS
  <1>3. page' \in PageRec BY <1>1, <1>2 DEF PageRec
  <1>4. page'.reloads = page.reloads /\ page'.solved = (page.solved \/ b) BY <1>1 DEF PageRec
  <1> QED BY <1>3, <1>4

LEMMA BridgeSolvedStep ==
  ASSUME Inv, signals' \in 0 .. MaxSignals, BridgeSolved
  PROVE  Goes
  <1> DEFINE b == registered # None /\ SolvesPage(registered)
  <1>1. b \in BOOLEAN BY DEF SolvesPage
  <1>2. /\ page' \in PageRec /\ page'.reloads = page.reloads
        /\ page.solved => page'.solved
        /\ b => page'.solved
    BY <1>1, PageMarked DEF BridgeSolved
  <1>3. Finalize /\ UNCHANGED <<fiber, nav, stop, enabled, destroyed>> BY DEF BridgeSolved
  <1>4. CASE registered # None BY <1>2, <1>3, <1>4, SignalSolvedStep DEF BridgeSolved
  <1>5. CASE registered = None
    <2>1. detections' = detections BY <1>5 DEF BridgeSolved
    <2>2. SolvesMarked BY <2>1 DEF SolvesMarked
    <2> QED BY <1>2, <1>3, <2>1, <2>2, AllStay, MovesStep DEF BecomesAll
  <1> QED BY <1>4, <1>5

LEMMA BeaconStep ==
  ASSUME Inv, signals' \in 0 .. MaxSignals, Beacon
  PROVE  Goes
  <1> DEFINE b == registered # None /\ SolvesPage(registered)
  <1>1. b \in BOOLEAN BY DEF SolvesPage
  <1>2. /\ page' \in PageRec /\ page'.reloads = page.reloads
        /\ page.solved => page'.solved
        /\ b => page'.solved
    BY <1>1, PageMarked DEF Beacon
  <1>3. Finalize /\ UNCHANGED <<fiber, nav, stop, enabled, destroyed>> BY DEF Beacon
  <1>4. CASE registered # None /\ SignalSolved(registered)
    BY <1>2, <1>3, <1>4, SignalSolvedStep
  <1>5. CASE registered = None
    <2>1. detections' = detections BY <1>5 DEF Beacon
    <2>2. SolvesMarked BY <2>1 DEF SolvesMarked
    <2> QED BY <1>2, <1>3, <2>1, <2>2, AllStay, MovesStep DEF BecomesAll
  <1>6. CASE registered # None /\ ~SignalSolved(registered)
    <2> DEFINE r == detections[registered]
               s == Settled(r, "solved")
               t == [s EXCEPT !.solver = "done"]
               u == Raced(t)
               v == Aborted(u)
    <2>1. /\ registered \in DOMAIN detections /\ r \in DetRec /\ DetInv(r)
          /\ r.solver = "racing" /\ detections' = [detections EXCEPT ![registered] = v]
      BY <1>6, RegisteredIs DEF Beacon
    <2>2. Becomes(r, s) BY <2>1, SettledKeeps
    <2>3. s.solver = "racing" BY <2>1 DEF Settled, DetRec
    <2>4. r.type = "interstitial" BY <2>1 DEF DetInv, DetRec
    <2> HIDE DEF s
    <2>5. Becomes(s, t) BY <2>2, <2>3, AttributeKeeps DEF Becomes
    <2> HIDE DEF t
    <2>6. Becomes(t, u) BY <2>5, RacedKeeps DEF Becomes
    <2> HIDE DEF u
    <2>7. Becomes(u, v) BY <2>6, AbortedKeeps DEF Becomes
    <2> HIDE DEF v
    <2>8. Becomes(r, v) BY <2>2, <2>5, <2>6, <2>7, BecomesBoth
    <2> HIDE DEF r
    <2> QED BY <1>2, <1>3, <2>1, <2>4, <2>8, OneMovesStep DEF r
  <1> QED BY <1>4, <1>5, <1>6

\* A retry of the widget clears the flag of a detection whose scope is closed.
LEMMA RetriedKeeps ==
  ASSUME NEW r \in DetRec, DetInv(r), r.scope = "closed", r.attempt < MaxAttempts
  PROVE  /\ Becomes(r, [r EXCEPT !.attempt = @ + 1, !.aborted = FALSE])
         /\ [r EXCEPT !.attempt = @ + 1, !.aborted = FALSE].outcome = r.outcome
  <1> DEFINE n == r.attempt + 1
             s == [r EXCEPT !.attempt = n, !.aborted = FALSE]
  <1>1. n \in 1 .. MaxAttempts BY BoundsAreCounts DEF DetRec, BoundsAreCounts
  <1> HIDE DEF n
  <1>2. /\ s \in DetRec /\ s.type = r.type /\ s.scope = r.scope /\ s.told = r.told
        /\ s.outcome = r.outcome /\ s.solver = r.solver
    BY <1>1 DEF DetRec
  <1>3. [r EXCEPT !.attempt = @ + 1, !.aborted = FALSE] = s BY DEF n
  <1> HIDE DEF s
  <1> QED BY <1>2, <1>3 DEF Becomes, DetInv

LEMMA WidgetFailedStep ==
  ASSUME Inv, signals' \in 0 .. MaxSignals, WidgetFailed
  PROVE  Goes
  <1> DEFINE r == detections[registered]
             a == Aborted(r)
             retried == [a EXCEPT !.attempt = @ + 1, !.aborted = FALSE]
             given == Settled(a, "failed")
             rest == IF r.attempt < MaxAttempts THEN retried ELSE given
  <1>1. registered \in DOMAIN detections /\ r \in DetRec /\ DetInv(r)
    BY RegisteredIs DEF WidgetFailed
  <1>2. PICK s \in {rest} \cup (IF r.type = "interstitial" THEN {a} ELSE {}) :
          detections' = [detections EXCEPT ![registered] = s]
    BY DEF WidgetFailed
  <1>3. s \in {a, rest} BY <1>2
  <1>4. /\ Becomes(r, a) /\ a.scope = "closed" /\ a.outcome = r.outcome
        /\ a.attempt = r.attempt
    BY <1>1, AbortedKeeps
  <1> HIDE DEF a
  <1>5. r.attempt < MaxAttempts => Becomes(a, retried) /\ retried.outcome = a.outcome
    BY <1>4, RetriedKeeps DEF Becomes
  <1>6. /\ Becomes(a, given)
        /\ given.outcome = "solved" => a.outcome = "solved"
    BY <1>4, SettledKeeps DEF Becomes
  <1>7. Becomes(r, s) /\ (s.outcome = "solved" => r.outcome = "solved")
    <2> HIDE DEF retried, given
    <2>1. CASE s = a BY <1>4, <2>1
    <2>2. CASE s = rest /\ r.attempt < MaxAttempts BY <1>4, <1>5, <2>2, BecomesBoth
    <2>3. CASE s = rest /\ ~(r.attempt < MaxAttempts) BY <1>4, <1>6, <2>3, BecomesBoth
    <2> QED BY <1>3, <2>1, <2>2, <2>3
  <1>8. /\ UNCHANGED <<page, fiber, nav, stop, enabled, destroyed>> /\ Finalize
        /\ page \in PageRec
    BY Flags DEF WidgetFailed
  <1> QED BY <1>1, <1>2, <1>7, <1>8, OneMovesStep

LEMMA BridgeErrorPageStep ==
  ASSUME Inv, signals' \in 0 .. MaxSignals, BridgeErrorPage
  PROVE  Goes
  <1> DEFINE r == detections[registered]
             told == Told(r, "solved")
             solved == Settled(told, "solved")
             failed == Settled(r, "failed")
             s == IF r.type = "interstitial" THEN solved ELSE failed
  <1>1. registered \in DOMAIN detections /\ r \in DetRec /\ DetInv(r)
    BY RegisteredIs DEF BridgeErrorPage
  <1>2. detections' = [detections EXCEPT ![registered] = s] BY DEF BridgeErrorPage
  <1>3. Becomes(r, told) /\ told.scope = r.scope BY <1>1, ToldKeeps
  <1> HIDE DEF told
  <1>4. Becomes(told, solved) /\ solved.scope = told.scope BY <1>3, SettledKeeps DEF Becomes
  <1>5. /\ Becomes(r, failed) /\ failed.scope = r.scope
        /\ failed.outcome = "solved" => r.outcome = "solved"
    BY <1>1, SettledKeeps
  <1> HIDE DEF solved, failed
  <1>6. Becomes(r, solved) BY <1>3, <1>4, BecomesBoth
  <1>7. /\ Becomes(r, s) /\ s.scope = r.scope
        /\ r.type = "interstitial" \/ (s.outcome = "solved" => r.outcome = "solved")
    BY <1>3, <1>4, <1>5, <1>6
  <1> HIDE DEF s
  <1>8. UNCHANGED <<registered, page, fiber, nav, stop, enabled, destroyed>> /\ page \in PageRec
    BY Flags DEF BridgeErrorPage
  <1>9. Finalize BY <1>1, <1>2, <1>7, <1>8, OneMoves
  <1> QED BY <1>1, <1>2, <1>7, <1>8, <1>9, OneMovesStep

LEMMA IframeSeenStep ==
  ASSUME Inv, signals' \in 0 .. MaxSignals, IframeSeen
  PROVE  Goes
  <1>1. /\ UNCHANGED <<registered, fiber, nav, stop, enabled, destroyed>> /\ page \in PageRec
        /\ enabled \in BOOLEAN
    BY Flags DEF IframeSeen
  <1>2. CASE registered = None
    <2>1. UNCHANGED detections /\ page' = [page EXCEPT !.iframe = TRUE]
      BY <1>2 DEF IframeSeen
    <2>2. page' \in PageRec /\ page'.solved = page.solved /\ page'.reloads = page.reloads
      BY <1>1, <2>1 DEF PageRec
    <2> QED BY <1>1, <2>1, <2>2, NothingMoves, MovesStep
  <1>3. CASE registered # None
    <2> DEFINE r == detections[registered]
               s == [r EXCEPT !.oopif = "bound"]
    <2>1. registered \in DOMAIN detections /\ r \in DetRec /\ DetInv(r)
      BY <1>3, RegisteredIs
    <2>2. detections' = [detections EXCEPT ![registered] = s] /\ UNCHANGED page
      BY <1>3 DEF IframeSeen
    <2>3. Becomes(r, s) /\ s.scope = r.scope /\ s.outcome = r.outcome BY <2>1, AttributeKeeps
    <2> HIDE DEF s
    <2>4. Finalize BY <1>1, <2>1, <2>2, <2>3, OneMoves
    <2> QED BY <1>1, <2>1, <2>2, <2>3, <2>4, OneMovesStep
  <1> QED BY <1>2, <1>3

LEMMA IframeGoneStep ==
  ASSUME Inv, signals' \in 0 .. MaxSignals, IframeGone
  PROVE  Goes
  <1> DEFINE r == detections[registered]
             cleared == [r EXCEPT !.oopif = "cleared"]
             s == IF r.clicked THEN Aborted(r) ELSE cleared
  <1>1. registered \in DOMAIN detections /\ r \in DetRec /\ DetInv(r)
    BY RegisteredIs DEF IframeGone
  <1>2. detections' = [detections EXCEPT ![registered] = s] BY DEF IframeGone
  <1>3. Becomes(r, cleared) /\ cleared.outcome = r.outcome BY <1>1, AttributeKeeps
  <1>4. Becomes(r, Aborted(r)) /\ Aborted(r).outcome = r.outcome BY <1>1, AbortedKeeps
  <1> HIDE DEF cleared
  <1>5. Becomes(r, s) /\ s.outcome = r.outcome BY <1>3, <1>4
  <1>6. /\ UNCHANGED <<page, fiber, nav, stop, enabled, destroyed>> /\ Finalize
        /\ page \in PageRec
    BY Flags DEF IframeGone
  <1> HIDE DEF s
  <1> QED BY <1>1, <1>2, <1>5, <1>6, OneMovesStep

\* The solver of an interstitial has its report to make.
LEMMA SolverReportsStep ==
  ASSUME Inv, signals' \in 0 .. MaxSignals, NEW d \in DOMAIN detections, SolverReports(d)
  PROVE  Goes
  <1> DEFINE r == detections[d]
             s == [r EXCEPT !.solver = "done"]
             u == Raced(s)
  <1>1. r \in DetRec /\ DetInv(r) /\ r.solver # "none" BY AllStay DEF SolverReports
  <1>2. detections' = [detections EXCEPT ![d] = u] BY DEF SolverReports
  <1>3. Becomes(r, s) BY <1>1, AttributeKeeps
  <1>4. r.type = "interstitial" BY <1>1 DEF DetRec, DetInv
  <1> HIDE DEF s
  <1>5. Becomes(s, u) BY <1>3, RacedKeeps DEF Becomes
  <1> HIDE DEF u
  <1>6. Becomes(r, u) BY <1>3, <1>5, BecomesBoth
  <1>7. /\ UNCHANGED <<page, fiber, nav, stop, enabled, destroyed>> /\ Finalize
        /\ page \in PageRec
    BY Flags DEF SolverReports
  <1> QED BY <1>2, <1>4, <1>6, <1>7, OneMovesStep

-----------------------------------------------------------------------------
(* The steps in which two detections may move on.                          *)

\* One after the detections are as in ds.
LEMMA ThenMoves ==
  ASSUME Inv, NEW ds, BecomesAll(detections, ds),
         \A k \in DOMAIN detections : ds[k].outcome = detections[k].outcome,
         NEW i \in DOMAIN detections, NEW s, Becomes(ds[i], s),
         detections' = [ds EXCEPT ![i] = s],
         \/ detections[i].type = "interstitial"
         \/ s.outcome = "solved" => detections[i].outcome = "solved"
  PROVE  /\ detections' \in Seq(DetRec) /\ Len(detections') = Len(detections)
         /\ \A k \in DOMAIN detections : Becomes(detections[k], detections'[k])
         /\ SolvesMarked /\ detections'[i] = s
         /\ \A k \in DOMAIN detections \ {i} : detections'[k] = ds[k]
  <1> DEFINE fs == [ds EXCEPT ![i] = s]
  <1>1. i \in DOMAIN ds BY Flags DEF BecomesAll
  <1>2. fs = [ds EXCEPT ![i] = s] /\ fs[i] = s BY <1>1
  <1> HIDE DEF fs
  <1>3. BecomesAll(detections, fs) BY <1>2, OneBecomes
  <1>4. \A k \in DOMAIN detections \ {i} : fs[k] = ds[k] BY <1>2, OneBecomes
  <1>5. SolvesMarked
    <2> SUFFICES ASSUME NEW k \in DOMAIN detections, detections[k].type = "turnstile",
                        detections[k].outcome # "solved", detections'[k].outcome = "solved"
                 PROVE  FALSE
      BY DEF SolvesMarked
    <2>1. detections' = fs BY DEF fs
    <2>2. k = i BY <1>4, <2>1
    <2> QED BY <1>2, <2>1, <2>2
  <1> QED BY <1>2, <1>3, <1>4, <1>5 DEF BecomesAll

\* The registered detection is aborted.
LEMMA AbortMoves ==
  ASSUME Inv, NEW ds, BecomesAll(detections, ds)
  PROVE  /\ BecomesAll(detections, Abort(ds))
         /\ \A k \in DOMAIN detections : Abort(ds)[k].outcome = ds[k].outcome
  <1>1. CASE registered = None BY <1>1 DEF Abort
  <1>2. CASE registered # None
    <2> DEFINE s == Aborted(ds[registered])
    <2>1. registered \in DOMAIN detections /\ detections \in Seq(DetRec)
      BY <1>2, RegisteredIs, Flags
    <2>2. ds[registered] \in DetRec /\ DetInv(ds[registered]) BY <2>1 DEF BecomesAll, Becomes
    <2>3. Becomes(ds[registered], s) /\ s.outcome = ds[registered].outcome
      BY <2>2, AbortedKeeps
    <2>4. Abort(ds) = [ds EXCEPT ![registered] = s] BY <1>2 DEF Abort
    <2> HIDE DEF s
    <2> DEFINE fs == [ds EXCEPT ![registered] = s]
    <2>5. registered \in DOMAIN ds BY <2>1 DEF BecomesAll
    <2>6. fs = [ds EXCEPT ![registered] = s] /\ fs[registered] = s BY <2>5
    <2> HIDE DEF fs
    <2>7. BecomesAll(detections, fs) BY <2>1, <2>3, <2>6, OneBecomes
    <2>8. \A k \in DOMAIN detections \ {registered} : fs[k] = ds[k]
      BY <2>1, <2>3, <2>6, OneBecomes
    <2> QED BY <2>3, <2>4, <2>6, <2>7, <2>8
  <1> QED BY <1>1, <1>2

\* A click is booked on it.
LEMMA ClickMoves ==
  ASSUME Inv
  PROVE  /\ BecomesAll(detections, SetClicked(detections))
         /\ \A k \in DOMAIN detections :
              LET s == SetClicked(detections)[k] IN
              /\ s.outcome = detections[k].outcome /\ s.scope = detections[k].scope
              /\ s.solver = "none" <=> detections[k].solver = "none"
  <1>1. CASE registered = None BY <1>1, AllStay DEF SetClicked
  <1>2. CASE registered # None
    <2> DEFINE r == detections[registered]
               s == [r EXCEPT !.clicked = TRUE]
    <2>1. registered \in DOMAIN detections /\ r \in DetRec /\ DetInv(r)
      BY <1>2, RegisteredIs
    <2>2. SetClicked(detections) = [detections EXCEPT ![registered] = s]
      BY <1>2 DEF SetClicked
    <2>3. /\ Becomes(r, s) /\ s.outcome = r.outcome /\ s.scope = r.scope
          /\ s.solver = "none" <=> r.solver = "none"
      BY <2>1, AttributeKeeps
    <2> HIDE DEF s
    <2>4. detections \in Seq(DetRec) /\ BecomesAll(detections, detections) BY AllStay, Flags
    <2> DEFINE fs == [detections EXCEPT ![registered] = s]
    <2>5. /\ BecomesAll(detections, fs) /\ fs[registered] = s
          /\ \A k \in DOMAIN detections \ {registered} : fs[k] = detections[k]
      BY <2>1, <2>3, <2>4, OneBecomes
    <2> HIDE DEF fs
    <2>6. SetClicked(detections) = fs BY <2>2 DEF fs
    <2> QED BY <2>3, <2>5, <2>6
  <1> QED BY <1>1, <1>2

LEMMA SolverEndsStep ==
  ASSUME Inv, signals' \in 0 .. MaxSignals, NEW d \in DOMAIN detections, SolverEnds(d)
  PROVE  Goes
  <1> DEFINE r == detections[d]
  <1>1. r \in DetRec /\ DetInv(r) /\ r.solver # "none" BY AllStay DEF SolverEnds
  <1>2. r.type = "interstitial" BY <1>1 DEF DetRec, DetInv
  <1>3. /\ UNCHANGED <<page, fiber, nav, stop, enabled, destroyed>> /\ Finalize
        /\ page \in PageRec
    BY Flags DEF SolverEnds
  <1>4. ASSUME NEW ds \in {detections, SetClicked(detections)},
               detections' = [ds EXCEPT ![d].solver = "racing"]
        PROVE  Goes
    <2> DEFINE s == [ds[d] EXCEPT !.solver = "racing"]
    <2>1. /\ BecomesAll(detections, ds) /\ ds[d].solver # "none"
          /\ \A k \in DOMAIN detections : ds[k].outcome = detections[k].outcome
      BY <1>1, AllStay, ClickMoves
    <2>2. ds[d] \in DetRec /\ DetInv(ds[d]) BY <2>1 DEF BecomesAll, Becomes
    <2>3. Becomes(ds[d], s) BY <2>1, <2>2, AttributeKeeps
    <2>4. detections' = [ds EXCEPT ![d] = s] BY <1>4
    <2> HIDE DEF s
    <2> QED BY <1>2, <1>3, <2>1, <2>3, <2>4, ThenMoves, MovesStep
  <1>5. ASSUME detections' = [detections EXCEPT ![d] =
                                [Settled(Aborted(@), "failed") EXCEPT !.solver = "racing"]]
        PROVE  Goes
    <2> DEFINE a == Aborted(r)
               s == Settled(a, "failed")
               u == [s EXCEPT !.solver = "racing"]
    <2>1. Becomes(r, a) /\ a.solver # "none"
      BY <1>1, <1>2, AbortedKeeps, ClosedKeeps DEF Aborted, Closed, DetRec
    <2> HIDE DEF a
    <2>2. Becomes(a, s) BY <2>1, SettledKeeps DEF Becomes
    <2>3. s.solver # "none" BY <2>1 DEF Becomes, Settled, DetRec
    <2> HIDE DEF s
    <2>4. Becomes(s, u) BY <2>2, <2>3, AttributeKeeps DEF Becomes
    <2>5. detections' = [detections EXCEPT ![d] = u] BY <1>5 DEF s, a
    <2> HIDE DEF u
    <2>6. Becomes(r, u) BY <2>1, <2>2, <2>4, BecomesBoth
    <2> QED BY <1>2, <1>3, <2>5, <2>6, OneMovesStep
  <1> QED BY <1>4, <1>5 DEF SolverEnds

-----------------------------------------------------------------------------
(* Navigations of the page.                                                *)

\* A navigation handler is replaced by one that is about to judge an interstitial, or not.
LEMMA NavSet ==
  ASSUME Inv, NEW e \in Events, NEW v \in NavRec, nav' = [nav EXCEPT ![e] = v],
         v.pc = "classifying" =>
           v.d \in DOMAIN detections /\ detections[v.d].type = "interstitial"
  PROVE  nav' \in [Events -> NavRec] /\ NavKeeps
  <1>1. nav \in [Events -> NavRec] BY Flags
  <1>2. nav' \in [Events -> NavRec] BY <1>1
  <1>3. \A f \in Events : nav'[f] \in {nav[f], v} BY <1>1
  <1>4. NavInv BY DEF Inv
  <1>5. ASSUME NEW f \in Events, nav'[f].pc = "classifying"
        PROVE  nav'[f].d \in DOMAIN detections /\ detections[nav'[f].d].type = "interstitial"
    <2>1. CASE nav'[f] = v BY <1>5, <2>1
    <2>2. CASE nav'[f] = nav[f] BY <1>4, <1>5, <2>2 DEF NavInv
    <2> QED BY <1>3, <2>1, <2>2
  <1> QED BY <1>2, <1>5 DEF NavKeeps

LEMMA NavigatedStep ==
  ASSUME Inv, signals' \in 0 .. MaxSignals, NEW e \in Events, NEW to \in Destinations,
         Navigated(e, to)
  PROVE  Goes
  <1> DEFINE v == IF registered # None /\ detections[registered].type = "interstitial"
                  THEN [pc |-> "classifying", d |-> registered, to |-> to]
                  ELSE IF enabled THEN Waiting ELSE NoNav
  <1>1. /\ page \in PageRec /\ registered \in Refs /\ fiber' \in FiberRec /\ enabled' \in BOOLEAN
        /\ UNCHANGED <<fiber, stop, enabled, destroyed>> /\ Finalize
        /\ nav' = [nav EXCEPT ![e] = v]
    BY Flags DEF Navigated
  <1>2. v \in NavRec BY <1>1 DEF NavRec, Waiting, NoNav, Refs, Destinations
  <1>3. v.pc = "classifying" =>
          v.d \in DOMAIN detections /\ detections[v.d].type = "interstitial"
    BY RegisteredIs DEF Waiting, NoNav
  <1> HIDE DEF v
  <1>4. nav' \in [Events -> NavRec] /\ NavKeeps BY <1>1, <1>2, <1>3, NavSet
  <1>5. FiberGoes BY <1>1 DEF FiberGoes
  <1>6. Known \in PageRec /\ Known.solved = page.solved /\ Known.reloads = page.reloads
    BY <1>1 DEF Known, PageRec
  <1>7. CASE ~(registered # None /\ detections[registered].type = "turnstile")
    <2>1. page' = Known /\ UNCHANGED detections BY <1>7 DEF Navigated
    <2>2. PageKeeps BY <1>1, <1>6, <2>1, PageStays
    <2>3. SolvesMarked BY <2>1 DEF SolvesMarked
    <2> QED BY <1>1, <1>4, <1>5, <1>6, <2>1, <2>2, <2>3, AllStay, StepKeeps DEF BecomesAll
  <1>8. CASE registered # None /\ detections[registered].type = "turnstile"
    <2> DEFINE r == detections[registered]
    <2>1. /\ NavigatedTurnstile(to) /\ registered \in DOMAIN detections
          /\ r \in DetRec /\ DetInv(r)
      BY <1>8, RegisteredIs DEF Navigated
    <2>2. CASE to = "challenge"
      <3> DEFINE s == Aborted(r)
      <3>1. /\ detections' = [detections EXCEPT ![registered] = s]
            /\ page' = [Known EXCEPT !.autoSolved = TRUE]
        BY <1>8, <2>1, <2>2 DEF NavigatedTurnstile, Abort
      <3>2. page' \in PageRec /\ page'.solved = page.solved /\ page'.reloads = page.reloads
        BY <1>6, <3>1 DEF PageRec
      <3>3. Becomes(r, s) /\ s.outcome = r.outcome BY <2>1, AbortedKeeps
      <3>4. PageKeeps BY <1>1, <3>2, PageStays
      <3> HIDE DEF s
      <3>5. /\ detections' \in Seq(DetRec) /\ Len(detections') = Len(detections)
            /\ \A k \in DOMAIN detections : Becomes(detections[k], detections'[k])
            /\ SolvesMarked
        BY <2>1, <3>1, <3>3, OneMoves
      <3> QED BY <1>1, <1>4, <1>5, <3>2, <3>4, <3>5, StepKeeps
    <2>3. CASE to # "challenge"
      <3> DEFINE told == Told(r, "solved")
                 a == Aborted(told)
                 s == Settled(a, "solved")
      <3>1. detections' = [detections EXCEPT ![registered] = s] /\ page' = MarkSolved(Known)
        BY <2>1, <2>3 DEF NavigatedTurnstile
      <3>2. page' \in PageRec /\ page'.solved /\ page'.reloads = page.reloads
        BY <1>6, <3>1 DEF PageRec, MarkSolved
      <3>3. Becomes(r, told) BY <2>1, ToldKeeps
      <3> HIDE DEF told
      <3>4. Becomes(told, a) BY <3>3, AbortedKeeps DEF Becomes
      <3> HIDE DEF a
      <3>5. Becomes(a, s) BY <3>4, SettledKeeps DEF Becomes
      <3> HIDE DEF s
      <3>6. Becomes(r, s) BY <3>3, <3>4, <3>5, BecomesBoth
      <3>7. PageKeeps BY <1>1, <3>2, PageStays
      <3>8. /\ detections' \in Seq(DetRec) /\ Len(detections') = Len(detections)
            /\ \A k \in DOMAIN detections : Becomes(detections[k], detections'[k])
            /\ SolvesMarked
        BY <1>1, <2>1, <3>1, <3>2, <3>6, OneMoves
      <3> QED BY <1>1, <1>4, <1>5, <3>2, <3>7, <3>8, StepKeeps
    <2> QED BY <2>2, <2>3
  <1> QED BY <1>7, <1>8

\* The judgement on an interstitial, after the handler's sleep.
LEMMA ClassifiedStep ==
  ASSUME Inv, signals' \in 0 .. MaxSignals, NEW e \in Events, Classified(e)
  PROVE  Goes
  <1> DEFINE d == nav[e].d
  <1>1. d \in DOMAIN detections /\ detections[d].type = "interstitial"
    BY DEF Inv, NavInv, Classified
  <1>2. nav' \in [Events -> NavRec] /\ NavKeeps BY NavEnds DEF Classified
  <1>3. /\ UNCHANGED <<stop, enabled, destroyed>> /\ enabled' \in BOOLEAN
        /\ page \in PageRec /\ fiber \in FiberRec
        /\ NavRechallenged(d) \/ NavStripped(d) \/ NavSolved(d)
    BY Flags DEF Classified
  <1> HIDE DEF d
  <1>4. CASE NavRechallenged(d)
    <2> DEFINE ds == Abort(detections)
               s == Settled(ds[d], "failed")
               count == detections[d].rechallenges + 1
    <2>1. /\ BecomesAll(detections, ds)
          /\ \A k \in DOMAIN detections : ds[k].outcome = detections[k].outcome
      BY AllStay, AbortMoves
    <2>2. detections' = [ds EXCEPT ![d] = s] /\ Finalize
      BY <1>4 DEF NavRechallenged, Challenged
    <2> HIDE DEF ds
    <2>3. ds[d] \in DetRec /\ DetInv(ds[d]) BY <1>1, <2>1 DEF BecomesAll, Becomes
    <2>4. Becomes(ds[d], s) BY <2>3, SettledKeeps
    <2> HIDE DEF s
    <2>5. /\ detections' \in Seq(DetRec) /\ Len(detections') = Len(detections)
          /\ \A k \in DOMAIN detections : Becomes(detections[k], detections'[k])
          /\ SolvesMarked
      BY <1>1, <2>1, <2>2, <2>4, ThenMoves
    <2>6. /\ page' \in PageRec /\ page'.solved = page.solved /\ page'.reloads = page.reloads
          /\ FiberGoes /\ fiber' \in FiberRec
          /\ fiber'.pc = "grace" => fiber' = fiber
      <3>1. CASE LimitReached(count)
        <4>1. page' = [page EXCEPT !.autoSolved = TRUE] /\ fiber' = fiber
          BY <1>4, <3>1 DEF NavRechallenged
        <4> QED BY <1>3, <4>1 DEF PageRec, FiberGoes
      <3>2. CASE ~LimitReached(count)
        <4>1. page' = [page EXCEPT !.rechallenges = count] /\ StartDetection(page')
          BY <1>4, <3>2 DEF NavRechallenged
        <4>2. detections[d].rechallenges \in 0 .. MaxRechallenges - 1
          BY <1>1, AllStay DEF DetRec
        <4>3. count \in 0 .. MaxRechallenges - 1
          BY <3>2, <4>2, BoundsAreCounts DEF LimitReached, BoundsAreCounts
        <4> HIDE DEF count
        <4>4. page' \in PageRec /\ page'.solved = page.solved /\ page'.reloads = page.reloads
          BY <1>3, <4>1, <4>3 DEF PageRec
        <4>5. FiberGoes /\ fiber' \in FiberRec /\ (fiber'.pc = "grace" => fiber' = fiber)
          BY <4>1, StartDetectionGoes
        <4> QED BY <4>4, <4>5
      <3> QED BY <3>1, <3>2
    <2>7. PageKeeps BY <2>6, PageStays
    <2> QED BY <1>2, <1>3, <2>2, <2>5, <2>6, <2>7, StepKeeps
  <1>5. CASE NavStripped(d)
    <2> DEFINE r == detections[d]
               s == [r EXCEPT !.cosmetic = TRUE]
    <2>1. r \in DetRec /\ DetInv(r) BY <1>1, AllStay
    <2>2. detections' = [detections EXCEPT ![d] = s] /\ UNCHANGED <<registered, page>>
      BY <1>5 DEF NavStripped
    <2>3. Becomes(r, s) /\ s.scope = r.scope BY <2>1, AttributeKeeps
    <2> HIDE DEF s
    <2>4. /\ detections' \in Seq(DetRec) /\ Len(detections') = Len(detections)
          /\ \A k \in DOMAIN detections : Becomes(detections[k], detections'[k])
          /\ SolvesMarked /\ Finalize
      BY <1>1, <2>2, <2>3, OneMoves
    <2>5. FiberGoes /\ fiber' \in FiberRec /\ (fiber'.pc = "grace" => fiber' = fiber)
      BY <1>5, <2>2, StartDetectionGoes DEF NavStripped
    <2>6. PageKeeps BY <2>2, <2>5, PageStays
    <2> QED BY <1>2, <1>3, <2>2, <2>4, <2>5, <2>6, StepKeeps
  <1>6. CASE NavSolved(d)
    <2> DEFINE r == detections[d]
               told == Told(r, "solved")
               es == [detections EXCEPT ![d] = told]
               ds == Abort(es)
               s == Settled(ds[d], "solved")
    <2>1. r \in DetRec /\ DetInv(r) BY <1>1, AllStay
    <2>2. detections' = [ds EXCEPT ![d] = s] /\ Finalize /\ page' = page /\ StartDetection(page)
      BY <1>6 DEF NavSolved
    <2>3. Becomes(r, told) /\ told.outcome = r.outcome BY <2>1, ToldKeeps
    <2> HIDE DEF told
    <2>4. BecomesAll(detections, detections) BY AllStay
    <2>5. es = [detections EXCEPT ![d] = told] OBVIOUS
    <2> HIDE DEF es
    <2>6. /\ BecomesAll(detections, es) /\ es[d] = told
          /\ \A k \in DOMAIN detections \ {d} : es[k] = detections[k]
      BY <1>1, <2>3, <2>4, <2>5, OneBecomes
    <2>7. \A k \in DOMAIN detections : es[k].outcome = detections[k].outcome BY <2>3, <2>6
    <2>8. /\ BecomesAll(detections, ds)
          /\ \A k \in DOMAIN detections : ds[k].outcome = detections[k].outcome
      BY <2>6, <2>7, AbortMoves
    <2> HIDE DEF ds
    <2>9. ds[d] \in DetRec /\ DetInv(ds[d]) BY <1>1, <2>8 DEF BecomesAll, Becomes
    <2>10. Becomes(ds[d], s) BY <2>9, SettledKeeps
    <2> HIDE DEF s
    <2>11. /\ detections' \in Seq(DetRec) /\ Len(detections') = Len(detections)
           /\ \A k \in DOMAIN detections : Becomes(detections[k], detections'[k])
           /\ SolvesMarked
      BY <1>1, <2>2, <2>8, <2>10, ThenMoves
    <2>12. FiberGoes /\ fiber' \in FiberRec /\ (fiber'.pc = "grace" => fiber' = fiber)
      BY <2>2, StartDetectionGoes
    <2>13. PageKeeps BY <2>2, <2>12, PageStays
    <2> QED BY <1>2, <1>3, <2>2, <2>11, <2>12, <2>13, StepKeeps
  <1> QED BY <1>3, <1>4, <1>5, <1>6

-----------------------------------------------------------------------------
(* The handling of an embedded turnstile, from its dispatch to its retry.  *)

LEMMA ArmedKeeps ==
  ASSUME NEW r \in DetRec, DetInv(r)
  PROVE  Becomes(r, Armed(r)) /\ Armed(r).scope = r.scope /\ Armed(r).outcome = r.outcome
  <1>1. Becomes(r, r) BY DEF Becomes
  <1>2. /\ Becomes(r, Watched(r, "rejection")) /\ Watched(r, "rejection").scope = r.scope
        /\ Watched(r, "rejection").outcome = r.outcome
    BY AttributeKeeps
  <1>3. Armed(r) \in {r, Watched(r, "rejection")} BY DEF Armed
  <1> QED BY <1>1, <1>2, <1>3

\* The page's fiber goes on with its detection, which nothing settles as solved.
LEMMA HandlingStep ==
  ASSUME Inv, signals' \in 0 .. MaxSignals, fiber.pc \in Handling,
         detections' \in Seq(DetRec), Len(detections') = Len(detections),
         \A i \in DOMAIN detections : Becomes(detections[i], detections'[i]),
         Finalize, SolvesMarked,
         NEW pc \in Handling, fiber' = [fiber EXCEPT !.pc = pc],
         pc = "grace" => page.reloads < MaxWidgetReloads,
         UNCHANGED <<page, nav, stop, enabled, destroyed>>
  PROVE  Goes
  <1>1. /\ page \in PageRec /\ fiber \in FiberRec /\ enabled \in BOOLEAN
        /\ nav' \in [Events -> NavRec] /\ NavKeeps
    BY Flags, NavEnds
  <1>2. fiber' \in FiberRec /\ fiber'.pc = pc /\ fiber'.d = fiber.d
    BY <1>1 DEF FiberRec, Handling
  <1>3. FiberGoes BY <1>2 DEF FiberGoes
  <1>4. PageKeeps BY <1>2 DEF PageKeeps
  <1> QED BY <1>1, <1>2, <1>3, <1>4, StepKeeps

LEMMA DispatchEndsStep ==
  ASSUME Inv, signals' \in 0 .. MaxSignals, DispatchEnds
  PROVE  Goes
  <1> DEFINE d == fiber.d
             r == detections[d]
  <1>1. fiber.pc = "dispatch" /\ fiber.pc \in Handling BY DEF DispatchEnds, Handling
  <1>2. d \in DOMAIN detections BY <1>1 DEF Inv, FiberInv
  <1>3. r \in DetRec /\ DetInv(r) BY <1>2, AllStay
  <1>4. UNCHANGED <<registered, page, nav, stop, enabled, destroyed>>
    BY DEF DispatchEnds, NoWidget
  <1>5. "race" \in Handling /\ "grace" \in Handling BY DEF Handling
  <1> HIDE DEF d
  <1>6. CASE NoWidget(d)
    <2> DEFINE w == Watched(r, "stuck")
               s == Armed(w)
               t == Settled(r, "failed")
    <2>1. CASE detections' = [detections EXCEPT ![d] = s] /\ fiber' = [fiber EXCEPT !.pc = "race"]
      <3>1. Becomes(r, w) /\ w.scope = r.scope /\ w.outcome = r.outcome
        BY <1>3, AttributeKeeps
      <3> HIDE DEF w
      <3>2. Becomes(w, s) /\ s.scope = w.scope /\ s.outcome = w.outcome
        BY <3>1, ArmedKeeps DEF Becomes
      <3> HIDE DEF s
      <3>3. Becomes(r, s) BY <3>1, <3>2, BecomesBoth
      <3> HIDE DEF r
      <3>4. /\ detections' \in Seq(DetRec) /\ Len(detections') = Len(detections)
            /\ \A k \in DOMAIN detections : Becomes(detections[k], detections'[k])
            /\ SolvesMarked /\ Finalize
        BY <1>2, <1>4, <2>1, <3>1, <3>2, <3>3, OneMoves DEF r
      <3> QED BY <1>1, <1>4, <1>5, <2>1, <3>4, HandlingStep
    <2>2. CASE detections' = [detections EXCEPT ![d] = t] /\ fiber' = [fiber EXCEPT !.pc = "race"]
      <3>1. /\ Becomes(r, t) /\ t.scope = r.scope
            /\ t.outcome = "solved" => r.outcome = "solved"
        BY <1>3, SettledKeeps
      <3> HIDE DEF t, r
      <3>2. /\ detections' \in Seq(DetRec) /\ Len(detections') = Len(detections)
            /\ \A k \in DOMAIN detections : Becomes(detections[k], detections'[k])
            /\ SolvesMarked /\ Finalize
        BY <1>2, <1>4, <2>2, <3>1, OneMoves DEF r
      <3> QED BY <1>1, <1>4, <1>5, <2>2, <3>2, HandlingStep
    <2>3. CASE /\ page.reloads < MaxWidgetReloads
               /\ fiber' = [fiber EXCEPT !.pc = "grace"] /\ UNCHANGED detections
      BY <1>1, <1>4, <1>5, <2>3, NothingMoves, HandlingStep
    <2> QED BY <1>6, <2>1, <2>2, <2>3 DEF NoWidget
  <1>7. ASSUME NEW ds \in {detections, SetClicked(detections)},
               detections' = IF r.via = "dom" THEN [ds EXCEPT ![d] = Armed(@)] ELSE ds,
               fiber' = [fiber EXCEPT !.pc = "race"]
        PROVE  Goes
    <2> DEFINE s == Armed(ds[d])
    <2>1. /\ BecomesAll(detections, ds)
          /\ \A k \in DOMAIN detections :
               ds[k].outcome = detections[k].outcome /\ ds[k].scope = detections[k].scope
      BY <1>7, AllStay, ClickMoves
    <2>2. ds[d] \in DetRec /\ DetInv(ds[d]) BY <1>2, <2>1 DEF BecomesAll, Becomes
    <2>3. Becomes(ds[d], s) /\ s.scope = ds[d].scope /\ s.outcome = ds[d].outcome
      BY <2>2, ArmedKeeps
    <2>4. detections' = [ds EXCEPT ![d] = s] \/ detections' = ds BY <1>7
    <2> HIDE DEF s, r
    <2>5. CASE detections' = [ds EXCEPT ![d] = s]
      <3>1. /\ detections' \in Seq(DetRec) /\ Len(detections') = Len(detections)
            /\ \A k \in DOMAIN detections : Becomes(detections[k], detections'[k])
            /\ SolvesMarked
        BY <1>2, <2>1, <2>3, <2>5, ThenMoves
      <3>2. DOMAIN ds = DOMAIN detections /\ ds \in Seq(DetRec) BY <2>1, Flags DEF BecomesAll
      <3>3. \A k \in DOMAIN detections : detections'[k] = IF k = d THEN s ELSE ds[k]
        BY <2>5, <3>2
      <3>4. Finalize BY <1>4, <2>1, <2>3, <3>3, NothingCloses
      <3> QED BY <1>1, <1>4, <1>5, <1>7, <3>1, <3>4, HandlingStep
    <2>6. CASE detections' = ds
      <3>1. SolvesMarked BY <2>1, <2>6 DEF SolvesMarked
      <3>2. Finalize BY <1>4, <2>1, <2>6, NothingCloses
      <3> QED BY <1>1, <1>4, <1>5, <1>7, <2>1, <2>6, <3>1, <3>2, HandlingStep DEF BecomesAll
    <2> QED BY <2>4, <2>5, <2>6
  <1>8. NoWidget(d) \/ \E ds \in {detections, SetClicked(detections)} :
          /\ detections' = IF r.via = "dom" THEN [ds EXCEPT ![d] = Armed(@)] ELSE ds
          /\ fiber' = [fiber EXCEPT !.pc = "race"]
    BY DEF DispatchEnds, d
  <1> QED BY <1>6, <1>7, <1>8

\* A detection that is closed is not the page's.
LEMMA ClosedIsGone ==
  ASSUME Inv, Finalize, NEW d \in DOMAIN detections, detections'[d].scope = "closed"
  PROVE  registered' # d
  <1>1. /\ d # None
        /\ detections[d].scope = "open" <=> registered = d
    BY OpenIs
  <1> QED BY <1>1 DEF Finalize

LEMMA GraceEndsStep ==
  ASSUME Inv, signals' \in 0 .. MaxSignals, GraceEnds
  PROVE  Goes
  <1> DEFINE d == fiber.d
             r == detections[d]
  <1>1. /\ fiber.pc = "grace" /\ fiber.pc \in Handling /\ "race" \in Handling
        /\ Finalize /\ UNCHANGED <<nav, stop, enabled, destroyed>>
    BY DEF GraceEnds, Handling
  <1>2. d \in DOMAIN detections /\ page.reloads < MaxWidgetReloads
    BY <1>1 DEF Inv, FiberInv
  <1>3. r \in DetRec /\ DetInv(r) /\ page \in PageRec /\ enabled \in BOOLEAN
    BY <1>2, AllStay, Flags
  <1> HIDE DEF d
  <1>4. CASE Unsettled(d)
    <2> DEFINE s == Settled(r, "failed")
               t == Told(s, "failed")
               u == Resolved(t)
    <2>1. /\ detections' = [detections EXCEPT ![d] = u]
          /\ page' = [page EXCEPT !.reloads = @ + 1] /\ fiber' = Idle
      BY <1>4 DEF GraceEnds, d
    <2>2. Becomes(r, s) /\ s.outcome = "failed" BY <1>3, <1>4, SettledKeeps DEF Unsettled
    <2> HIDE DEF s
    <2>3. Becomes(s, t) /\ t.outcome = "failed" BY <2>2, ToldKeeps DEF Becomes
    <2> HIDE DEF t
    <2>4. Becomes(t, u) /\ u.scope = "closed" /\ u.outcome = "failed"
      BY <2>3, ResolvedKeeps DEF Becomes
    <2> HIDE DEF u
    <2>5. Becomes(r, u) BY <2>2, <2>3, <2>4, BecomesBoth
    <2> HIDE DEF r
    <2>6. /\ detections' \in Seq(DetRec) /\ Len(detections') = Len(detections)
          /\ \A k \in DOMAIN detections : Becomes(detections[k], detections'[k])
          /\ SolvesMarked /\ detections'[d] = u
      BY <1>2, <2>1, <2>4, <2>5, OneMoves DEF r
    <2>7. registered' # d BY <1>1, <1>2, <2>4, <2>6, ClosedIsGone
    <2>8. page.reloads + 1 \in 0 .. MaxWidgetReloads
      BY <1>2, <1>3, BoundsAreCounts DEF PageRec, BoundsAreCounts
    <2>9. page' \in PageRec /\ page'.solved = page.solved BY <1>3, <2>1, <2>8 DEF PageRec
    <2>10. fiber' \in FiberRec /\ fiber'.pc = "idle" BY <2>1 DEF Idle, FiberRec, Refs
    <2>11. FiberGoes BY <1>1, <2>4, <2>6, <2>7, <2>10 DEF FiberGoes, UntoldSolve, d
    <2>12. PageKeeps BY <2>9, <2>10 DEF PageKeeps
    <2>13. nav' \in [Events -> NavRec] /\ NavKeeps BY <1>1, NavEnds
    <2> QED BY <1>1, <1>3, <2>6, <2>9, <2>10, <2>11, <2>12, <2>13, StepKeeps
  <1>5. CASE ~Unsettled(d)
    <2>1. fiber' = [fiber EXCEPT !.pc = "race"] /\ UNCHANGED <<detections, page>>
      BY <1>5 DEF GraceEnds, d
    <2>2. SolvesMarked BY <2>1 DEF SolvesMarked
    <2> QED BY <1>1, <2>1, <2>2, AllStay, HandlingStep DEF BecomesAll
  <1> QED BY <1>4, <1>5

LEMMA RaceEndsStep ==
  ASSUME Inv, signals' \in 0 .. MaxSignals, RaceEnds
  PROVE  Goes
  <1> DEFINE d == fiber.d
             r == detections[d]
             raced == Raced(r)
             retry == raced.rejected /\ ~raced.aborted /\ page.rejections < MaxClickRetries
             n == IF retry THEN page.rejections + 1 ELSE page.rejections
             b == page.solved \/ raced.outcome = "solved"
  <1>1. /\ fiber.pc = "race" /\ fiber.pc \in Handling /\ "race" \in Handling
        /\ Finalize /\ UNCHANGED <<nav, stop, enabled, destroyed>>
    BY DEF RaceEnds, Handling
  <1>2. d \in DOMAIN detections BY <1>1 DEF Inv, FiberInv
  <1>3. r \in DetRec /\ DetInv(r) /\ page \in PageRec /\ enabled \in BOOLEAN /\ fiber \in FiberRec
    BY <1>2, AllStay, Flags
  <1>4. /\ detections' = [detections EXCEPT ![d] = raced]
        /\ page' = [page EXCEPT !.solved = b, !.rejections = n]
        /\ fiber' = IF retry THEN [fiber EXCEPT !.pc = "restart"] ELSE Idle
    BY DEF RaceEnds
  <1>5. /\ Becomes(r, raced) /\ raced.scope = "closed"
        /\ raced.outcome = "solved" => r.outcome = "solved"
        /\ destroyed \/ raced.outcome \in raced.told
    BY <1>3, RacedKeeps
  <1>6. n \in 0 .. MaxClickRetries BY <1>3, BoundsAreCounts DEF PageRec, BoundsAreCounts
  <1>7. b \in BOOLEAN /\ (page.solved => b) BY <1>3 DEF PageRec
  <1>8. fiber' \in {Idle, [fiber EXCEPT !.pc = "restart"]} BY <1>4
  <1> HIDE DEF raced, retry, n, b, r, d
  <1>9. /\ page' \in PageRec /\ page'.reloads = page.reloads
        /\ page.solved => page'.solved
    BY <1>3, <1>4, <1>6, <1>7 DEF PageRec
  <1>10. /\ detections' \in Seq(DetRec) /\ Len(detections') = Len(detections)
         /\ \A k \in DOMAIN detections : Becomes(detections[k], detections'[k])
         /\ SolvesMarked /\ detections'[d] = raced
    BY <1>2, <1>4, <1>5, OneMoves DEF r
  <1>11. registered' # d BY <1>1, <1>2, <1>5, <1>10, ClosedIsGone
  <1>12. /\ fiber' \in FiberRec /\ fiber'.pc \in {"idle", "restart"}
         /\ fiber'.d = d \/ fiber'.pc = "idle"
    BY <1>3, <1>8 DEF Idle, FiberRec, Refs, d
  <1>13. FiberGoes BY <1>1, <1>2, <1>5, <1>10, <1>11, <1>12 DEF FiberGoes, UntoldSolve, d
  <1>14. PageKeeps BY <1>9, <1>12, PageStays
  <1>15. nav' \in [Events -> NavRec] /\ NavKeeps BY <1>1, NavEnds
  <1> QED BY <1>1, <1>3, <1>9, <1>10, <1>12, <1>13, <1>14, <1>15, StepKeeps

-----------------------------------------------------------------------------
(* The steps that register a detection.                                    *)

LEMMA NewKeeps ==
  ASSUME NEW type \in {"turnstile", "interstitial"}, NEW via \in {"url", "dom", "bridge"},
         NEW n \in 0 .. MaxRechallenges - 1, NEW b \in BOOLEAN
  PROVE  LET r == NewDetection(type, via, n, b) IN
         /\ r \in DetRec /\ DetInv(r) /\ r.type = type
         /\ r.scope = "open" /\ r.outcome = "pending" /\ r.told = {}
  <1>1. 1 \in 1 .. MaxAttempts BY BoundsAreCounts DEF BoundsAreCounts
  <1> QED BY <1>1 DEF NewDetection, DetRec, DetInv

\* Only a page without a detection registers one, so no scope is replaced.
LEMMA TriggerSolveStep ==
  ASSUME Inv, signals' \in 0 .. MaxSignals,
         NEW p \in PageRec, p.solved = page.solved, p.reloads = page.reloads,
         NEW via \in {"url", "dom"}, TriggerSolve(p, via),
         nav' \in [Events -> NavRec], NavKeeps, UNCHANGED <<stop, enabled, destroyed>>,
         fiber' = fiber \/ (fiber.pc = "detect" /\ fiber' = Idle)
  PROVE  Goes
  <1>1. enabled' \in BOOLEAN /\ fiber \in FiberRec BY Flags
  <1>2. CASE page' = p /\ UNCHANGED <<detections, registered>>
    <2>1. fiber' \in FiberRec BY <1>1 DEF Idle, FiberRec, Refs
    <2>2. FiberGoes BY DEF FiberGoes, Idle, Looking
    <2>3. fiber'.pc = "grace" => fiber.pc = "grace" BY DEF Idle
    <2> QED BY <1>1, <1>2, <2>1, <2>2, <2>3, StillStep
  <1>3. CASE ~(page' = p /\ UNCHANGED <<detections, registered>>)
    <2> DEFINE r == NewDetection("interstitial", via, p.rechallenges, p.iframe)
    <2>1. /\ registered = None /\ ~destroyed /\ Register(r)
          /\ page' = [p EXCEPT !.rechallenges = 0, !.iframe = FALSE]
      BY <1>3 DEF TriggerSolve
    <2>2. p.rechallenges \in 0 .. MaxRechallenges - 1 /\ p.iframe \in BOOLEAN BY DEF PageRec
    <2>3. /\ r \in DetRec /\ DetInv(r) /\ r.type = "interstitial"
          /\ r.scope = "open" /\ r.outcome = "pending" /\ r.told = {}
      BY <2>2, NewKeeps
    <2> HIDE DEF r
    <2>4. /\ Len(detections) < MaxDetections /\ detections' = Append(detections, r)
          /\ registered' = Len(detections) + 1
      BY <2>1 DEF Register
    <2>5. 0 \in 0 .. MaxRechallenges - 1 BY BoundsAreCounts DEF BoundsAreCounts
    <2>6. page' \in PageRec /\ page'.solved = page.solved /\ page'.reloads = page.reloads
      BY <2>1, <2>5 DEF PageRec
    <2> QED BY <1>1, <2>1, <2>3, <2>4, <2>6, AppendKeeps
  <1> QED BY <1>2, <1>3

LEMMA AttachedStep ==
  ASSUME Inv, signals' \in 0 .. MaxSignals,
         FrameOnChallenge \/ \E to \in {"challenge", "clean"} : PageAttached(to)
  PROVE  Goes
  <1>1. /\ page \in PageRec /\ fiber \in FiberRec /\ enabled \in BOOLEAN
        /\ UNCHANGED <<fiber, stop, enabled, destroyed>>
    BY Flags DEF FrameOnChallenge, PageAttached
  <1>2. Known \in PageRec /\ Known.solved = page.solved /\ Known.reloads = page.reloads
    BY <1>1 DEF Known, PageRec
  <1>3. nav' \in [Events -> NavRec] /\ NavKeeps
    BY NavEnds DEF FrameOnChallenge, PageAttached, Events
  <1>4. CASE TriggerSolve(Known, "url") BY <1>1, <1>2, <1>3, <1>4, TriggerSolveStep
  <1>5. CASE page' = Known /\ UNCHANGED <<detections, registered>>
    <2>1. FiberGoes BY <1>1 DEF FiberGoes
    <2> QED BY <1>1, <1>2, <1>3, <1>5, <2>1, StillStep
  <1> QED BY <1>4, <1>5 DEF FrameOnChallenge, PageAttached

LEMMA DetectedInterstitialStep ==
  ASSUME Inv, signals' \in 0 .. MaxSignals, DetectedInterstitial
  PROVE  Goes
  <1>1. page \in PageRec /\ UNCHANGED <<nav, stop, enabled, destroyed>>
    BY Flags DEF DetectedInterstitial
  <1>2. nav' \in [Events -> NavRec] /\ NavKeeps BY <1>1, NavEnds
  <1> QED BY <1>1, <1>2, TriggerSolveStep DEF DetectedInterstitial

LEMMA DetectedByBridgeStep ==
  ASSUME Inv, signals' \in 0 .. MaxSignals, DetectedByBridge
  PROVE  Goes
  <1> DEFINE r == NewDetection("turnstile", "bridge", 0, FALSE)
  <1>1. /\ page \in PageRec /\ enabled \in BOOLEAN
        /\ UNCHANGED <<page, nav, stop, enabled, destroyed>>
        /\ fiber.pc = "detect" /\ registered = None /\ Register(r)
        /\ fiber' = [pc |-> "dispatch", d |-> registered']
    BY Flags DEF DetectedByBridge
  <1>2. 0 \in 0 .. MaxRechallenges - 1 BY BoundsAreCounts DEF BoundsAreCounts
  <1>3. /\ r \in DetRec /\ DetInv(r) /\ r.scope = "open" /\ r.outcome = "pending"
        /\ r.told = {}
    BY <1>2, NewKeeps
  <1> HIDE DEF r
  <1>4. /\ Len(detections) < MaxDetections /\ detections' = Append(detections, r)
        /\ registered' = Len(detections) + 1
    BY <1>1 DEF Register
  <1>5. nav' \in [Events -> NavRec] /\ NavKeeps BY <1>1, NavEnds
  <1>6. ~destroyed BY <1>1 DEF Inv, OverInv, Idle
  <1> QED BY <1>1, <1>3, <1>4, <1>5, <1>6, AppendKeeps

LEMMA DetectedEmbeddedStep ==
  ASSUME Inv, signals' \in 0 .. MaxSignals, DetectedEmbedded
  PROVE  Goes
  <1>1. /\ page \in PageRec /\ enabled \in BOOLEAN /\ fiber.pc = "detect"
        /\ UNCHANGED <<nav, stop, enabled, destroyed>>
    BY Flags DEF DetectedEmbedded
  <1>2. nav' \in [Events -> NavRec] /\ NavKeeps BY <1>1, NavEnds
  <1>3. 0 \in 0 .. MaxRechallenges - 1 BY BoundsAreCounts DEF BoundsAreCounts
  <1>4. CASE registered # None
    <2>1. /\ fiber' = Idle /\ page' = [page EXCEPT !.rechallenges = 0]
          /\ UNCHANGED <<detections, registered>>
      BY <1>4 DEF DetectedEmbedded
    <2>2. page' \in PageRec /\ page'.solved = page.solved /\ page'.reloads = page.reloads
      BY <1>1, <1>3, <2>1 DEF PageRec
    <2>3. fiber' \in FiberRec BY <2>1 DEF Idle, FiberRec, Refs
    <2>4. FiberGoes BY <1>1, <2>1 DEF FiberGoes, Idle, Looking
    <2> QED BY <1>1, <1>2, <2>1, <2>2, <2>3, <2>4, StillStep DEF Idle
  <1>5. CASE registered = None
    <2> DEFINE new == NewDetection("turnstile", "dom", page.rechallenges, page.iframe)
               a == Aborted(new)
               given == Settled(a, "failed")
    <2>1. page' = [page EXCEPT !.rechallenges = 0, !.iframe = FALSE]
      BY <1>5 DEF DetectedEmbedded
    <2>2. page' \in PageRec /\ page'.solved = page.solved /\ page'.reloads = page.reloads
      BY <1>1, <1>3, <2>1 DEF PageRec
    <2>3. page.rechallenges \in 0 .. MaxRechallenges - 1 /\ page.iframe \in BOOLEAN
      BY <1>1 DEF PageRec
    <2>4. /\ new \in DetRec /\ DetInv(new) /\ new.scope = "open" /\ new.outcome = "pending"
          /\ new.told = {}
      BY <2>3, NewKeeps
    <2>5. \/ /\ Len(detections) < MaxDetections /\ detections' = Append(detections, given)
             /\ fiber' = Idle /\ UNCHANGED registered
          \/ Register(new) /\ fiber' = [pc |-> "dispatch", d |-> registered']
      BY <1>5 DEF DetectedEmbedded
    <2> HIDE DEF new
    <2>6. Becomes(new, a) /\ a.scope = "closed" /\ a.outcome = "pending" /\ a.told = {}
      BY <2>4, AbortedKeeps
    <2> HIDE DEF a
    <2>7. /\ Becomes(a, given) /\ given.scope = "closed" /\ given.outcome = "failed"
          /\ given.told = {}
      BY <2>6, SettledKeeps DEF Becomes
    <2> HIDE DEF given
    <2>8. ~destroyed BY <1>1 DEF Inv, OverInv, Idle
    <2>9. CASE Register(new) /\ fiber' = [pc |-> "dispatch", d |-> registered']
      <3>1. /\ Len(detections) < MaxDetections /\ detections' = Append(detections, new)
            /\ registered' = Len(detections) + 1
        BY <1>5, <2>9 DEF Register
      <3> QED BY <1>1, <1>2, <1>5, <2>2, <2>4, <2>9, <2>8, <3>1, AppendKeeps
    <2>10. CASE /\ Len(detections) < MaxDetections /\ detections' = Append(detections, given)
               /\ fiber' = Idle /\ UNCHANGED registered
      <3>1. given \in DetRec /\ DetInv(given) BY <2>7 DEF Becomes
      <3> QED BY <1>1, <1>2, <1>5, <2>2, <2>7, <2>10, <2>8, <3>1, AppendKeeps
    <2> QED BY <2>5, <2>9, <2>10
  <1> QED BY <1>4, <1>5

-----------------------------------------------------------------------------
(* The end of the tab and of the session.                                  *)

\* Its detection is closed and taken out of the registry, and solved only if it was.
LEMMA EndKeeps ==
  ASSUME Inv, NEW u,
         detections' = IF registered = None THEN detections
                       ELSE [detections EXCEPT ![registered] = u],
         registered # None =>
           /\ Becomes(detections[registered], u) /\ u.scope = "closed"
           /\ u.outcome = "solved" => detections[registered].outcome = "solved",
         registered' = None, page' \in PageRec, page'.reloads = 0,
         fiber' \in {fiber, Idle}, nav' \in [Events -> NavRec], NavKeeps,
         stop' \in {"open", "yielded", "closed"}, stop' # "open" \/ destroyed',
         stop' = "closed" => fiber' = Idle, destroyed => destroyed', destroyed' => fiber' = Idle,
         enabled' \in BOOLEAN, destroyed' \in BOOLEAN, signals' \in 0 .. MaxSignals
  PROVE  Goes
  <1>1. /\ detections \in Seq(DetRec) /\ Len(detections) <= MaxDetections
        /\ fiber \in FiberRec /\ page \in PageRec /\ None \notin DOMAIN detections
    BY Types DEF Inv, None
  <1>2. /\ detections' \in Seq(DetRec) /\ DOMAIN detections' = DOMAIN detections
        /\ Len(detections') = Len(detections)
        /\ \A i \in DOMAIN detections :
             /\ Becomes(detections[i], detections'[i]) /\ detections'[i].scope # "open"
             /\ detections'[i].outcome = "solved" => detections[i].outcome = "solved"
    <2>1. CASE registered = None
      <3>1. \A i \in DOMAIN detections : i # None BY <1>1
      <3> QED BY <1>1, <2>1, <3>1, AllStay DEF BecomesAll, Inv, DetsInv
    <2>2. CASE registered # None
      <3>1. registered \in DOMAIN detections BY <2>2, RegisteredIs
      <3>2. u \in DetRec BY <2>2 DEF Becomes
      <3>3. /\ detections' \in Seq(DetRec) /\ DOMAIN detections' = DOMAIN detections
            /\ Len(detections') = Len(detections)
            /\ \A i \in DOMAIN detections :
                 detections'[i] = IF i = registered THEN u ELSE detections[i]
        BY <1>1, <2>2, <3>1, <3>2
      <3>4. \A i \in DOMAIN detections : i # registered => detections[i].scope # "open"
        BY DEF Inv, DetsInv
      <3>5. \A i \in DOMAIN detections : Becomes(detections[i], detections[i])
        BY AllStay DEF BecomesAll
      <3> QED BY <2>2, <3>3, <3>4, <3>5
    <2> QED BY <2>1, <2>2
  <1>3. Refs' = Refs /\ FiberRec' = FiberRec /\ NavRec' = NavRec
    BY <1>2 DEF Refs, FiberRec, NavRec
  <1>4. fiber' \in FiberRec BY <1>1 DEF Idle, FiberRec, Refs
  <1>5. TypeOK'
    <2>1. registered' \in Refs' /\ fiber' \in FiberRec' /\ nav' \in [Events -> NavRec']
      BY <1>3, <1>4 DEF Refs
    <2> QED BY <1>1, <1>2, <2>1 DEF TypeOK, DetRec, PageRec, Refs, FiberRec, NavRec
  <1>6. DetsInv' BY <1>1, <1>2 DEF DetsInv, Becomes
  <1>7. FiberInv'
    <2>1. 0 < MaxWidgetReloads \/ fiber.pc # "grace"
      BY <1>1, BoundsAreCounts DEF Inv, FiberInv, PageRec, BoundsAreCounts
    <2> QED BY <1>2, <2>1 DEF Inv, FiberInv, Idle, Handling
  <1>8. NavInv' BY <1>2 DEF NavInv, NavKeeps, Becomes
  <1>9. AliveInv' BY <1>1, <1>2 DEF AliveInv, Turnstile
  <1>10. SolvedInv'
    <2> SUFFICES ASSUME NEW i \in DOMAIN detections, SolvedTurnstile(i)'
                 PROVE  fiber'.pc \notin Looking
      BY <1>2 DEF SolvedInv, SolvedTurnstile, Turnstile
    <2>1. SolvedTurnstile(i) BY <1>2 DEF SolvedTurnstile, Turnstile, Becomes
    <2> QED BY <2>1 DEF Inv, SolvedInv, Idle, Looking
  <1>11. OverInv' /\ ToldInv' BY DEF OverInv, ToldInv
  <1>12. [Challenge!Next]_Challenge!vars BY <1>1, <1>2, ChallengesGoOn
  <1> QED BY <1>5, <1>6, <1>7, <1>8, <1>9, <1>10, <1>11, <1>12 DEF Inv, Goes

LEMMA NewPageIs == NewPage \in PageRec /\ NewPage.reloads = 0
  <1>1. 0 \in 0 .. MaxRechallenges - 1 /\ 0 \in 0 .. MaxWidgetReloads /\ 0 \in 0 .. MaxClickRetries
    BY BoundsAreCounts DEF BoundsAreCounts
  <1> QED BY <1>1 DEF NewPage, PageRec

LEMMA StopTargetStep ==
  ASSUME Inv, signals' \in 0 .. MaxSignals, StopTarget
  PROVE  Goes
  <1> DEFINE u == Unregistered(detections[registered])
  <1>1. /\ detections' = IF registered = None THEN detections
                         ELSE [detections EXCEPT ![registered] = u]
        /\ registered' = None /\ stop' = "yielded" /\ UNCHANGED <<fiber, enabled, destroyed>>
        /\ ~destroyed
        /\ page' = [NewPage EXCEPT !.bridged = page.bridged]
        /\ nav' = [nav EXCEPT !["targetInfoChanged"] = NoNav]
    BY DEF StopTarget
  <1>2. registered # None =>
          /\ Becomes(detections[registered], u) /\ u.scope = "closed"
          /\ u.outcome = "solved" => detections[registered].outcome = "solved"
    BY RegisteredIs, UnregisteredKeeps
  <1>3. /\ enabled \in BOOLEAN /\ page.bridged \in BOOLEAN /\ destroyed \in BOOLEAN
    BY Types DEF Inv, PageRec
  <1>4. page' \in PageRec /\ page'.reloads = 0 BY <1>1, <1>3, NewPageIs DEF PageRec
  <1>5. nav' \in [Events -> NavRec] /\ NavKeeps BY <1>1, NavEnds DEF Events
  <1> HIDE DEF u
  <1> QED BY <1>1, <1>2, <1>3, <1>4, <1>5, EndKeeps

LEMMA DestroyStep ==
  ASSUME Inv, signals' \in 0 .. MaxSignals, Destroy
  PROVE  Goes
  <1> DEFINE u == Orphaned(detections[registered], FALSE)
  <1>1. /\ detections' = IF registered = None THEN detections
                         ELSE [detections EXCEPT ![registered] = u]
        /\ registered' = None /\ UNCHANGED <<stop, enabled>> /\ destroyed' = TRUE
        /\ page' = NewPage /\ fiber' = Idle /\ nav' = [e \in Events |-> NoNav]
    BY DEF Destroy
  <1>2. registered # None =>
          /\ Becomes(detections[registered], u) /\ u.scope = "closed"
          /\ u.outcome = "solved" => detections[registered].outcome = "solved"
    BY RegisteredIs, OrphanedKeeps
  <1>3. enabled \in BOOLEAN /\ stop \in {"open", "yielded", "closed"} BY Types DEF Inv
  <1>4. NoNav \in NavRec /\ NoNav.pc = "idle" BY DEF NoNav, NavRec, Refs, Destinations
  <1>5. nav' \in [Events -> NavRec] /\ NavKeeps BY <1>1, <1>4 DEF NavKeeps
  <1> HIDE DEF u
  <1> QED BY <1>1, <1>2, <1>3, <1>5, NewPageIs, EndKeeps

-----------------------------------------------------------------------------
(* The theorems.                                                           *)

LEMMA InvStep == Inv /\ [Next]_vars => Goes
  <1> SUFFICES ASSUME Inv, [Next]_vars PROVE Goes
    OBVIOUS
  <1>1. signals' \in 0 .. MaxSignals
    <2>1. signals \in 0 .. MaxSignals BY Flags
    <2>2. MaxSignals \in Nat BY BoundsAreCounts DEF BoundsAreCounts
    <2> QED BY <2>1, <2>2 DEF Next, Signals, vars
  <1>2. CASE Signals
    BY <1>1, <1>2, AttachedStep, NavigatedStep, WidgetSucceededStep, WidgetFailedStep,
       BridgeSolvedStep, BridgeErrorPageStep, BridgeDetectedStep, BeaconStep, IframeSeenStep,
       IframeGoneStep DEF Signals
  <1>3. CASE Enable \/ (\E to \in {"challenge", "clean"} : PageAttached(to)) \/ FrameHandlerReplaced
    BY <1>1, <1>3, EnableStep, AttachedStep, FrameHandlerReplacedStep
  <1>4. ASSUME NEW e \in Events, Classified(e) \/ Waited(e) PROVE Goes
    BY <1>1, <1>4, ClassifiedStep, WaitedStep
  <1>5. CASE FiberSteps
    BY <1>1, <1>5, LookingStep, DetectedByBridgeStep, DetectedInterstitialStep,
       DetectedEmbeddedStep, DispatchEndsStep, GraceEndsStep, RaceEndsStep DEF FiberSteps
  <1>6. ASSUME NEW d \in DOMAIN detections,
               Stuck(d) \/ ClickRejected(d) \/ SolverEnds(d) \/ SolverReports(d)
        PROVE  Goes
    BY <1>1, <1>6, StuckStep, ClickRejectedStep, SolverEndsStep, SolverReportsStep
  <1>7. CASE StopTarget \/ StopFinish \/ Destroy
    BY <1>1, <1>7, StopTargetStep, StopFinishStep, DestroyStep
  <1>8. CASE UNCHANGED vars
    <2>1. nav' \in [Events -> NavRec] /\ NavKeeps BY <1>8, NavEnds DEF vars
    <2>2. FiberGoes BY <1>8 DEF FiberGoes, vars
    <2> QED BY <1>1, <1>8, <2>1, <2>2, Flags, StillStep DEF vars
  <1> QED BY <1>2, <1>3, <1>4, <1>5, <1>6, <1>7, <1>8 DEF Next

LEMMA InvAlways == Spec => []Inv
  <1>1. Inv /\ [Next]_vars => Inv' BY InvStep DEF Goes
  <1> QED BY InvInit, <1>1, PTL DEF Spec

\* The registry has exactly the page's detection whose scope is open, which is neither
\* aborted nor resolved.
THEOREM Exact == Spec => []RegistryExact
  <1>1. Inv => RegistryExact
    <2> SUFFICES ASSUME Inv PROVE RegistryExact
      OBVIOUS
    <2>1. TypeOK BY DEF Inv
    <2>2. \A i \in DOMAIN detections : detections[i].scope = "open" <=> registered = i
      BY DEF Inv, DetsInv
    <2>3. registered # None =>
            ~detections[registered].aborted /\ ~detections[registered].resolved
      BY RegisteredIs
    <2> QED BY <2>1, <2>2, <2>3 DEF RegistryExact
  <1> QED BY InvAlways, <1>1, PTL

\* While the tab is open, a registered turnstile has the page's fiber to itself, and a solved
\* one has it until the client is told.
THEOREM Handled == Spec => []HandlerAlive
  <1>1. Inv => HandlerAlive
    <2> SUFFICES ASSUME Inv, stop = "open", NEW i \in DOMAIN detections,
                        \/ registered = i /\ detections[i].type = "turnstile"
                        \/ UntoldSolve(i) /\ ~destroyed
                 PROVE  fiber.d = i /\ fiber.pc \in Handling
      BY DEF HandlerAlive, Handling
    <2> QED BY DEF Inv, AliveInv, ToldInv, Turnstile
  <1> QED BY InvAlways, <1>1, PTL

\* A detection that was solved is never reported as failed.
THEOREM Honest == Spec => []SolveNeverReportedFailed
  <1>1. Inv => SolveNeverReportedFailed
    BY DEF Inv, DetsInv, DetInv, SolveNeverReportedFailed
  <1> QED BY InvAlways, <1>1, PTL

\* No fiber looks for challenges on a tab whose stopTargetDetection has returned.
THEOREM NoGhosts == Spec => []GhostFree
  <1>1. Inv => GhostFree BY DEF Inv, FiberInv, GhostFree
  <1> QED BY InvAlways, <1>1, PTL

\* A step adds a detection only as a challenge of the page appears.
LEMMA AddsChallenge ==
  ASSUME Inv, [Challenge!Next]_Challenge!vars, Len(detections') > Len(detections), Inv'
  PROVE  \E kind, hopeless : /\ Challenge!Appears(kind, hopeless)
                             /\ detections'[Len(detections')].type = kind
  <1>1. /\ detections \in Seq(DetRec) /\ Len(detections) \in Nat
        /\ detections' \in Seq(DetRec) /\ Len(detections') \in Nat
    BY Types DEF Inv, TypeOK, DetRec
  <1>2. Len(Seen) = Len(detections) /\ Len(Seen') = Len(detections')
    BY <1>1 DEF Seen
  <1>3. ~Challenge!GoOn /\ ~UNCHANGED Challenge!vars
    <2>1. Len(Seen') # Len(Seen) BY <1>1, <1>2
    <2>2. Challenge!GoOn => Len(Seen') = Len(Seen) BY DEF Challenge!GoOn, Seen
    <2>3. UNCHANGED Challenge!vars => Seen' = Seen BY DEF Challenge!vars, Seen
    <2> QED BY <2>1, <2>2, <2>3
  <1>4. PICK kind \in Challenge!Kinds, hopeless \in BOOLEAN : Challenge!Appears(kind, hopeless)
    BY <1>3 DEF Challenge!Next
  <1> DEFINE c == [kind |-> kind, live |-> ~hopeless, told |-> {},
                   outcome |-> IF hopeless THEN "failed" ELSE "pending"]
  <1>5. Seen' = Append(Seen, c) BY <1>4 DEF Challenge!Appears, Seen
  <1>6. c.kind = kind OBVIOUS
  <1> HIDE DEF c
  <1>7. Seen'[Len(Seen')] = c
    <2>1. Seen \in Seq({View(detections[i]) : i \in DOMAIN detections}) BY <1>1 DEF Seen
    <2> QED BY <1>5, <2>1
  <1>8. Seen'[Len(Seen')] = View(detections'[Len(detections')])
    <2>1. Len(detections') \in 1 .. Len(detections') BY <1>1
    <2> QED BY <1>1, <1>2, <2>1 DEF Seen
  <1> QED BY <1>4, <1>6, <1>7, <1>8 DEF View

\* After an embedded solve no turnstile is detected on the page, whatever iframes it spawns.
THEOREM NotRedetected == Spec => SolvedPageNotRedetected
  <1>1. Inv /\ Inv' /\ [Next]_vars =>
          [ (\E i \in DOMAIN detections :
                detections[i].type = "turnstile" /\ detections[i].outcome = "solved")
            /\ Len(detections') > Len(detections)
            => detections'[Len(detections')].type = "interstitial" ]_vars
    <2> SUFFICES ASSUME Inv, Inv', [Next]_vars,
                        NEW i \in DOMAIN detections, detections[i].type = "turnstile",
                        detections[i].outcome = "solved", Len(detections') > Len(detections)
                 PROVE  detections'[Len(detections')].type = "interstitial"
      OBVIOUS
    <2>1. PICK kind, hopeless : /\ Challenge!Appears(kind, hopeless)
                                /\ detections'[Len(detections')].type = kind
      BY InvStep, AddsChallenge DEF Goes
    <2>2. kind # "turnstile" BY <2>1 DEF Challenge!Appears, Challenge!Spent, View
    <2>3. detections' \in Seq(DetRec) BY DEF Inv, TypeOK, DetRec
    <2>4. detections'[Len(detections')] \in DetRec
      <3>1. Len(detections) \in Nat BY Types DEF Inv
      <3> QED BY <2>3, <3>1
    <2> QED BY <2>1, <2>2, <2>4 DEF DetRec
  <1>2. Inv /\ [Next]_vars => Inv' BY InvStep DEF Goes
  <1> QED BY InvAlways, <1>1, <1>2, PTL DEF Spec, SolvedPageNotRedetected

\* The life of a detection is that of a challenge, in every behaviour of the solver.
THEOREM Implementation == Spec => ImplementsChallengeLife
  <1>1. Init => Challenge!Init
    <2>1. ASSUME detections = <<>> PROVE [i \in DOMAIN detections |-> View(detections[i])] = <<>>
      <3>1. DOMAIN detections = {} BY <2>1
      <3> QED BY <3>1
    <2> QED BY <2>1 DEF Init, Challenge!Init
  <1>2. Inv /\ [Next]_vars => [Challenge!Next]_Challenge!vars BY InvStep DEF Goes
  <1> QED BY InvAlways, <1>1, <1>2, PTL DEF Spec, ImplementsChallengeLife, Challenge!Spec
=============================================================================

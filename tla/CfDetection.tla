---------------------------- MODULE CfDetection ----------------------------
(***************************************************************************)
(* The Cloudflare solver of one session, seen from one page: what starts a *)
(* detection, what settles its Resolution, who reports the outcome to the  *)
(* client, and what tears it down.                                         *)
(*                                                                         *)
(* A step runs a fiber from one suspension to the next (a sleep, a CDP     *)
(* command, the Resolution); the interruption of the fibers of a closing   *)
(* scope is part of the step that closes it.  While the queue's consumer   *)
(* runs, a published event has reached the client.                         *)
(***************************************************************************)
EXTENDS Naturals, Sequences

CONSTANTS
    MaxDetections,      \* bound: challenges the page shows in a behaviour
    MaxSignals,         \* bound: navigations, pushes and iframe events of the page
    MaxAttempts,        \* config.maxAttempts
    MaxRechallenges,    \* MAX_RECHALLENGES
    MaxWidgetReloads,   \* MAX_WIDGET_RELOADS
    MaxClickRetries     \* MAX_CLICK_RETRIES

ASSUME BoundsAreCounts ==
    /\ MaxDetections \in Nat \ {0} /\ MaxSignals \in Nat /\ MaxAttempts \in Nat \ {0}
    /\ MaxRechallenges \in Nat \ {0}
    /\ MaxWidgetReloads \in Nat /\ MaxClickRetries \in Nat

VARIABLES
    detections,     \* every detection of the page, in the order of registration
    registered,     \* DetectionRegistry.entries: the page's detection, or None
    page,           \* the page's entries in the maps of SessionSolverState
    fiber,          \* the page's fiber in detectionFibers
    nav,            \* onPageNavigated under way, by the event that called it
    stop,           \* stopTargetDetection; destroyedTargets has the page once it began
    enabled,
    destroyed,      \* the solver's scope is closed
    signals         \* how many the page has sent, up to the bound

vars == <<detections, registered, page, fiber, nav, stop, enabled, destroyed, signals>>

None == 0

\* Page navigations come as Target.targetInfoChanged, in the tab's FiberMap, and as
\* Page.frameNavigated, in the session's; a handler replaces an earlier one of its kind.
Events == {"targetInfoChanged", "frameNavigated"}
\* Where it leads: a challenge URL, the same path under the challenge's title, elsewhere.
Destinations == {"challenge", "stripped", "clean"}

NewDetection(type, via, rechallenges, bound) ==
    [type |-> type, via |-> via, rechallenges |-> rechallenges, attempt |-> 1,
     scope |-> "open", aborted |-> FALSE, resolved |-> FALSE, outcome |-> "pending",
     cosmetic |-> FALSE, clicked |-> FALSE, rejected |-> FALSE,
     oopif |-> IF bound THEN "bound" ELSE "unbound",
     solver |-> IF type = "interstitial" THEN "dispatching" ELSE "none",
     watchers |-> {}, told |-> {}]

NewPage ==
    [known |-> FALSE, solved |-> FALSE, autoSolved |-> FALSE, bridged |-> FALSE,
     iframe |-> FALSE, rechallenges |-> 0, reloads |-> 0, rejections |-> 0]

Idle == [pc |-> "idle", d |-> None]
NoNav == [pc |-> "idle", d |-> None, to |-> "clean"]
Waiting == [NoNav EXCEPT !.pc = "waiting"]

TypeOK ==
    /\ detections \in Seq(
        [type : {"turnstile", "interstitial"}, via : {"url", "dom", "bridge"},
         rechallenges : 0 .. MaxRechallenges - 1, attempt : 1 .. MaxAttempts,
         scope : {"open", "closed"}, aborted : BOOLEAN, resolved : BOOLEAN,
         outcome : {"pending", "solved", "failed"},
         cosmetic : BOOLEAN, clicked : BOOLEAN, rejected : BOOLEAN,
         oopif : {"unbound", "bound", "cleared"},
         solver : {"none", "dispatching", "racing", "done", "interrupted"},
         watchers : SUBSET {"stuck", "rejection"},
         told : SUBSET {"solved", "failed"}])
    /\ Len(detections) <= MaxDetections
    /\ registered \in {None} \cup DOMAIN detections
    /\ page \in
        [known : BOOLEAN, solved : BOOLEAN, autoSolved : BOOLEAN, bridged : BOOLEAN,
         iframe : BOOLEAN, rechallenges : 0 .. MaxRechallenges - 1,
         reloads : 0 .. MaxWidgetReloads, rejections : 0 .. MaxClickRetries]
    /\ fiber \in
        [pc : {"idle", "frame", "poll", "detect", "dispatch", "grace", "race", "restart"},
         d : {None} \cup DOMAIN detections]
    /\ nav \in [Events -> [pc : {"idle", "classifying", "waiting"},
                           d : {None} \cup DOMAIN detections, to : Destinations]]
    /\ stop \in {"open", "yielded", "closed"}
    /\ enabled \in BOOLEAN /\ destroyed \in BOOLEAN
    /\ signals \in 0 .. MaxSignals

Init ==
    /\ detections = <<>> /\ registered = None
    /\ page = NewPage /\ fiber = Idle /\ nav = [e \in Events |-> NoNav]
    /\ stop = "open" /\ enabled = FALSE /\ destroyed = FALSE
    /\ signals = 0

-----------------------------------------------------------------------------
(* What happens to one detection.                                          *)

\* The first settlement wins.
Settled(r, outcome) == IF r.outcome = "pending" THEN [r EXCEPT !.outcome = outcome] ELSE r

\* Closing the scope interrupts the fibers forked in it.  The iframe and the click are
\* looked up through the registry, and nobody reads them once the entry is gone.
Closed(r) ==
    IF r.scope = "closed" THEN r
    ELSE [r EXCEPT !.scope = "closed", !.watchers = {}, !.oopif = "unbound", !.clicked = FALSE,
                   !.solver = IF @ \in {"dispatching", "racing"} THEN "interrupted" ELSE @]

\* a faulty Aborted: the latch is opened and the scope left open
AbortedFlagOnly(r) == [r EXCEPT !.aborted = TRUE]
Aborted(r) == IF r.aborted THEN r ELSE Closed([r EXCEPT !.aborted = TRUE])

Resolved(r) == IF r.resolved THEN r ELSE Closed([r EXCEPT !.resolved = TRUE])

\* cfPublish; the consumer of the queue ends before the solver's state is torn down.
Told(r, outcome) == IF destroyed THEN r ELSE [r EXCEPT !.told = @ \cup {outcome}]

\* awaitResolutionRace, from the wake-up or the deadline to the end.
Raced(r) ==
    LET settled == Settled(r, "failed") IN Resolved(Told(settled, settled.outcome))

\* The finalizer of a scope nobody resolved; without a consumer the report is lost.
Orphaned(r, consumed) ==
    IF r.resolved \/ r.aborted THEN Closed(r)
    ELSE LET failed == Settled([r EXCEPT !.aborted = TRUE], "failed")
         IN Closed(IF consumed THEN Told(failed, "failed") ELSE failed)

\* a faulty Unregistered: it does not ask whether the Resolution is settled
UnregisteredUnasked(r) ==
    IF r.resolved THEN Closed(r) ELSE Resolved(Told(Settled(r, "failed"), "failed"))

\* unregister: an unsettled detection is reported as closed with the session.
Unregistered(r) ==
    IF r.resolved THEN Closed(r)
    ELSE IF r.outcome # "pending" THEN Resolved(r)
    ELSE Resolved(Told(Settled(r, "failed"), "failed"))

Abort(ds) == IF registered = None THEN ds ELSE [ds EXCEPT ![registered] = Aborted(@)]

SetClicked(ds) ==
    IF registered = None THEN ds ELSE [ds EXCEPT ![registered].clicked = TRUE]

\* a faulty Finalize: the finalizer leaves the entry
FinalizeKeepsEntry == UNCHANGED registered

\* The finalizer deletes the page's entry, whosever it is.
Finalize ==
    registered' = IF \E i \in DOMAIN detections :
                        detections[i].scope = "open" /\ detections'[i].scope = "closed"
                  THEN None ELSE registered

-----------------------------------------------------------------------------
(* How a detection begins.                                                 *)

\* faulty guards: without the registry, without the marks of a solve, without the tab's end
RefusedUnlessSolved(p) == stop # "open" \/ destroyed \/ p.solved \/ p.autoSolved
RefusedUnlessFree(p) == stop # "open" \/ destroyed \/ registered' # None
RefusedUnlessTabGone(p) == destroyed \/ p.solved \/ p.autoSolved \/ registered' # None

\* startDetectionFiber: a new fiber replaces, and so interrupts, the page's fiber.
Refused(p) == stop # "open" \/ destroyed \/ p.solved \/ p.autoSolved \/ registered' # None
StartDetection(p) == fiber' = IF Refused(p) THEN fiber ELSE [pc |-> "frame", d |-> None]

Register(r) ==
    /\ Len(detections) < MaxDetections
    /\ detections' =
        Append(IF registered = None THEN detections
               ELSE [detections EXCEPT ![registered] = Orphaned(@, TRUE)], r)
    /\ registered' = Len(detections) + 1

\* triggerSolveFromUrl; its solver is forked in the detection's scope.
TriggerSolve(p, via) ==
    IF ~enabled \/ destroyed \/ registered # None \/ p.autoSolved
    THEN page' = p /\ UNCHANGED <<detections, registered>>
    ELSE /\ Register(NewDetection("interstitial", via, p.rechallenges, p.iframe))
         /\ page' = [p EXCEPT !.rechallenges = 0, !.iframe = FALSE]

Known == [page EXCEPT !.known = TRUE]

Enable ==
    /\ ~enabled /\ ~destroyed
    /\ enabled' = TRUE
    /\ UNCHANGED <<detections, registered, page, nav, stop, destroyed>>
    /\ IF page.known THEN StartDetection(page) ELSE UNCHANGED fiber

PageAttached(to) ==
    /\ stop = "open" /\ ~page.known /\ ~destroyed
    /\ IF to = "challenge" THEN TriggerSolve(Known, "url")
       ELSE page' = Known /\ UNCHANGED <<detections, registered>>
    /\ UNCHANGED <<fiber, nav, stop, enabled, destroyed>>

\* frameNavigated to a challenge URL goes to onPageAttached.  The session's FiberMap
\* outlives the tab, and so do its events while the session is torn down.
Attached == (page.known \/ stop # "open") /\ ~destroyed

FrameOnChallenge ==
    /\ Attached
    /\ TriggerSolve(Known, "url")
    /\ nav' = [nav EXCEPT !["frameNavigated"] = NoNav]
    /\ UNCHANGED <<fiber, stop, enabled, destroyed>>

-----------------------------------------------------------------------------
(* onPageNavigated.                                                        *)

\* solvedPages.add
MarkSolved(p) == [p EXCEPT !.solved = TRUE]

\* A turnstile is judged at once: on a challenge URL it is discarded; elsewhere the
\* navigation is the solve, published here and again by whoever awaits the Resolution.
NavigatedTurnstile(to) ==
    IF to = "challenge"
    THEN /\ detections' = Abort(detections)
         /\ page' = [Known EXCEPT !.autoSolved = TRUE]
    ELSE /\ detections' =
            [detections EXCEPT ![registered] = Settled(Aborted(Told(@, "solved")), "solved")]
         /\ page' = MarkSolved(Known)

Navigated(event, to) ==
    /\ Attached
    /\ event = "targetInfoChanged" => stop = "open"
    /\ event = "frameNavigated" => to = "clean"
    /\ IF registered # None /\ detections[registered].type = "turnstile"
       THEN NavigatedTurnstile(to) ELSE page' = Known /\ UNCHANGED detections
    /\ Finalize
    /\ nav' = [nav EXCEPT ![event] =
        IF registered # None /\ detections[registered].type = "interstitial"
        THEN [pc |-> "classifying", d |-> registered, to |-> to]
        ELSE IF enabled THEN Waiting ELSE NoNav]
    /\ UNCHANGED <<fiber, stop, enabled, destroyed>>

\* After the sleep, classifyNavigationOutcome judges the interstitial it was given, and
\* the abort goes to the one that is registered now.
Challenged(d) == Settled(d, "failed")

LimitReached(count) == count >= MaxRechallenges

NavRechallenged(d) ==
    LET count == detections[d].rechallenges + 1 IN
    /\ detections' = [Abort(detections) EXCEPT ![d] = Challenged(@)]
    /\ Finalize
    /\ IF LimitReached(count)
       THEN page' = [page EXCEPT !.autoSolved = TRUE] /\ UNCHANGED fiber
       ELSE /\ page' = [page EXCEPT !.rechallenges = count]
            /\ StartDetection(page')

NavStripped(d) ==
    /\ detections' = [detections EXCEPT ![d].cosmetic = TRUE]
    /\ UNCHANGED <<registered, page>>
    /\ StartDetection(page)

NavSolved(d) ==
    /\ detections' = [Abort([detections EXCEPT ![d] = Told(@, "solved")])
                        EXCEPT ![d] = Settled(@, "solved")]
    /\ Finalize
    /\ UNCHANGED page
    /\ StartDetection(page)

Classified(event) ==
    /\ nav[event].pc = "classifying"
    /\ LET d == nav[event].d IN
        CASE nav[event].to = "challenge" -> NavRechallenged(d)
          [] nav[event].to = "stripped" /\ ~detections[d].cosmetic -> NavStripped(d)
          [] OTHER -> NavSolved(d)
    /\ nav' = [nav EXCEPT ![event] = NoNav]
    /\ UNCHANGED <<stop, enabled, destroyed>>

\* Phase C, after its sleep.
Waited(event) ==
    /\ nav[event].pc = "waiting"
    /\ nav' = [nav EXCEPT ![event] = NoNav]
    /\ UNCHANGED <<detections, registered, page, stop, enabled, destroyed>>
    /\ StartDetection(page)

\* A frameNavigated of another tab interrupts the handler.
FrameHandlerReplaced ==
    /\ nav["frameNavigated"] # NoNav
    /\ nav' = [nav EXCEPT !["frameNavigated"] = NoNav]
    /\ UNCHANGED <<detections, registered, page, fiber, stop, enabled, destroyed>>

-----------------------------------------------------------------------------
(* detectTurnstileWidget: the page's detection fiber.                      *)

\* Page.getFrameTree answers; a page still on about:blank is left alone.
FrameTree ==
    /\ fiber.pc = "frame"
    /\ fiber' \in {Idle, [fiber EXCEPT !.pc = "poll"]}
    /\ UNCHANGED <<detections, registered, page, nav, stop, enabled, destroyed>>

\* The guards of an iteration are checked before the CDP call.
Poll ==
    /\ fiber.pc = "poll"
    /\ fiber' = IF registered # None \/ page.autoSolved \/ page.solved
                THEN Idle ELSE [fiber EXCEPT !.pc = "detect"]
    /\ UNCHANGED <<detections, registered, page, nav, stop, enabled, destroyed>>

DetectedNothing ==
    /\ fiber.pc = "detect"
    /\ fiber' = [fiber EXCEPT !.pc = "poll"]
    /\ UNCHANGED <<detections, registered, page, nav, stop, enabled, destroyed>>

\* handleBridgeInitiatedDetection, when many polls saw nothing.
DetectedByBridge ==
    /\ fiber.pc = "detect"
    /\ page.bridged /\ registered = None /\ ~page.solved /\ ~page.autoSolved
    /\ Register(NewDetection("turnstile", "bridge", 0, FALSE))
    /\ fiber' = [pc |-> "dispatch", d |-> registered']
    /\ UNCHANGED <<page, nav, stop, enabled, destroyed>>

DetectedInterstitial ==
    /\ fiber.pc = "detect"
    /\ TriggerSolve(page, "dom")
    /\ fiber' = Idle
    /\ UNCHANGED <<nav, stop, enabled, destroyed>>

\* handleEmbeddedDetection; a turnstile after a rechallenge is given up at once.
DetectedEmbedded ==
    /\ fiber.pc = "detect"
    /\ IF registered # None
       THEN fiber' = Idle /\ page' = [page EXCEPT !.rechallenges = 0]
            /\ UNCHANGED <<detections, registered>>
       ELSE LET new == NewDetection("turnstile", "dom", page.rechallenges, page.iframe) IN
            /\ page' = [page EXCEPT !.rechallenges = 0, !.iframe = FALSE]
            /\ IF page.rechallenges > 0
               THEN /\ Len(detections) < MaxDetections
                    /\ detections' = Append(detections, Settled(Aborted(new), "failed"))
                    /\ fiber' = Idle /\ UNCHANGED registered
               ELSE /\ Register(new)
                    /\ fiber' = [pc |-> "dispatch", d |-> registered']
    /\ UNCHANGED <<nav, stop, enabled, destroyed>>

\* A timer is forked in the scope of its detection; and it goes off.
Watched(r, timer) == [r EXCEPT !.watchers = @ \cup {timer}]
Fired(r, timer) == [r EXCEPT !.watchers = @ \ {timer}]

\* clickRejectionMonitor
Armed(r) ==
    IF /\ r.clicked /\ page.rejections < MaxClickRetries
       /\ ~r.aborted /\ r.outcome = "pending" /\ r.scope = "open"
    THEN Watched(r, "rejection") ELSE r

\* The solver found no checkbox: the widget is verifying, or is given up, or the page
\* is reloaded after a grace period.
NoWidget(d) ==
    /\ UNCHANGED <<registered, page, nav, stop, enabled, destroyed>>
    /\ \/ /\ detections' =
             [detections EXCEPT ![d] = Armed(Watched(@, "stuck"))]
          /\ fiber' = [fiber EXCEPT !.pc = "race"]
       \/ /\ page.reloads > 0 \/ page.reloads >= MaxWidgetReloads
          /\ detections' = [detections EXCEPT ![d] = Settled(@, "failed")]
          /\ fiber' = [fiber EXCEPT !.pc = "race"]
       \/ /\ page.reloads < MaxWidgetReloads
          /\ fiber' = [fiber EXCEPT !.pc = "grace"]
          /\ UNCHANGED detections

Unsettled(d) == detections[d].via = "dom" /\ ~detections[d].aborted
                /\ detections[d].outcome = "pending"

\* A click is booked on the detection registered when it is verified.  The latch that
\* opens with an abort ends the click loop.
DispatchEnds ==
    /\ fiber.pc = "dispatch"
    /\ LET d == fiber.d IN
        \/ detections[d].scope = "open" /\ Unsettled(d) /\ NoWidget(d)
        \/ \E clicked \in BOOLEAN :
            /\ detections' =
                LET ds == IF clicked THEN SetClicked(detections) ELSE detections
                IN IF detections[d].via = "dom" THEN [ds EXCEPT ![d] = Armed(@)] ELSE ds
            /\ fiber' = [fiber EXCEPT !.pc = "race"]
            /\ UNCHANGED <<registered, page, nav, stop, enabled, destroyed>>

GraceEnds ==
    /\ fiber.pc = "grace"
    /\ IF Unsettled(fiber.d)
       THEN /\ detections' = [detections EXCEPT ![fiber.d] =
                Resolved(Told(Settled(@, "failed"), "failed"))]
            /\ page' = [page EXCEPT !.reloads = @ + 1]
            /\ fiber' = Idle
       ELSE /\ fiber' = [fiber EXCEPT !.pc = "race"]
            /\ UNCHANGED <<detections, page>>
    /\ Finalize
    /\ UNCHANGED <<nav, stop, enabled, destroyed>>

\* verificationStuckTimer
Stuck(d) ==
    /\ "stuck" \in detections[d].watchers
    /\ detections' = [detections EXCEPT ![d] = Settled(Fired(@, "stuck"), "failed")]
    /\ UNCHANGED <<registered, page, fiber, nav, stop, enabled, destroyed>>

ClickRejected(d) ==
    /\ "rejection" \in detections[d].watchers
    /\ detections' = [detections EXCEPT ![d] =
        Settled([Fired(@, "rejection") EXCEPT !.rejected = (detections[d].outcome = "pending")],
                "failed")]
    /\ UNCHANGED <<registered, page, fiber, nav, stop, enabled, destroyed>>

\* The Resolution is settled, or its deadline passes; a rejected click is retried.
RaceEnds ==
    /\ fiber.pc = "race"
    /\ LET d == fiber.d
           raced == Raced(detections[d])
           retry == /\ raced.rejected /\ ~raced.aborted
                    /\ page.rejections < MaxClickRetries
       IN /\ detections' = [detections EXCEPT ![d] = raced]
          /\ page' = [page EXCEPT !.solved = @ \/ raced.outcome = "solved",
                                  !.rejections = IF retry THEN @ + 1 ELSE @]
          /\ fiber' = IF retry THEN [fiber EXCEPT !.pc = "restart"] ELSE Idle
    /\ Finalize
    /\ UNCHANGED <<nav, stop, enabled, destroyed>>

Restart ==
    /\ fiber.pc = "restart"
    /\ UNCHANGED <<detections, registered, page, nav, stop, enabled, destroyed>>
    /\ fiber' = IF detections[fiber.d].aborted \/ Refused(page)
                THEN Idle ELSE [pc |-> "frame", d |-> None]

-----------------------------------------------------------------------------
(* The solver of an interstitial, forked in the scope of its detection.    *)

\* A lost or overdrawn WebSocket fails the detection; closing the scope spares the
\* fiber that closes it.
SolverEnds(d) ==
    /\ detections[d].solver = "dispatching"
    /\ \/ \E clicked \in BOOLEAN :
            detections' = [IF clicked THEN SetClicked(detections) ELSE detections
                            EXCEPT ![d].solver = "racing"]
       \/ detections' = [detections EXCEPT ![d] =
            [Settled(Aborted(@), "failed") EXCEPT !.solver = "racing"]]
    /\ Finalize
    /\ UNCHANGED <<page, fiber, nav, stop, enabled, destroyed>>

SolverReports(d) ==
    /\ detections[d].solver = "racing"
    /\ detections' = [detections EXCEPT ![d] = Raced([@ EXCEPT !.solver = "done"])]
    /\ Finalize
    /\ UNCHANGED <<page, fiber, nav, stop, enabled, destroyed>>

-----------------------------------------------------------------------------
(* Signals from the page.                                                  *)

\* The winning signal settles the Resolution, then aborts the detection.
SignalSolved(d) ==
    IF detections[d].outcome # "pending" THEN UNCHANGED detections
    ELSE detections' = [detections EXCEPT ![d] = Aborted(Settled(@, "solved"))]

SolvesPage(d) == detections[d].type = "turnstile" /\ detections[d].outcome = "pending"

\* The activity loop is a child of the fiber that dispatched the detection.
LoopRuns(d) ==
    \/ detections[d].solver \in {"dispatching", "racing"}
    \/ fiber.d = d /\ fiber.pc \in {"dispatch", "grace", "race"}

\* onTurnstileStateChange; what an interstitial's widget says is only noted.
WidgetSucceeded ==
    /\ registered # None /\ LoopRuns(registered)
    /\ detections[registered].oopif = "bound" /\ SolvesPage(registered)
    /\ SignalSolved(registered)
    /\ page' = MarkSolved(page)
    /\ Finalize
    /\ UNCHANGED <<fiber, nav, stop, enabled, destroyed>>

\* A retry clears the aborted flag of a detection whose scope is closed.  The loop of an
\* interstitial may end with its solver, before it gets there.
WidgetFailed ==
    /\ registered # None /\ LoopRuns(registered)
    /\ LET r == detections[registered]
           rest == IF r.attempt < MaxAttempts
                   THEN [Aborted(r) EXCEPT !.attempt = @ + 1, !.aborted = FALSE]
                   ELSE Settled(Aborted(r), "failed")
       IN /\ r.oopif = "bound"
          /\ \E after \in {rest} \cup (IF r.type = "interstitial" THEN {Aborted(r)} ELSE {}) :
                detections' = [detections EXCEPT ![registered] = after]
    /\ Finalize
    /\ UNCHANGED <<page, fiber, nav, stop, enabled, destroyed>>

BridgeSolved ==
    /\ Attached
    /\ registered # None => detections[registered].type = "turnstile"
    /\ IF registered # None THEN SignalSolved(registered) ELSE UNCHANGED detections
    /\ page' = [page EXCEPT !.autoSolved = TRUE,
                            !.solved = @ \/ (registered # None /\ SolvesPage(registered))]
    /\ Finalize
    /\ UNCHANGED <<fiber, nav, stop, enabled, destroyed>>

\* Cloudflare's error page: behind an interstitial it is the solve.
BridgeErrorPage ==
    /\ Attached /\ registered # None
    /\ detections' = [detections EXCEPT ![registered] =
        IF @.type = "interstitial" THEN Settled(Told(@, "solved"), "solved")
        ELSE Settled(@, "failed")]
    /\ UNCHANGED <<registered, page, fiber, nav, stop, enabled, destroyed>>

\* Nothing is registered: the page is marked and retryDetection starts a fiber.
BridgeDetected ==
    /\ Attached /\ registered = None
    /\ page' = [page EXCEPT !.bridged = TRUE]
    /\ UNCHANGED <<detections, registered, nav, stop, enabled, destroyed>>
    /\ IF page.known THEN StartDetection(page) ELSE UNCHANGED fiber

\* The beacon comes by HTTP, whatever became of the tab.  A solver that awaits the
\* Resolution is woken and interrupted in one go, and may be through with its report.
Beacon ==
    /\ ~destroyed
    /\ page' = [page EXCEPT !.autoSolved = TRUE,
                            !.solved = @ \/ (registered # None /\ SolvesPage(registered))]
    /\ IF registered = None THEN UNCHANGED detections
       ELSE \/ SignalSolved(registered)
            \/ /\ detections[registered].solver = "racing"
               /\ detections[registered].outcome = "pending"
               /\ detections' = [detections EXCEPT ![registered] =
                    Aborted(Raced([Settled(@, "solved") EXCEPT !.solver = "done"]))]
    /\ Finalize
    /\ UNCHANGED <<fiber, nav, stop, enabled, destroyed>>

IframeSeen ==
    /\ enabled /\ Attached
    /\ IF registered = None
       THEN page' = [page EXCEPT !.iframe = TRUE] /\ UNCHANGED detections
       ELSE detections' = [detections EXCEPT ![registered].oopif = "bound"] /\ UNCHANGED page
    /\ UNCHANGED <<registered, fiber, nav, stop, enabled, destroyed>>

\* Cloudflare replaces its iframe; after a click that means it refused it.
IframeGone ==
    /\ ~destroyed /\ registered # None /\ detections[registered].oopif = "bound"
    /\ detections' = [detections EXCEPT ![registered] =
        IF @.clicked THEN Aborted(@) ELSE [@ EXCEPT !.oopif = "cleared"]]
    /\ Finalize
    /\ UNCHANGED <<page, fiber, nav, stop, enabled, destroyed>>

-----------------------------------------------------------------------------
(* The end of the tab and of the session.                                  *)

\* The tab's own handlers are interrupted before stopTargetDetection runs.
StopTarget ==
    /\ stop = "open" /\ page.known /\ ~destroyed
    /\ stop' = "yielded"
    /\ nav' = [nav EXCEPT !["targetInfoChanged"] = NoNav]
    /\ detections' = IF registered = None THEN detections
                     ELSE [detections EXCEPT ![registered] = Unregistered(@)]
    /\ registered' = None
    /\ page' = [NewPage EXCEPT !.bridged = page.bridged]
    /\ UNCHANGED <<fiber, enabled, destroyed>>

StopFinish ==
    /\ stop = "yielded" /\ ~destroyed
    /\ stop' = "closed" /\ fiber' = Idle
    /\ UNCHANGED <<detections, registered, page, nav, enabled, destroyed>>

\* destroyEffect; a forced clean-up does not wait for the tabs.
Destroy ==
    /\ ~destroyed
    /\ destroyed' = TRUE
    /\ detections' = IF registered = None THEN detections
                     ELSE [detections EXCEPT ![registered] = Orphaned(@, FALSE)]
    /\ registered' = None /\ page' = NewPage
    /\ fiber' = Idle /\ nav' = [e \in Events |-> NoNav]
    /\ UNCHANGED <<stop, enabled>>

-----------------------------------------------------------------------------
FiberSteps ==
    \/ FrameTree \/ Poll \/ DetectedNothing \/ DetectedByBridge \/ DetectedInterstitial
    \/ DetectedEmbedded \/ DispatchEnds \/ GraceEnds \/ RaceEnds \/ Restart

Signals ==
    /\ signals < MaxSignals /\ signals' = signals + 1
    /\ \/ FrameOnChallenge
       \/ \E event \in Events, to \in Destinations : Navigated(event, to)
       \/ WidgetSucceeded \/ WidgetFailed \/ BridgeSolved \/ BridgeErrorPage
       \/ BridgeDetected \/ Beacon \/ IframeSeen \/ IframeGone

Next ==
    \/ Signals
    \/ /\ UNCHANGED signals
       /\ \/ Enable \/ \E to \in {"challenge", "clean"} : PageAttached(to)
          \/ FrameHandlerReplaced
          \/ \E event \in Events : Classified(event) \/ Waited(event)
          \/ FiberSteps
          \/ \E d \in DOMAIN detections :
                Stuck(d) \/ ClickRejected(d) \/ SolverEnds(d) \/ SolverReports(d)
          \/ StopTarget \/ StopFinish \/ Destroy

Spec == Init /\ [][Next]_vars

Running == UNCHANGED signals /\ FiberSteps
Solving(d) == UNCHANGED signals /\ d \in DOMAIN detections /\ (SolverEnds(d) \/ SolverReports(d))

\* Fibers are scheduled, CDP commands and the dispatch have timeouts, and so has the
\* Resolution.  The page, the client and the bridge owe nothing.
FairSpec == Spec /\ WF_vars(Running) /\ \A d \in 1 .. MaxDetections : WF_vars(Solving(d))

-----------------------------------------------------------------------------
(* What the solver promises.                                               *)

\* The registry has the page's one detection whose scope is open, and no other: neither
\* an abort nor a resolution, a replacement or the end of the tab leaves an entry that
\* blocks the next challenge, or a scope that nobody can find.
RegistryExact ==
    /\ TypeOK
    /\ \A i \in DOMAIN detections : detections[i].scope = "open" <=> registered = i
    /\ registered # None => ~detections[registered].aborted /\ ~detections[registered].resolved

\* An embedded solve of which the client has not heard.
UntoldSolve(i) ==
    /\ i \in DOMAIN detections /\ "solved" \notin detections[i].told
    /\ detections[i].type = "turnstile" /\ detections[i].outcome = "solved"

\* While the tab is open, a registered turnstile has the page's fiber to itself, and so has a
\* solved one until the client is told: no push, navigation or retry starts a loop that
\* would interrupt the fiber that awaits its outcome.
HandlerAlive ==
    \A i \in DOMAIN detections :
        /\ stop = "open"
        /\ \/ registered = i /\ detections[i].type = "turnstile"
           \/ UntoldSolve(i) /\ ~destroyed
        => fiber.d = i /\ fiber.pc \in {"dispatch", "grace", "race"}

\* A detection that was solved is never reported as failed, also when the tab closes or a
\* deadline passes between the settlement and the report.
SolveNeverReportedFailed ==
    \A i \in DOMAIN detections : "failed" \in detections[i].told => detections[i].outcome # "solved"

\* After an embedded solve, the iframes that the widget goes on spawning are not taken for
\* a new challenge of the page.
SolvedPageNotRedetected ==
    [][ (\E i \in DOMAIN detections :
            detections[i].type = "turnstile" /\ detections[i].outcome = "solved")
        /\ Len(detections') > Len(detections)
        => detections'[Len(detections')].type = "interstitial" ]_vars

\* Once a tab's stopTargetDetection has returned, no fiber looks for challenges on it,
\* whatever handlers of the session's map were asleep when it began.
GhostFree == stop = "closed" => fiber = Idle

\* A detection as its client knows it, and what the client may rely on.
View(r) ==
    [kind |-> r.type, live |-> r.scope = "open", outcome |-> r.outcome, told |-> r.told]

Challenge == INSTANCE ChallengeLife
    WITH challenges <- [i \in DOMAIN detections |-> View(detections[i])], over <- destroyed

\* Whatever fibers, timers, pushes, navigations and teardowns do to a detection, its life is
\* that of a challenge: one at a time, settled once, honestly reported, and quiet in the end.
ImplementsChallengeLife == Challenge!Spec

\* No detection occupies the registry for ever: it is reported, given up or taken along
\* by its tab, without any further signal from the page.
NoZombie ==
    \A i \in 1 .. MaxDetections : registered = i ~> registered # i \/ stop # "open"

\* The client hears of every embedded solve while the tab is open.
EmbeddedSolveTold ==
    \A i \in 1 .. MaxDetections : UntoldSolve(i) ~> ~UntoldSolve(i) \/ stop # "open" \/ destroyed

=============================================================================

---------------------------- MODULE ClickPipeline ----------------------------
(***************************************************************************)
(* One dispatch of the Cloudflare solver: solveDetection of a detection,   *)
(* its click attempts, and in each the four phases of findAndClickViaCDP:  *)
(* the page's DOM, the widget's target (OOPIF), the checkbox, the click.   *)
(* Meanwhile the page replaces its widget, and signals settle, abort or    *)
(* retry the detection, whose end the dispatch learns through the latch    *)
(* or through the interruption of its fiber.                               *)
(*                                                                         *)
(* A pc names the await the fiber is in; a command is answered with a      *)
(* result or, after an error or a timeout, with null.  Coordinates,        *)
(* diagnostics, markers and the capture of resources are left out.         *)
(***************************************************************************)
EXTENDS Naturals, FiniteSets

CONSTANTS
    OwnWidgets,         \* challenge iframes this page shows in a behaviour
    OtherWidgets,       \* those of other tabs of the browser
    NoWidget,
    MaxClickAttempts,   \* MAX_CLICK_ATTEMPTS
    MaxNoCheckbox,      \* MAX_NO_CHECKBOX_BEFORE_BAILOUT
    MaxPolls            \* MAX_OOPIF_POLLS

Widgets == OwnWidgets \cup OtherWidgets

ASSUME PipelineAssumption ==
    /\ OwnWidgets \cap OtherWidgets = {} /\ NoWidget \notin Widgets
    /\ MaxClickAttempts \in Nat \ {0, 1} /\ MaxNoCheckbox \in Nat \ {0} /\ MaxPolls \in Nat \ {0}

VARIABLES
    kind,           \* turnstile or interstitial
    pc,             \* what the dispatch's fiber waits for
    loop,           \* the click loop: attempt, last attempt, consecutive NoCheckbox
    local,          \* what an attempt has learned of the page, and whether its press was accepted
    stopping,       \* the fiber has been interrupted, or its race is lost
    outcome,        \* what the dispatch returned
    sockets,        \* scoped WebSockets that are open
    heartbeats,     \* attempts whose V8 heartbeat runs
    held,           \* a press was sent and its release was not
    active,         \* the detection: aborted, latch, resolution, settled by whom
    registered,     \* the page's entry in the registry: this detection, its successor, none
    delivered,      \* detections with clickDelivered
    chrome,         \* widgets: new, live or gone; the one in the page's DOM
    listener        \* the verification of clicks in each widget

vars == <<kind, pc, loop, local, stopping, outcome, sockets, heartbeats, held,
          active, registered, delivered, chrome, listener>>

Nothing == [anchor |-> NoWidget, framed |-> FALSE, listed |-> {}, poll |-> 0,
            target |-> NoWidget, pressed |-> FALSE]

\* What the effect library runs to the end before an interruption takes hold: the opening
\* of a scoped socket, and the region of the click marked uninterruptible.
Uninterruptible == {"open", "clean", "pressing", "holding", "releasing"}

TypeOK ==
    /\ kind \in {"turnstile", "interstitial"}
    /\ pc \in Uninterruptible \cup
        {"retry", "dom", "frame", "targets", "byFrame", "byParent", "checkbox", "coords",
         "listen", "verify", "over"}
    /\ loop \in [attempt : 0 .. MaxClickAttempts - 1, last : 0 .. MaxClickAttempts - 1,
                 misses : 0 .. MaxNoCheckbox]
    /\ local \in [anchor : OwnWidgets \cup {NoWidget}, framed : BOOLEAN,
                  listed : SUBSET Widgets, poll : 0 .. MaxPolls,
                  target : Widgets \cup {NoWidget}, pressed : BOOLEAN]
    /\ stopping \in BOOLEAN /\ held \in BOOLEAN
    /\ outcome \in {"none", "Clicked", "NoClick", "Aborted"}
    /\ sockets \subseteq {"solver_isolated", "clean_page"}
    /\ heartbeats \subseteq 0 .. MaxClickAttempts - 1
    /\ active \in [aborted : BOOLEAN, latch : BOOLEAN,
                   resolution : {"pending", "solved", "failed"}]
    /\ registered \in {"own", "next", "none"} /\ delivered \subseteq {"own", "next"}
    /\ chrome \in [state : [Widgets -> {"new", "live", "gone"}],
                   shown : OwnWidgets \cup {NoWidget}]
    /\ listener \in [armed : SUBSET Widgets, flag : SUBSET Widgets,
                     due : SUBSET Widgets, landed : SUBSET Widgets]

Init ==
    /\ kind \in {"turnstile", "interstitial"}
    /\ pc = "open"
    /\ loop = [attempt |-> 0, last |-> MaxClickAttempts - 1, misses |-> 0]
    /\ local = Nothing
    /\ stopping = FALSE /\ outcome = "none"
    /\ sockets = {} /\ heartbeats = {} /\ held = FALSE
    /\ active = [aborted |-> FALSE, latch |-> FALSE, resolution |-> "pending"]
    /\ registered = "own" /\ delivered = {}
    /\ chrome = [state |-> [w \in Widgets |-> IF w \in OtherWidgets THEN "live" ELSE "new"],
                 shown |-> NoWidget]
    /\ listener = [armed |-> {}, flag |-> {}, due |-> {}, landed |-> {}]

Live == {w \in Widgets : chrome.state[w] = "live"}
Done == active.resolution # "pending"

-----------------------------------------------------------------------------
(* How an attempt and the dispatch end.                                    *)

\* The sockets and heartbeats after a step: the dispatch's scope closes when it is over, an
\* attempt's when the next one begins.
Scopes(opened) ==
    sockets' = CASE pc' = "over" -> {}
                 [] pc' = "retry" -> sockets \ {"clean_page"}
                 [] OTHER -> sockets \cup opened
Beats(beating) == heartbeats' = IF pc' = "over" THEN {} ELSE beating

\* The dispatch returns.  An aborted interstitial leaves the registry only now: the close
\* of its scope waits for this fiber.
Return(result) ==
    /\ pc' = "over" /\ outcome' = result
    /\ registered' = IF kind = "interstitial" /\ active.latch THEN "none" ELSE registered
    /\ UNCHANGED <<loop, local>>

\* A turnstile whose first attempt found nothing has one more.
Last(result) ==
    IF kind = "turnstile" /\ loop.attempt = 0 /\ result \in {"NoCheckbox", "ClickFailed"}
    THEN 1 ELSE loop.last

Misses(result) ==
    IF kind = "interstitial" /\ result = "NoCheckbox" THEN loop.misses + 1 ELSE 0

\* An attempt that did not verify a click: the loop sleeps and goes on, or gives up.  Only
\* the loop of an interstitial looks at the flag before it sleeps.
AttemptFails(result) ==
    IF \/ loop.attempt >= Last(result) \/ Misses(result) >= MaxNoCheckbox
       \/ kind = "interstitial" /\ active.aborted
    THEN Return(IF active.aborted THEN "Aborted" ELSE "NoClick")
    ELSE /\ pc' = "retry"
         /\ loop' = [attempt |-> loop.attempt + 1, last |-> Last(result),
                     misses |-> Misses(result)]
         /\ local' = Nothing
         /\ UNCHANGED <<outcome, registered>>

\* The fiber goes on to its next await.
Goto(next) == pc' = next /\ UNCHANGED <<loop, outcome, registered>>

\* setClickDelivered looks up the context the page has now, if any.
Mark == delivered' = delivered \cup ({registered} \ {"none"})

\* ClickResult.Verified ends the loop.
Verified == Mark /\ Return(IF active.aborted THEN "Aborted" ELSE "Clicked")

Still == UNCHANGED <<kind, stopping, held, active, delivered, chrome, listener>>

-----------------------------------------------------------------------------
(* The dispatch, and Phases 1 and 2 of an attempt.                         *)

\* createIsolatedConnScoped, and solveDetection up to its first attempt.
Open ==
    /\ pc = "open"
    /\ \/ Return("Aborted")
       \/ /\ ~stopping /\ ~active.aborted /\ ~(kind = "turnstile" /\ Done)
          /\ Goto("clean") /\ UNCHANGED local
    /\ Scopes({"solver_isolated"}) /\ Beats({})
    /\ Still

\* CLICK_RETRY_DELAY
Retry ==
    /\ pc = "retry"
    /\ Goto("clean") /\ UNCHANGED local
    /\ Scopes({}) /\ Beats(heartbeats) /\ Still

\* openCleanPageWsScoped; without the socket Phase 1 is skipped.
OpenClean ==
    /\ pc = "clean"
    /\ IF stopping THEN Return("Aborted")
       ELSE \E next \in {"dom", "frame"} : Goto(next) /\ UNCHANGED local
    /\ Scopes(IF pc' = "dom" THEN {"clean_page"} ELSE {}) /\ Beats(heartbeats)
    /\ Still

\* Phase 1: the frame id of the challenge iframe in the page's DOM, if it is seen.
PageTraversal ==
    /\ pc = "dom"
    /\ Goto("frame")
    /\ \E seen \in {chrome.shown, NoWidget} : local' = [local EXCEPT !.anchor = seen]
    /\ Scopes({}) /\ Beats(heartbeats) /\ Still

\* Phase 2 asks for the page's own frame id,
PageFrame ==
    /\ pc = "frame"
    /\ Goto("targets")
    /\ \E known \in BOOLEAN : local' = [local EXCEPT !.framed = known]
    /\ Scopes({}) /\ Beats(heartbeats) /\ Still

\* and polls Target.getTargets, which lists the challenge iframes of all tabs.
Targets ==
    /\ pc = "targets"
    /\ Goto("byFrame")
    /\ \E listed \in {Live, {}} : local' = [local EXCEPT !.listed = listed]
    /\ Scopes({}) /\ Beats(heartbeats) /\ Still

\* a faulty NoMatch: a poll that lists nothing is not counted
NoMatchUncounted ==
    IF local.poll + 1 < MaxPolls
    THEN /\ Goto("targets")
         /\ local' = IF local.listed = {} THEN local ELSE [local EXCEPT !.poll = @ + 1]
    ELSE AttemptFails("NoCheckbox")

\* The next poll, after OOPIF_POLL_DELAY, if there is one.
NoMatch ==
    IF local.poll + 1 < MaxPolls
    THEN Goto("targets") /\ local' = [local EXCEPT !.poll = @ + 1]
    ELSE AttemptFails("NoCheckbox")

\* Phase 3 begins with its heartbeat and looks whether the detection is over.
Match(w) ==
    IF active.aborted \/ Done THEN AttemptFails("NoCheckbox")
    ELSE Goto("checkbox") /\ local' = [local EXCEPT !.target = w]

\* The candidates whose parent is the page's frame.
Children == local.listed \cap OwnWidgets

\* tryFrameIdMatch: the candidate with the frame id of Phase 1, if its probe succeeds.
ByFrame ==
    /\ pc = "byFrame"
    /\ \/ /\ \E w \in Live \cap (IF local.framed THEN Children ELSE local.listed) :
                w = local.anchor /\ Match(w)
          /\ Beats(heartbeats \cup {loop.attempt})
       \/ Goto("byParent") /\ UNCHANGED local /\ Beats(heartbeats)
    /\ Scopes({}) /\ Still

\* a faulty ByParent: it falls back to any candidate
ByParentOrAny ==
    /\ pc = "byParent"
    /\ \/ (\E w \in Live \cap local.listed : Match(w)) /\ Beats(heartbeats \cup {loop.attempt})
       \/ NoMatch /\ Beats(heartbeats)
    /\ Scopes({}) /\ Still

\* tryParentMatch: a child of the page's frame.  A child that tells a frame id other than
\* Phase 1's is refused, one that tells none is taken.
ByParent ==
    /\ pc = "byParent"
    /\ \/ /\ local.framed
          /\ \E w \in Live \cap Children : Match(w)
          /\ Beats(heartbeats \cup {loop.attempt})
       \/ NoMatch /\ Beats(heartbeats)
    /\ Scopes({}) /\ Still

-----------------------------------------------------------------------------
(* Phase 3, the checkbox, and Phase 4, the click.                          *)

\* a faulty Checkbox: the heartbeat goes on when the checkbox is found
CheckboxKeepsBeating ==
    /\ pc = "checkbox"
    /\ \/ local.target \in Live /\ Goto("coords") /\ UNCHANGED local /\ Beats(heartbeats)
       \/ (active.aborted \/ Done) /\ AttemptFails("NoCheckbox") /\ Beats(heartbeats)
       \/ AttemptFails("NoCheckbox") /\ Beats(heartbeats \ {loop.attempt})
    /\ Scopes({}) /\ Still

\* A poll finds the checkbox; the next one is not begun as the detection is over, which
\* leaves the heartbeat to its own check; or the deadline has passed.
Checkbox ==
    /\ pc = "checkbox"
    /\ \/ /\ local.target \in Live /\ Goto("coords") /\ UNCHANGED local
          /\ Beats(heartbeats \ {loop.attempt})
       \/ (active.aborted \/ Done) /\ AttemptFails("NoCheckbox") /\ Beats(heartbeats)
       \/ AttemptFails("NoCheckbox") /\ Beats(heartbeats \ {loop.attempt})
    /\ Scopes({}) /\ Still

\* A heartbeat makes its 16 beats, or sees that the detection is over.
HeartbeatEnds ==
    /\ \E a \in heartbeats : heartbeats' = heartbeats \ {a}
    /\ UNCHANGED <<pc, loop, local, outcome, registered, sockets>> /\ Still

\* Visibility, scroll, box model: not visible, without a box, or where to click.
Coords ==
    /\ pc = "coords"
    /\ \/ AttemptFails("NoCheckbox")
       \/ AttemptFails("ClickFailed")
       \/ local.target \in Live /\ Goto("listen") /\ UNCHANGED local
    /\ Scopes({}) /\ Beats(heartbeats) /\ Still

\* The listener that verifies the click is installed, whatever its answer was; then the
\* press is sent.
Press ==
    /\ pc = "listen"
    /\ Goto("pressing") /\ UNCHANGED local
    /\ held' = TRUE
    /\ LET w == local.target  live == {w} \cap Live IN
        \E installed \in {live, {}} :
            listener' = [listener EXCEPT !.armed = @ \cup installed,
                                         !.flag = @ \ installed, !.due = @ \cup live]
    /\ Scopes({}) /\ Beats(heartbeats)
    /\ UNCHANGED <<kind, stopping, active, delivered, chrome>>

\* A command to the widget's session was accepted, or came back as null.
Answers == IF local.target \in Live THEN BOOLEAN ELSE {FALSE}

\* a faulty Pressed: the click can be interrupted
PressedInterruptibly ==
    /\ pc = "pressing"
    /\ IF stopping THEN Return("Aborted")
       ELSE Goto("holding") /\ \E ok \in Answers : local' = [local EXCEPT !.pressed = ok]
    /\ Scopes({}) /\ Beats(heartbeats) /\ Still

Pressed ==
    /\ pc = "pressing"
    /\ Goto("holding")
    /\ \E ok \in Answers : local' = [local EXCEPT !.pressed = ok]
    /\ Scopes({}) /\ Beats(heartbeats) /\ Still

\* The release is sent after the hold, whatever became of the press.
Release ==
    /\ pc = "holding"
    /\ Goto("releasing") /\ UNCHANGED local
    /\ held' = FALSE
    /\ Scopes({}) /\ Beats(heartbeats)
    /\ UNCHANGED <<kind, stopping, active, delivered, chrome, listener>>

\* a faulty Released: an interruption does not keep it from marking the click
ReleasedMarksAnyway ==
    /\ pc = "releasing"
    /\ \E ok \in Answers :
        \/ ok /\ local.pressed /\ Done /\ Verified
        \/ ok /\ local.pressed /\ ~Done /\ Goto("verify") /\ UNCHANGED <<local, delivered>>
        \/ ~(ok /\ local.pressed) /\ AttemptFails("ClickFailed") /\ UNCHANGED delivered
    /\ Scopes({}) /\ Beats(heartbeats)
    /\ UNCHANGED <<kind, stopping, held, active, chrome, listener>>

\* The end of the uninterruptible region.  A click that both commands accepted is taken for
\* verified if the Resolution is settled, and is verified in the page otherwise.
Released ==
    /\ pc = "releasing"
    /\ IF stopping THEN Return("Aborted") /\ UNCHANGED delivered
       ELSE \E ok \in Answers :
        \/ ok /\ local.pressed /\ Done /\ Verified
        \/ ok /\ local.pressed /\ ~Done /\ Goto("verify") /\ UNCHANGED <<local, delivered>>
        \/ ~(ok /\ local.pressed) /\ AttemptFails("ClickFailed") /\ UNCHANGED delivered
    /\ Scopes({}) /\ Beats(heartbeats)
    /\ UNCHANGED <<kind, stopping, held, active, chrome, listener>>

\* The listener's flag is read; an error is a null like any other answer (send swallows it),
\* so that a widget that is gone counts as "not_confirmed" and never as "oopif_gone".
Verify ==
    /\ pc = "verify"
    /\ \/ local.target \in Live \cap listener.flag /\ Verified
       \/ AttemptFails("NotVerified") /\ UNCHANGED delivered
    /\ Scopes({}) /\ Beats(heartbeats)
    /\ UNCHANGED <<kind, stopping, held, active, chrome, listener>>

FiberStep ==
    \/ Open \/ Retry \/ OpenClean \/ PageTraversal \/ PageFrame \/ Targets \/ ByFrame
    \/ ByParent \/ Checkbox \/ Coords \/ Press \/ Pressed \/ Release \/ Released \/ Verify

-----------------------------------------------------------------------------
(* What happens to the detection and to the page meanwhile.                *)

\* The fiber is interrupted: at once, or at the end of what may not be.
Stop ==
    /\ pc # "over" /\ ~stopping
    /\ IF pc \in Uninterruptible
       THEN stopping' = TRUE
            /\ UNCHANGED <<pc, loop, local, outcome, registered, sockets, heartbeats>>
       ELSE Return("Aborted") /\ Scopes({}) /\ Beats({}) /\ stopping' = TRUE
    /\ UNCHANGED <<kind, held, delivered, chrome, listener>>

\* raceFirst: the latch has opened, and the loop loses.
RaceLost == pc # "open" /\ active.latch /\ Stop /\ UNCHANGED active

\* The tab goes or the scope of the detection closes, or WS_SCOPE_BUDGET is used up.
Cancelled == Stop /\ UNCHANGED active

FiberQuiet == UNCHANGED <<kind, pc, loop, local, stopping, outcome, sockets, heartbeats, held>>

\* The Resolution is settled by who does not abort: a bridge's error page, a navigation
\* that the bridge reports.
Settled ==
    /\ pc # "over" /\ ~Done
    /\ \E r \in {"solved", "failed"} : active' = [active EXCEPT !.resolution = r]
    /\ UNCHANGED <<registered, delivered, chrome, listener>> /\ FiberQuiet

\* DetectionContext.abort by a push, a navigation or the widget's state, after or before the
\* settlement; or for a retry, which clears the flag when the scope has closed.  The scope of
\* a turnstile does not wait for the dispatch.
Aborted ==
    /\ pc # "over" /\ registered = "own" /\ ~active.latch
    /\ \E retried \in {FALSE, kind = "turnstile"}, r \in {active.resolution} \cup (IF Done THEN {} ELSE {"solved", "failed"}) :
        active' = [aborted |-> ~retried, latch |-> TRUE, resolution |-> r]
    /\ registered' = IF kind = "turnstile" THEN "none" ELSE "own"
    /\ UNCHANGED <<delivered, chrome, listener>> /\ FiberQuiet

\* The page's next detection; its registration takes commands, and so comes after this
\* fiber has been told to stop.
Successor ==
    /\ pc # "over" /\ stopping /\ registered = "none"
    /\ registered' = "next"
    /\ UNCHANGED <<active, delivered, chrome, listener>> /\ FiberQuiet

\* api.js replaces the widget; the old one's target may be listed for a while.
WidgetShown(w) ==
    /\ pc # "over" /\ chrome.state[w] = "new"
    /\ chrome' = [state |-> [chrome.state EXCEPT ![w] = "live"], shown |-> w]
    /\ UNCHANGED <<active, registered, delivered, listener>> /\ FiberQuiet

WidgetGone(w) ==
    /\ pc # "over" /\ w \in Live
    /\ chrome' = [state |-> [chrome.state EXCEPT ![w] = "gone"],
                  shown |-> IF chrome.shown = w THEN NoWidget ELSE chrome.shown]
    /\ listener' = [listener EXCEPT !.armed = @ \ {w}, !.flag = @ \ {w}, !.due = @ \ {w}]
    /\ UNCHANGED <<active, registered, delivered>> /\ FiberQuiet

\* A press reaches the widget's document.
MouseDown(w) ==
    /\ pc # "over" /\ w \in listener.due
    /\ listener' = [armed |-> listener.armed \ {w}, due |-> listener.due \ {w},
                    flag |-> listener.flag \cup (listener.armed \cap {w}),
                    landed |-> listener.landed \cup {w}]
    /\ UNCHANGED <<active, registered, delivered, chrome>> /\ FiberQuiet

Over == pc = "over" /\ UNCHANGED vars

Next ==
    \/ FiberStep \/ HeartbeatEnds \/ RaceLost \/ Cancelled
    \/ Settled \/ Aborted \/ Successor
    \/ \E w \in OwnWidgets : WidgetShown(w) \/ WidgetGone(w)
    \/ \E w \in Widgets : MouseDown(w)
    \/ Over

Spec == Init /\ [][Next]_vars

\* Commands have timeouts, sleeps and polls end; nothing else is owed.
FairSpec == Spec /\ WF_vars(FiberStep)

-----------------------------------------------------------------------------
(* What a dispatch promises.                                               *)

\* "NEVER falls back to unfiltered candidates" (cf-phase-oopif.ts): a widget of another tab is
\* never pressed, whichever of the two anchors could not be read.
ClicksOwnPage == listener.due \cup listener.landed \subseteq OwnWidgets

\* "mousedown, hold, mouseup must complete atomically": whatever ends the dispatch, no
\* widget is left with the button down, and until the release is sent the socket is open.
NoButtonHeld ==
    /\ TypeOK
    /\ held => pc \in {"pressing", "holding"} /\ "solver_isolated" \in sockets

\* clickDelivered is set ONLY for a press and a release that were dispatched onto this
\* page's widget (cloudflare-event-emitter.ts): on this detection and never on its successor,
\* for a press that reached the widget unless the challenge was settled by then.
CreditIsEarned ==
    delivered # {} =>
        /\ delivered = {"own"}
        /\ local.pressed /\ local.target \in OwnWidgets
        /\ local.target \in listener.landed \/ Done

\* The challenge's frame is not evaluated in by a heartbeat while it is being clicked, neither
\* by this attempt's nor by one an earlier attempt left behind.
QuietClick ==
    pc \in {"coords", "listen", "pressing", "holding", "releasing", "verify"} => heartbeats = {}

\* Every dispatch ends, and with it its connection.
DispatchOver == <>(pc = "over" /\ sockets = {})
=============================================================================

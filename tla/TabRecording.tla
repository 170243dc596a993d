---------------------------- MODULE TabRecording ----------------------------
(***************************************************************************)
(* The registry of targets and the replay pipeline of one of its pages at  *)
(* work together: Chrome emits events on CDP sessions, handleCDPMessage    *)
(* looks up the page that each belongs to, and the page's events go        *)
(* through its queue to the replay server.  The page is activated,         *)
(* drained and removed while events keep coming.                           *)
(***************************************************************************)
EXTENDS ReplayPipeline

CONSTANTS
    Pages, Iframes, Sessions, NoPage,   \* as in TargetRegistry
    Tab                                 \* the page whose replay is followed

ASSUME TabRecordingAssumption ==
    /\ Tab \in Pages
    /\ NoPage \notin Pages /\ Pages \cap Iframes = {}

VARIABLES
    byTargetId, byCdpSessionId, iframeToCdpSession, iframeTargetToCdpSession,
    attaching, owner, gone,  \* the registry, and Chrome's side of it
    activated,               \* the tab has been given its queue (tabQueues)
    misplaced,               \* history: the queue accepted another page's event
    missed                   \* history: it did not get one that it was there for

Reg == INSTANCE TargetRegistry

regVars == <<byTargetId, byCdpSessionId, iframeToCdpSession, iframeTargetToCdpSession,
             attaching, owner, gone>>
recordingVars == <<vars, regVars, activated, misplaced, missed>>

RecordingInit ==
    /\ Init /\ Reg!Init
    /\ activated = FALSE /\ misplaced = FALSE /\ missed = FALSE

Unrecorded == UNCHANGED <<vars, activated, misplaced, missed>>

QueueOpen == activated /\ ~ended

-----------------------------------------------------------------------------

\* The handlers of Chrome's events, for all pages and iframes; of the tab's own, the
\* removal comes after its queue has ended.
PageAttached(p, s) == Reg!PageAttached(p, s) /\ Unrecorded
IframeAttached(i, s, parent) == Reg!IframeAttached(i, s, parent) /\ Unrecorded
IframeResumed(s) == Reg!IframeResumed(s) /\ Unrecorded
TargetDestroyed(t) == Reg!TargetDestroyed(t) /\ t # Tab /\ Unrecorded

\* activateTabEffect
Activate ==
    /\ ~activated /\ Tab \in DOMAIN byTargetId
    /\ activated' = TRUE
    /\ UNCHANGED <<vars, regVars, misplaced, missed>>

\* a faulty Event: an iframe's event is looked up as a page's
EventOfPage(s) ==
    /\ s \in DOMAIN owner /\ offered < MaxEvents
    /\ LET found == QueueOpen /\ Reg!PageOf(s) = Tab IN
       /\ IF found THEN Offer ELSE UNCHANGED vars
       /\ misplaced' = (misplaced \/ (found /\ owner[s] # Tab))
       /\ missed' = (missed \/ (~found /\ QueueOpen /\ owner[s] = Tab /\ s \notin DOMAIN attaching))
    /\ UNCHANGED <<regVars, activated>>

\* handleCDPMessage, offerEvents: Chrome's event of a session is recorded by the page it is
\* attributed to, if that has a queue.
Event(s) ==
    /\ s \in DOMAIN owner /\ offered < MaxEvents
    /\ LET found == QueueOpen /\ Reg!Route(s) = Tab IN
       /\ IF found THEN Offer ELSE UNCHANGED vars
       /\ misplaced' = (misplaced \/ (found /\ owner[s] # Tab))
       /\ missed' = (missed \/ (~found /\ QueueOpen /\ owner[s] = Tab /\ s \notin DOMAIN attaching))
    /\ UNCHANGED <<regVars, activated>>

\* FINALIZER 3 of the tab's scope ends the queue.
EndQueue == activated /\ End /\ UNCHANGED <<regVars, activated, misplaced, missed>>

\* FINALIZER 4 removes the tab: after the end of its queue, and after its consumer or the
\* 45 s it is given.
RemoveTab == Reg!TargetDestroyed(Tab) /\ (activated => ended) /\ Unrecorded

\* The consumer's fiber.
Consume ==
    /\ activated
    /\ Take \/ Posted \/ Finish
    /\ UNCHANGED <<regVars, activated, misplaced, missed>>

\* The runtime is disposed; here after the consumer's end (TabLifecycle has the other case).
Clear == Reg!Clear /\ (activated => at = "done") /\ Unrecorded

Over == gone = Pages \cup Iframes /\ UNCHANGED recordingVars

RecordingNext ==
    \/ \E p \in Pages, s \in Sessions : PageAttached(p, s)
    \/ \E i \in Iframes, s \in Sessions, parent \in Sessions : IframeAttached(i, s, parent)
    \/ \E s \in Sessions : IframeResumed(s) \/ Event(s)
    \/ \E t \in Pages \cup Iframes : TargetDestroyed(t)
    \/ Activate \/ EndQueue \/ RemoveTab \/ Consume \/ Clear \/ Over

\* The consumer's fiber is scheduled, and a post is answered or times out.
RecordingSpec == RecordingInit /\ [][RecordingNext]_recordingVars /\ WF_recordingVars(Consume)

-----------------------------------------------------------------------------

\* The registry keeps its promise while the pipeline runs (handleCDPMessage).
EventsReachTheirTab == Reg!EventsReachTheirTab
\* The registry's two indexes agree about every page (add, remove).
IndexesAgree == Reg!IndexesAgree

\* The replay of a tab is made of the tab's own events, all of those that came while it
\* had its queue, in the order in which they came, but for the batches whose post failed.
ReplayIsTheTabs ==
    /\ TypeOK /\ Reg!TypeOK
    /\ ~misplaced /\ ~missed
    /\ \A m, n \in 1..Len(stored) : m < n => stored[m] < stored[n]

=============================================================================

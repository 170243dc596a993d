---------------------------- MODULE TabLifecycle ----------------------------
(***************************************************************************)
(* The tabs of one CdpSession: attach, activation on the first real        *)
(* navigation, the replay queue and its consumer, the close of a tab's     *)
(* scope with its finalizers in order, and the teardown of the session,    *)
(* which may run while any of these is under way.                          *)
(*                                                                         *)
(* Chrome's events are handled by fibers.  A FiberMap holds at most one    *)
(* fiber per key, and running a new one under a key interrupts the old.    *)
(* A target may be attached more than once (targetCreated asks for an      *)
(* attachment of its own), and every attachment makes a scope.             *)
(***************************************************************************)
EXTENDS Naturals

CONSTANTS
    Targets,    \* page targets of the browser
    MaxAttach,  \* bound: attachments of one target
    MaxEvents,  \* bound: events in a tab's queue
    NoTarget

ASSUME TabLifecycleAssumption ==
    /\ NoTarget \notin Targets
    /\ MaxAttach \in Nat \ {0}
    /\ MaxEvents \in Nat

VARIABLES
    sess,       \* CdpSession.state
    destroyer,  \* the one run of _doDestroy: its step, source and progress
    wsOpen,     \* the browser WebSocket
    page,       \* Chrome's side of a target
    attached,   \* attachments of a target so far
    registered, \* TargetRegistry.byTargetId
    finalized,  \* those of them with a finalizedResult
    tabs,       \* this.tabs: the attachment whose TabState a target has, or 0
    scope,      \* the tab scope of every attachment, and its next finalizer
    activated,  \* TabState.activated
    provisioned,\* attachments whose activation ran to its end (page WebSocket)
    fibers,     \* the event handlers at work
    queue,      \* tabQueues: the tabs that have a queue
    deferred,   \* tabDeferreds: the tabs whose consumer is to be awaited
    consumer,   \* the fiber that empties the queue
    pending,    \* events accepted and not yet posted
    announced,  \* calls of onTabReplayComplete for a target
    undrained   \* history: targets of which a finalizer gave up, or skipped, the drain

chromeVars == <<page, attached>>
replayVars == <<queue, deferred, consumer, pending>>
tabVars == <<tabs, scope, activated>>
vars == <<sess, destroyer, wsOpen, chromeVars, registered, finalized, tabVars,
          provisioned, fibers, replayVars, announced, undrained>>

Attachments == 1..MaxAttach
Tabs == Targets \X Attachments
Session == <<NoTarget, 0>>   \* the session's own FiberMap

Steps == {"enabling", "provisioning", "detecting", "finalizing", "closing"}
Events == {"attached", "infoChanged", "destroyed"}
Fibers == [map : Tabs \cup {Session}, key : Events \X Targets,
           of : Tabs \cup (Targets \X {0}), at : Steps]

TypeOK ==
    /\ sess \in {"INITIALIZING", "ACTIVE", "DRAINING", "DESTROYED"}
    /\ destroyer \in
        [at : {"idle", "finalizing", "closing", "solver", "disposing", "disposed"},
         source : {"none", "cleanup", "ws_close", "error"},
         todo : SUBSET Targets, seen : SUBSET Targets,
         busy : Tabs \cup (Targets \X {0}) \cup {Session}]
    /\ wsOpen \in BOOLEAN
    /\ page \in [Targets -> {"absent", "blank", "real", "gone"}]
    /\ attached \in [Targets -> 0..MaxAttach]
    /\ registered \subseteq Targets
    /\ finalized \subseteq registered
    /\ tabs \in [Targets -> 0..MaxAttach]
    /\ scope \in [Tabs -> {"none", "Open", "cf", "drain", "draining", "callback", "Closed"}]
    /\ activated \subseteq Tabs
    /\ provisioned \subseteq Tabs
    /\ fibers \subseteq Fibers
    /\ queue \subseteq Targets
    /\ deferred \subseteq Targets
    /\ consumer \in [Targets -> {"none", "running", "done", "dead"}]
    /\ pending \in [Targets -> 0..MaxEvents]
    /\ announced \in [Targets -> Nat]
    /\ undrained \subseteq Targets

Idle == [at |-> "idle", source |-> "none", todo |-> {}, seen |-> {}, busy |-> Session]

Init ==
    /\ sess = "INITIALIZING" /\ destroyer = Idle /\ wsOpen = TRUE
    /\ page = [t \in Targets |-> "absent"]
    /\ attached = [t \in Targets |-> 0]
    /\ registered = {} /\ finalized = {}
    /\ tabs = [t \in Targets |-> 0]
    /\ scope = [tab \in Tabs |-> "none"]
    /\ activated = {} /\ provisioned = {} /\ fibers = {}
    /\ queue = {} /\ deferred = {}
    /\ consumer = [t \in Targets |-> "none"]
    /\ pending = [t \in Targets |-> 0]
    /\ announced = [t \in Targets |-> 0]
    /\ undrained = {}

Tab(t) == <<t, tabs[t]>>   \* this.tabs.get(t), if tabs[t] is not 0

\* initialize() has built the runtime and started the event consumer.
Initialize ==
    /\ sess = "INITIALIZING"
    /\ sess' = "ACTIVE"
    /\ UNCHANGED <<destroyer, wsOpen, chromeVars, registered, finalized, tabVars,
                   provisioned, fibers, replayVars, announced, undrained>>

-----------------------------------------------------------------------------
(* Routing of Chrome's events.                                             *)

Routing == sess # "INITIALIZING" /\ destroyer.at # "disposed" /\ wsOpen

\* FiberMap.run interrupts the fiber that has the key.
Without(map, key) == {f \in fibers : ~(f.map = map /\ f.key = key)}

Fiber(map, key, of, at) == [map |-> map, key |-> key, of |-> of, at |-> at]

TabOpen(t) == tabs[t] # 0 /\ scope[Tab(t)] = "Open"

\* A faulty MapFor: the tab's own FiberMap, whatever the state of its scope.
MapForAnyTab(t) == IF tabs[t] # 0 THEN Tab(t) ELSE Session

\* The per-tab FiberMap, if the tab's scope is open, else the session's.
MapFor(t) == IF TabOpen(t) THEN Tab(t) ELSE Session

\* activateTabEffect up to its first send: the flag, the queue, the consumer.
Activate(t) ==
    /\ activated' = activated \cup {Tab(t)}
    /\ IF t \in queue
       THEN UNCHANGED replayVars
       ELSE /\ queue' = queue \cup {t}
            /\ deferred' = deferred \cup {t}
            /\ consumer' = [consumer EXCEPT ![t] = "running"]
            /\ pending' = [pending EXCEPT ![t] = 0]

NeedsActivation(t) == tabs[t] # 0 /\ Tab(t) \notin activated

TargetAttached(t) ==
    /\ Routing
    /\ page[t] # "gone" /\ attached[t] < MaxAttach
    /\ \E p \in IF page[t] = "absent" THEN {"blank", "real"} ELSE {page[t]} :
        /\ page' = [page EXCEPT ![t] = p]
        /\ fibers' = Without(Session, <<"attached", t>>) \cup
               IF p = "real" THEN {Fiber(Session, <<"attached", t>>,
                                         <<t, attached[t] + 1>>, "enabling")}
               ELSE {}
    /\ attached' = [attached EXCEPT ![t] = @ + 1]
    /\ registered' = registered \cup {t}
    /\ finalized' = finalized \ {t}
    /\ tabs' = [tabs EXCEPT ![t] = attached[t] + 1]
    /\ scope' = [scope EXCEPT ![<<t, attached[t] + 1>>] = "Open"]
    /\ UNCHANGED <<sess, destroyer, wsOpen, activated, provisioned, replayVars,
                   announced, undrained>>

\* The first navigation away from about:blank activates the tab.
TargetInfoChanged(t) ==
    LET key == <<"infoChanged", t>>
    IN  /\ Routing
        /\ page[t] \in {"blank", "real"} /\ attached[t] > 0
        /\ page' = [page EXCEPT ![t] = "real"]
        /\ IF NeedsActivation(t) /\ t \in registered
           THEN /\ Activate(t)
                /\ fibers' = Without(MapFor(t), key) \cup
                             {Fiber(MapFor(t), key, Tab(t), "provisioning")}
           ELSE /\ fibers' = Without(MapFor(t), key) \cup
                             IF t \in registered
                             THEN {Fiber(MapFor(t), key, Tab(t), "detecting")}
                             ELSE {}
                /\ UNCHANGED <<activated, replayVars>>
        /\ UNCHANGED <<sess, destroyer, wsOpen, attached, registered, finalized,
                       tabs, scope, provisioned, announced, undrained>>

TargetDestroyed(t) ==
    /\ Routing
    /\ page[t] \in {"blank", "real"} /\ attached[t] > 0
    /\ page' = [page EXCEPT ![t] = "gone"]
    /\ fibers' = fibers \cup {Fiber(Session, <<"destroyed", t>>, Tab(t), "finalizing")}
    /\ UNCHANGED <<sess, destroyer, wsOpen, attached, registered, finalized, tabVars,
                   provisioned, replayVars, announced, undrained>>

-----------------------------------------------------------------------------
(* The handlers, from one answer of Chrome to the next.                    *)

Moved(f, step) == (fibers \ {f}) \cup {[f EXCEPT !.at = step]}

\* Phase 1 has enabled the domains of a page that is not at about:blank.
AttachEnabled(f) ==
    /\ f \in fibers /\ f.at = "enabling"
    /\ IF NeedsActivation(f.of[1])
       THEN /\ Activate(f.of[1])
            /\ fibers' = Moved(f, "provisioning")
       ELSE /\ fibers' = fibers \ {f}
            /\ UNCHANGED <<activated, replayVars>>
    /\ UNCHANGED <<sess, destroyer, wsOpen, chromeVars, registered, finalized, tabs,
                   scope, provisioned, announced, undrained>>

\* The rest of activateTabEffect, which opens the page WebSocket; the
\* handler of targetInfoChanged goes on to detection.
Provisioned(f) ==
    /\ f \in fibers /\ f.at = "provisioning"
    /\ provisioned' = provisioned \cup {f.of}
    /\ fibers' = IF f.key[1] = "infoChanged" /\ f.of[1] \in registered
                 THEN Moved(f, "detecting")
                 ELSE fibers \ {f}
    /\ UNCHANGED <<sess, destroyer, wsOpen, chromeVars, registered, finalized, tabVars,
                   replayVars, announced, undrained>>

\* cloudflareHooks.onPageNavigated, which waits before it looks at the page.
Detected(f) ==
    /\ f \in fibers /\ f.at = "detecting"
    /\ fibers' = fibers \ {f}
    /\ UNCHANGED <<sess, destroyer, wsOpen, chromeVars, registered, finalized, tabVars,
                   provisioned, replayVars, announced, undrained>>

\* Scope.close: the scope is closed at once, and its first finalizers
\* interrupt the tab's fibers; the others follow.
ScopeClosing(tab, others) ==
    /\ scope' = [scope EXCEPT ![tab] = "cf"]
    /\ fibers' = {f \in others : f.map # tab}

\* handleTargetDestroyedEffect after finalizeTabEffect.
HandlerFinalized(f) ==
    LET t == f.of[1]
    IN  /\ f \in fibers /\ f.at = "finalizing"
        /\ IF TabOpen(t)
           THEN /\ ScopeClosing(Tab(t), (fibers \ {f}) \cup
                                {[f EXCEPT !.at = "closing", !.of = Tab(t)]})
                /\ finalized' = finalized \cup ({t} \cap registered)
                /\ UNCHANGED registered
           ELSE /\ fibers' = fibers \ {f}
                /\ registered' = IF tabs[t] = 0 THEN registered \ {t} ELSE registered
                /\ finalized' = (finalized \cup {t}) \cap registered'
                /\ UNCHANGED scope
        /\ UNCHANGED <<sess, destroyer, wsOpen, chromeVars, tabs, activated,
                       provisioned, replayVars, announced, undrained>>

HandlerClosed(f) ==
    /\ f \in fibers /\ f.at = "closing" /\ scope[f.of] = "Closed"
    /\ fibers' = fibers \ {f}
    /\ UNCHANGED <<sess, destroyer, wsOpen, chromeVars, registered, finalized, tabVars,
                   provisioned, replayVars, announced, undrained>>

-----------------------------------------------------------------------------
(* The finalizers of a tab scope, run by the handler or by destroy().      *)

ClosedBySomeone(tab) ==
    \/ destroyer.busy = tab
    \/ \E f \in fibers : f.at = "closing" /\ f.of = tab

\* FINALIZER 2: cloudflareHooks.onTargetDestroyed, or its three seconds.
CfCleaned(tab) ==
    /\ scope[tab] = "cf" /\ ClosedBySomeone(tab)
    /\ scope' = [scope EXCEPT ![tab] = "drain"]
    /\ UNCHANGED <<sess, destroyer, wsOpen, chromeVars, registered, finalized, tabs,
                   activated, provisioned, fibers, replayVars, announced, undrained>>

ActiveNow(t) == tabs[t] # 0 /\ Tab(t) \in activated

\* A faulty finalizer 3: the consumer's Deferred is not awaited.
DrainQueueNoWait(tab) ==
    LET t == tab[1]
    IN  /\ scope[tab] = "drain" /\ ClosedBySomeone(tab)
        /\ IF ActiveNow(t)
           THEN /\ queue' = queue \ {t}
                /\ scope' = [scope EXCEPT ![tab] =
                                 "callback"]
                /\ UNCHANGED undrained
           ELSE /\ scope' = [scope EXCEPT ![tab] = "callback"]
                /\ undrained' = undrained \cup {t}
                /\ UNCHANGED queue
        /\ UNCHANGED <<sess, destroyer, wsOpen, chromeVars, registered, finalized, tabs,
                       activated, provisioned, fibers, deferred, consumer, pending,
                       announced>>

\* FINALIZER 3: end the queue and wait for the consumer.  It looks at the
\* TabState the target has now.
DrainQueue(tab) ==
    LET t == tab[1]
    IN  /\ scope[tab] = "drain" /\ ClosedBySomeone(tab)
        /\ IF ActiveNow(t)
           THEN /\ queue' = queue \ {t}
                /\ scope' = [scope EXCEPT ![tab] =
                                 IF t \in deferred THEN "draining" ELSE "callback"]
                /\ UNCHANGED undrained
           ELSE /\ scope' = [scope EXCEPT ![tab] = "callback"]
                /\ undrained' = undrained \cup {t}
                /\ UNCHANGED queue
        /\ UNCHANGED <<sess, destroyer, wsOpen, chromeVars, registered, finalized, tabs,
                       activated, provisioned, fibers, deferred, consumer, pending,
                       announced>>

\* A faulty finalizer 3: the consumer is awaited for ever.
DrainedNoTimeout(tab) ==
    LET t == tab[1]
    IN  /\ scope[tab] = "draining" /\ consumer[t] = "done" /\ ClosedBySomeone(tab)
        /\ scope' = [scope EXCEPT ![tab] = "callback"]
        /\ undrained' = IF consumer[t] = "done" THEN undrained ELSE undrained \cup {t}
        /\ deferred' = deferred \ {t}
        /\ UNCHANGED <<sess, destroyer, wsOpen, chromeVars, registered, finalized, tabs,
                       activated, provisioned, fibers, queue, consumer, pending, announced>>

\* The consumer has posted everything, or 45 seconds are over.
Drained(tab) ==
    LET t == tab[1]
    IN  /\ scope[tab] = "draining" /\ ClosedBySomeone(tab)
        /\ scope' = [scope EXCEPT ![tab] = "callback"]
        /\ undrained' = IF consumer[t] = "done" THEN undrained ELSE undrained \cup {t}
        /\ deferred' = deferred \ {t}
        /\ UNCHANGED <<sess, destroyer, wsOpen, chromeVars, registered, finalized, tabs,
                       activated, provisioned, fibers, queue, consumer, pending, announced>>

\* A faulty finalizer 4: the target is removed before it is looked for.
TabCallbackTooLate(tab) ==
    LET t == tab[1]
    IN  /\ scope[tab] = "callback" /\ ClosedBySomeone(tab)
        /\ registered' = registered \ {t}
        /\ announced' = IF ActiveNow(t) /\ t \in registered'
                        THEN [announced EXCEPT ![t] = @ + 1]
                        ELSE announced
        /\ finalized' = finalized \ {t}
        /\ scope' = [scope EXCEPT ![tab] = "Closed"]
        /\ UNCHANGED <<sess, destroyer, wsOpen, chromeVars, tabs, activated,
                       provisioned, fibers, replayVars, undrained>>

\* FINALIZER 4: onTabReplayComplete, then the target leaves the registry.
TabCallback(tab) ==
    LET t == tab[1]
    IN  /\ scope[tab] = "callback" /\ ClosedBySomeone(tab)
        /\ announced' = IF ActiveNow(t) /\ t \in registered
                        THEN [announced EXCEPT ![t] = @ + 1]
                        ELSE announced
        /\ registered' = registered \ {t}
        /\ finalized' = finalized \ {t}
        /\ scope' = [scope EXCEPT ![tab] = "Closed"]
        /\ UNCHANGED <<sess, destroyer, wsOpen, chromeVars, tabs, activated,
                       provisioned, fibers, replayVars, undrained>>

-----------------------------------------------------------------------------
(* Replay events and the consumer that posts them.                         *)

\* offerEvents: from the page's binding, an iframe, or a server-side marker.
OfferEvents(t) ==
    /\ destroyer.at # "disposed"
    /\ t \in queue /\ pending[t] < MaxEvents
    /\ pending' = [pending EXCEPT ![t] = @ + 1]
    /\ UNCHANGED <<sess, destroyer, wsOpen, chromeVars, registered, finalized, tabVars,
                   provisioned, fibers, queue, deferred, consumer, announced, undrained>>

\* A batch has been posted, or refused by the replay server.
Flush(t) ==
    /\ consumer[t] = "running" /\ pending[t] > 0
    /\ \E n \in 0..(pending[t] - 1) : pending' = [pending EXCEPT ![t] = n]
    /\ UNCHANGED <<sess, destroyer, wsOpen, chromeVars, registered, finalized, tabVars,
                   provisioned, fibers, queue, deferred, consumer, announced, undrained>>

\* The queue has ended and is empty: the consumer signals its Deferred.
ConsumerDone(t) ==
    /\ consumer[t] = "running" /\ t \notin queue /\ pending[t] = 0
    /\ consumer' = [consumer EXCEPT ![t] = "done"]
    /\ UNCHANGED <<sess, destroyer, wsOpen, chromeVars, registered, finalized, tabVars,
                   provisioned, fibers, queue, deferred, pending, announced, undrained>>

-----------------------------------------------------------------------------
(* The teardown.                                                           *)

\* destroy(source): later calls share the first one's promise.
DestroyWith(source) ==
    /\ destroyer.at = "idle"
    /\ IF sess = "INITIALIZING"
       THEN /\ sess' = "DESTROYED"
            /\ destroyer' = [destroyer EXCEPT !.at = "disposed", !.source = source]
       ELSE /\ sess' = "DRAINING"
            /\ destroyer' =
                 [destroyer EXCEPT !.source = source, !.todo = registered,
                     !.at = IF source = "cleanup" THEN "finalizing" ELSE "closing"]

Destroy ==
    /\ \E source \in {"cleanup", "error"} : DestroyWith(source)
    /\ UNCHANGED <<wsOpen, chromeVars, registered, finalized, tabVars, provisioned,
                   fibers, replayVars, announced, undrained>>

\* The browser WebSocket closes, and its handler calls destroy("ws_close").
WsClosed ==
    /\ wsOpen
    /\ wsOpen' = FALSE
    /\ IF destroyer.at = "idle" THEN DestroyWith("ws_close")
                                ELSE UNCHANGED <<sess, destroyer>>
    /\ UNCHANGED <<chromeVars, registered, finalized, tabVars, provisioned, fibers,
                   replayVars, announced, undrained>>

\* finalizeTabEffect of the next target of the snapshot: begun, or skipped.
FinalizeNext(t) ==
    /\ destroyer.at = "finalizing" /\ destroyer.busy = Session /\ t \in destroyer.todo
    /\ destroyer' = IF t \in registered \ finalized
                    THEN [destroyer EXCEPT !.busy = <<t, 0>>]
                    ELSE [destroyer EXCEPT !.todo = @ \ {t}]
    /\ UNCHANGED <<sess, wsOpen, chromeVars, registered, finalized, tabVars, provisioned,
                   fibers, replayVars, announced, undrained>>

\* It has collected what the page still had, if it could.
FinalizeEnd(t) ==
    /\ destroyer.at = "finalizing" /\ destroyer.busy = <<t, 0>>
    /\ destroyer' = [destroyer EXCEPT !.busy = Session, !.todo = @ \ {t}]
    /\ finalized' = finalized \cup ({t} \cap registered)
    /\ \E n \in IF page[t] # "gone" /\ wsOpen /\ t \in queue
                THEN pending[t]..MaxEvents ELSE {pending[t]} :
            pending' = [pending EXCEPT ![t] = n]
    /\ UNCHANGED <<sess, wsOpen, chromeVars, registered, tabVars, provisioned, fibers,
                   queue, deferred, consumer, announced, undrained>>

FinalizeOver ==
    /\ destroyer.at = "finalizing" /\ destroyer.todo = {}
    /\ destroyer' = [destroyer EXCEPT !.at = "closing"]
    /\ UNCHANGED <<sess, wsOpen, chromeVars, registered, finalized, tabVars, provisioned,
                   fibers, replayVars, announced, undrained>>

\* The loop over this.tabs, which also meets the tabs added while it waits.
CloseNext(t) ==
    /\ destroyer.at = "closing" /\ destroyer.busy = Session
    /\ tabs[t] # 0 /\ t \notin destroyer.seen
    /\ IF TabOpen(t)
       THEN /\ ScopeClosing(Tab(t), fibers)
            /\ destroyer' = [destroyer EXCEPT !.busy = Tab(t), !.seen = @ \cup {t}]
       ELSE /\ destroyer' = [destroyer EXCEPT !.seen = @ \cup {t}]
            /\ UNCHANGED <<scope, fibers>>
    /\ UNCHANGED <<sess, wsOpen, chromeVars, registered, finalized, tabs, activated,
                   provisioned, replayVars, announced, undrained>>

CloseEnd ==
    /\ destroyer.at = "closing" /\ destroyer.busy \in Tabs
    /\ scope[destroyer.busy] = "Closed"
    /\ destroyer' = [destroyer EXCEPT !.busy = Session]
    /\ UNCHANGED <<sess, wsOpen, chromeVars, registered, finalized, tabVars, provisioned,
                   fibers, replayVars, announced, undrained>>

\* No tab is left; cloudflareHooks.destroy() begins.
CloseOver ==
    /\ destroyer.at = "closing" /\ destroyer.busy = Session
    /\ {t \in Targets : tabs[t] # 0} \subseteq destroyer.seen
    /\ destroyer' = [destroyer EXCEPT !.at = "solver"]
    /\ UNCHANGED <<sess, wsOpen, chromeVars, registered, finalized, tabVars, provisioned,
                   fibers, replayVars, announced, undrained>>

\* The solver is gone; the ensuring block forgets the tabs.
ClearTabs ==
    /\ destroyer.at = "solver"
    /\ destroyer' = [destroyer EXCEPT !.at = "disposing"]
    /\ tabs' = [t \in Targets |-> 0]
    /\ sess' = "DESTROYED"
    /\ UNCHANGED <<wsOpen, chromeVars, registered, finalized, scope, activated,
                   provisioned, fibers, replayVars, announced, undrained>>

\* runtime.dispose(): the layers close the WebSocket, clear the registry and
\* interrupt every fiber of the session's FiberMap.
Dispose ==
    /\ destroyer.at = "disposing"
    /\ destroyer' = [destroyer EXCEPT !.at = "disposed"]
    /\ wsOpen' = FALSE
    /\ registered' = {} /\ finalized' = {}
    /\ fibers' = {f \in fibers : f.map # Session}
    /\ consumer' = [t \in Targets |->
                       IF consumer[t] = "running" THEN "dead" ELSE consumer[t]]
    /\ UNCHANGED <<sess, chromeVars, tabVars, provisioned, queue, deferred, pending,
                   announced, undrained>>

-----------------------------------------------------------------------------

Finalizer(tab) == CfCleaned(tab) \/ DrainQueue(tab) \/ Drained(tab) \/ TabCallback(tab)

Handler(f) ==
    \/ AttachEnabled(f) \/ Provisioned(f) \/ Detected(f)
    \/ HandlerFinalized(f) \/ HandlerClosed(f)

Teardown ==
    \/ \E t \in Targets : FinalizeNext(t) \/ FinalizeEnd(t) \/ CloseNext(t)
    \/ FinalizeOver \/ CloseEnd \/ CloseOver \/ ClearTabs \/ Dispose

Chrome(t) ==
    TargetAttached(t) \/ TargetInfoChanged(t) \/ TargetDestroyed(t)

\* A disposed session stays as it is.
Rest == destroyer.at = "disposed" /\ UNCHANGED vars

Next ==
    \/ Initialize \/ Destroy \/ WsClosed
    \/ \E t \in Targets : Chrome(t) \/ OfferEvents(t) \/ Flush(t) \/ ConsumerDone(t)
    \/ \E tab \in Tabs : Finalizer(tab)
    \/ \E f \in fibers : Handler(f)
    \/ Teardown \/ Rest

\* Each await of the teardown and of the finalizers has a timeout, and the
\* handlers wait for answers that come or time out.
Fairness ==
    /\ WF_vars(Teardown)
    /\ WF_vars(Initialize)
    /\ \A tab \in Tabs : WF_vars(Finalizer(tab))
    /\ \A t \in Targets : WF_vars(\E f \in fibers : f.of[1] = t /\ Handler(f))

Spec == Init /\ [][Next]_vars /\ Fairness

-----------------------------------------------------------------------------
(* What the tab lifecycle promises.                                        *)

\* When tabReplayComplete has been sent, the replay it names is stored: the
\* queue has ended and every event it accepted has been posted, unless the
\* drain timed out, the tab was activated after it had begun to close, or the
\* target was attached again.
AnnouncedIsStored ==
    \A t \in Targets : announced[t] > 0 /\ attached[t] = 1 /\ t \notin undrained =>
        t \notin queue /\ pending[t] = 0

\* While destroy() waits for tab scopes, no closed tab is lost: an activated
\* tab whose scope has closed was announced, unless its drain was given up
\* or it was attached a second time.
ClosedMeansAnnounced ==
    \A t \in Targets :
        /\ attached[t] = 1 /\ scope[<<t, 1>>] = "Closed" /\ <<t, 1>> \in activated
        /\ t \notin undrained /\ destroyer.at \in {"finalizing", "closing", "solver"}
        => announced[t] = 1

\* No handler of a tab's own FiberMap runs once the tab's scope has begun to
\* close (the "ghost" detection fibers of an earlier version).
NoGhostFibers ==
    /\ TypeOK
    /\ \A f \in fibers : f.map \in Tabs => scope[f.map] = "Open"

\* A teardown that has begun ends, whatever the tabs and handlers are doing.
DestroyEnds == destroyer.at # "idle" ~> destroyer.at = "disposed"

-----------------------------------------------------------------------------
(* What a comment claims and the code does not keep.                        *)

\* Activation "provisions heavy resources for a tab on first real
\* navigation": an activated tab that is open has its page WebSocket once no
\* activation is under way.
ActivatedMeansProvisioned ==
    \A t \in Targets :
        TabOpen(t) /\ Tab(t) \in activated
        /\ (\A f \in fibers : f.of = Tab(t) => f.at # "provisioning") =>
            Tab(t) \in provisioned

=============================================================================

------------------------ MODULE TabLifecycle_proofs ------------------------
(***************************************************************************)
(* The safety properties of the tabs of a session, for any number of       *)
(* targets, attachments and events, and the teardown at any moment.        *)
(***************************************************************************)
EXTENDS TabLifecycle, TLAPS

-----------------------------------------------------------------------------
(* The inductive invariant.                                                *)

\* A handler works for a target that has been attached, and beyond its first await for a
\* tab; one of a tab's own FiberMap runs only while the tab's scope is open.
FiberInv(f) ==
    /\ f.at \in {"enabling", "provisioning", "closing"} => f.of \in Tabs
    /\ attached[f.of[1]] > 0
    /\ f.map \in Tabs => scope[f.map] = "Open"

\* Every attachment has its scope and only they do; the TabState of a target is that of
\* its last attachment, until the teardown forgets the tabs.
AttachInv ==
    /\ \A t \in Targets, n \in Attachments :
        /\ scope[<<t, n>>] = "none" <=> n > attached[t]
        /\ <<t, n>> \in activated => n <= attached[t]
    /\ \A t \in Targets : tabs[t] \in {0, attached[t]}
    /\ destroyer.at \notin {"disposing", "disposed"} => \A t \in Targets : tabs[t] = attached[t]

\* A consumer that is done leaves nothing.  Of a target attached once: a queue is that of
\* its activated tab, whose consumer the finalizers find to wait for; past them the
\* consumer is done, unless they gave up; and who is announced is closed.
DrainInv(t) ==
    /\ consumer[t] = "done" => t \notin queue /\ pending[t] = 0
    /\ attached[t] = 0 => t \notin queue /\ announced[t] = 0
    /\ attached[t] = 1 =>
        /\ t \in queue => <<t, 1>> \in activated
        /\ scope[<<t, 1>>] \in {"Open", "cf", "drain", "draining"} /\ <<t, 1>> \in activated
             => t \in deferred
        /\ scope[<<t, 1>>] = "draining" => <<t, 1>> \in activated
        /\ scope[<<t, 1>>] \in {"callback", "Closed"} /\ t \notin undrained
             => <<t, 1>> \in activated /\ consumer[t] = "done"
        /\ announced[t] > 0 => scope[<<t, 1>>] = "Closed"

\* As long as the tabs are known, one that is not closed is in the registry, where its last
\* finalizer looks for it, and one that is closed and was drained has been announced.
TellInv(t) ==
    attached[t] = 1 /\ destroyer.at \notin {"disposing", "disposed"} =>
        /\ scope[<<t, 1>>] # "Closed" => t \in registered
        /\ scope[<<t, 1>>] = "Closed" /\ t \notin undrained => announced[t] = 1

Inv ==
    /\ TypeOK
    /\ \A f \in fibers : FiberInv(f)
    /\ AttachInv
    /\ \A t \in Targets : DrainInv(t) /\ TellInv(t)

LEMMA InvInit == Init => Inv
  <1> SUFFICES ASSUME Init PROVE Inv
    OBVIOUS
  <1> USE TabLifecycleAssumption DEF TabLifecycleAssumption
  <1>1. TypeOK BY DEF Init, TypeOK, Idle, Session, Tabs, Attachments
  <1>2. AttachInv BY DEF Init, AttachInv, Tabs, Attachments, Idle
  <1>3. ASSUME NEW t \in Targets PROVE DrainInv(t) /\ TellInv(t)
    <2>1. attached[t] = 0 /\ consumer[t] = "none" /\ t \notin queue /\ announced[t] = 0
      BY DEF Init
    <2> QED BY <2>1 DEF DrainInv, TellInv
  <1> QED BY <1>1, <1>2, <1>3 DEF Init, Inv

-----------------------------------------------------------------------------
(* Steps that leave the tabs alone: those of the teardown, of most         *)
(* handlers and of the consumer.                                           *)

Forgotten == destroyer.at \in {"disposing", "disposed"}

\* What such a step must show.
LEMMA TabsStay ==
  ASSUME Inv, TypeOK',
         UNCHANGED <<attached, registered, tabs, scope, activated, queue, deferred, consumer,
                     announced, undrained>>,
         Forgotten => Forgotten',
         \A t \in Targets : consumer[t] = "done" => pending'[t] = pending[t],
         \A f \in fibers' : FiberInv(f)'
  PROVE  Inv'
  <1>1. AttachInv' BY DEF Inv, AttachInv, Forgotten
  <1>2. ASSUME NEW t \in Targets PROVE DrainInv(t)' /\ TellInv(t)'
    <2>1. DrainInv(t) /\ TellInv(t) BY DEF Inv
    <2>2. DrainInv(t)' BY <2>1 DEF DrainInv
    <2>3. TellInv(t)' BY <2>1 DEF TellInv, Forgotten
    <2> QED BY <2>2, <2>3
  <1> QED BY <1>1, <1>2 DEF Inv

\* A handler that goes on still works for its target, in its own map.
LEMMA FiberMoves ==
  ASSUME Inv, NEW f \in fibers, NEW step \in Steps,
         step \in {"enabling", "provisioning", "closing"} => f.of \in Tabs
  PROVE  /\ [f EXCEPT !.at = step] \in Fibers
         /\ FiberInv([f EXCEPT !.at = step])
  <1>1. f \in Fibers /\ FiberInv(f) BY DEF Inv, TypeOK
  <1>2. [f EXCEPT !.at = step] \in Fibers BY <1>1 DEF Fibers
  <1>3. /\ [f EXCEPT !.at = step].at = step /\ [f EXCEPT !.at = step].of = f.of
        /\ [f EXCEPT !.at = step].map = f.map
    BY <1>1 DEF Fibers
  <1> QED BY <1>1, <1>2, <1>3 DEF FiberInv

\* The invariant of a handler that a step does not touch.
LEMMA FiberStays ==
  ASSUME NEW f, FiberInv(f), UNCHANGED <<attached, scope>>
  PROVE  FiberInv(f)'
  BY DEF FiberInv

LEMMA InitializeStep == ASSUME Inv, Initialize PROVE Inv'
  <1> USE DEF Initialize, chromeVars, tabVars, replayVars
  <1>1. TypeOK' BY DEF Inv, TypeOK
  <1>2. \A f \in fibers' : FiberInv(f)' BY FiberStays DEF Inv
  <1> QED BY <1>1, <1>2, TabsStay DEF Forgotten

LEMMA TargetDestroyedStep == ASSUME Inv, NEW t \in Targets, TargetDestroyed(t) PROVE Inv'
  <1> USE DEF TargetDestroyed, tabVars, replayVars
  <1> DEFINE h == Fiber(Session, <<"destroyed", t>>, Tab(t), "finalizing")
  <1>1. tabs[t] \in 0..MaxAttach /\ attached[t] > 0 BY DEF Inv, TypeOK
  <1>2. Tab(t) \in Tabs \cup (Targets \X {0})
    BY <1>1, TabLifecycleAssumption DEF Tab, Tabs, Attachments, TabLifecycleAssumption
  <1>3. Session \notin Tabs
    BY TabLifecycleAssumption DEF Session, Tabs, Attachments, TabLifecycleAssumption
  <1>4. h \in Fibers BY <1>2 DEF Fiber, Fibers, Events, Steps
  <1>5. FiberInv(h)
    <2>1. h.of[1] = t /\ h.map = Session /\ h.at = "finalizing" BY DEF Fiber, Tab
    <2> QED BY <1>1, <1>3, <2>1 DEF FiberInv
  <1> HIDE DEF h
  <1>6. fibers' = fibers \cup {h} BY DEF h
  <1>7. TypeOK' BY <1>4, <1>6 DEF Inv, TypeOK
  <1>8. \A f \in fibers' : FiberInv(f)' BY <1>5, <1>6, FiberStays DEF Inv
  <1> QED BY <1>7, <1>8, TabsStay DEF Forgotten

LEMMA ProvisionedStep == ASSUME Inv, NEW f \in fibers, Provisioned(f) PROVE Inv'
  <1> USE DEF Provisioned, chromeVars, tabVars, replayVars
  <1>1. f.of \in Tabs BY DEF Inv, FiberInv
  <1>2. \A g \in fibers' : g \in Fibers /\ FiberInv(g)
    BY FiberMoves DEF Moved, Inv, TypeOK, Steps
  <1>3. TypeOK' BY <1>1, <1>2 DEF Inv, TypeOK
  <1>4. \A g \in fibers' : FiberInv(g)' BY <1>2, FiberStays
  <1> QED BY <1>3, <1>4, TabsStay DEF Forgotten

LEMMA HandlerEnds == ASSUME Inv, NEW f \in fibers, Detected(f) \/ HandlerClosed(f) PROVE Inv'
  <1> USE DEF Detected, HandlerClosed, chromeVars, tabVars, replayVars
  <1>1. TypeOK' BY DEF Inv, TypeOK
  <1>2. \A g \in fibers' : FiberInv(g)' BY FiberStays DEF Inv
  <1> QED BY <1>1, <1>2, TabsStay DEF Forgotten

LEMMA OfferEventsStep == ASSUME Inv, NEW t \in Targets, OfferEvents(t) PROVE Inv'
  <1> USE DEF OfferEvents, chromeVars, tabVars
  <1>1. t \in queue /\ DrainInv(t) BY DEF Inv
  <1>2. TypeOK' BY TabLifecycleAssumption DEF Inv, TypeOK, TabLifecycleAssumption
  <1>3. \A f \in fibers' : FiberInv(f)' BY FiberStays DEF Inv
  <1>4. \A u \in Targets : consumer[u] = "done" => pending'[u] = pending[u]
    BY <1>1 DEF DrainInv, Inv, TypeOK
  <1> QED BY <1>2, <1>3, <1>4, TabsStay DEF Forgotten

LEMMA FlushStep == ASSUME Inv, NEW t \in Targets, Flush(t) PROVE Inv'
  <1> USE DEF Flush, chromeVars, tabVars
  <1>1. PICK n \in 0..(pending[t] - 1) : pending' = [pending EXCEPT ![t] = n] OBVIOUS
  <1>2. pending[t] \in 0..MaxEvents /\ MaxEvents \in Nat
    BY TabLifecycleAssumption DEF Inv, TypeOK, TabLifecycleAssumption
  <1>3. n \in 0..MaxEvents BY <1>1, <1>2
  <1>4. TypeOK' BY <1>1, <1>3 DEF Inv, TypeOK
  <1>5. \A f \in fibers' : FiberInv(f)' BY FiberStays DEF Inv
  <1>6. \A u \in Targets : consumer[u] = "done" => pending'[u] = pending[u]
    BY <1>1 DEF Inv, TypeOK
  <1> QED BY <1>4, <1>5, <1>6, TabsStay DEF Forgotten

\* destroy(), whoever calls it.
LEMMA DestroyWithFacts ==
  ASSUME Inv, NEW source \in {"cleanup", "ws_close", "error"}, DestroyWith(source)
  PROVE  /\ sess' \in {"DRAINING", "DESTROYED"} /\ ~Forgotten
         /\ destroyer' \in
              [at : {"idle", "finalizing", "closing", "solver", "disposing", "disposed"},
               source : {"none", "cleanup", "ws_close", "error"},
               todo : SUBSET Targets, seen : SUBSET Targets,
               busy : Tabs \cup (Targets \X {0}) \cup {Session}]
  <1>1. /\ destroyer.at = "idle" /\ registered \in SUBSET Targets
        /\ destroyer \in
              [at : {"idle", "finalizing", "closing", "solver", "disposing", "disposed"},
               source : {"none", "cleanup", "ws_close", "error"},
               todo : SUBSET Targets, seen : SUBSET Targets,
               busy : Tabs \cup (Targets \X {0}) \cup {Session}]
    BY DEF DestroyWith, Inv, TypeOK
  <1>2. CASE sess = "INITIALIZING" BY <1>1, <1>2 DEF DestroyWith, Forgotten
  <1>3. CASE sess # "INITIALIZING" BY <1>1, <1>3 DEF DestroyWith, Forgotten
  <1> QED BY <1>2, <1>3

LEMMA DestroyStep == ASSUME Inv, Destroy \/ WsClosed PROVE Inv'
  <1> USE DEF chromeVars, tabVars, replayVars
  <1>1. /\ sess' \in {"INITIALIZING", "ACTIVE", "DRAINING", "DESTROYED"}
        /\ destroyer' \in
              [at : {"idle", "finalizing", "closing", "solver", "disposing", "disposed"},
               source : {"none", "cleanup", "ws_close", "error"},
               todo : SUBSET Targets, seen : SUBSET Targets,
               busy : Tabs \cup (Targets \X {0}) \cup {Session}]
        /\ Forgotten => Forgotten'
    <2>1. CASE UNCHANGED <<sess, destroyer>> BY <2>1 DEF Inv, TypeOK, Forgotten
    <2>2. CASE \E source \in {"cleanup", "ws_close", "error"} : DestroyWith(source)
      BY <2>2, DestroyWithFacts
    <2> QED BY <2>1, <2>2 DEF Destroy, WsClosed
  <1>2. /\ wsOpen' \in BOOLEAN
        /\ UNCHANGED <<chromeVars, registered, finalized, tabVars, provisioned, fibers,
                       replayVars, announced, undrained>>
    BY DEF Destroy, WsClosed, Inv, TypeOK
  <1>3. TypeOK' BY <1>1, <1>2 DEF Inv, TypeOK
  <1>4. \A f \in fibers' : FiberInv(f)' BY <1>2, FiberStays DEF Inv
  <1> QED BY <1>1, <1>2, <1>3, <1>4, TabsStay

LEMMA FinalizeStep ==
  ASSUME Inv, (\E t \in Targets : FinalizeNext(t)) \/ FinalizeOver PROVE Inv'
  <1> USE DEF FinalizeNext, FinalizeOver, chromeVars, tabVars, replayVars
  <1>1. TypeOK' BY DEF Inv, TypeOK
  <1>2. \A f \in fibers' : FiberInv(f)' BY FiberStays DEF Inv
  <1> QED BY <1>1, <1>2, TabsStay DEF Forgotten

LEMMA FinalizeEndStep == ASSUME Inv, NEW t \in Targets, FinalizeEnd(t) PROVE Inv'
  <1> USE DEF FinalizeEnd, chromeVars, tabVars
  <1>1. PICK n \in IF page[t] # "gone" /\ wsOpen /\ t \in queue
                   THEN pending[t]..MaxEvents ELSE {pending[t]} :
              pending' = [pending EXCEPT ![t] = n]
    OBVIOUS
  <1>2. pending[t] \in 0..MaxEvents /\ MaxEvents \in Nat
    BY TabLifecycleAssumption DEF Inv, TypeOK, TabLifecycleAssumption
  <1>3. n \in 0..MaxEvents BY <1>1, <1>2
  <1>4. TypeOK' BY <1>1, <1>3 DEF Inv, TypeOK
  <1>5. \A f \in fibers' : FiberInv(f)' BY FiberStays DEF Inv
  <1>6. \A u \in Targets : consumer[u] = "done" => pending'[u] = pending[u]
    <2>1. \A u \in Targets : DrainInv(u) BY DEF Inv
    <2> QED BY <1>1, <2>1 DEF DrainInv, Inv, TypeOK
  <1> QED BY <1>4, <1>5, <1>6, TabsStay DEF Forgotten

LEMMA CloseEndStep == ASSUME Inv, CloseEnd \/ CloseOver PROVE Inv'
  <1> USE DEF CloseEnd, CloseOver, chromeVars, tabVars, replayVars
  <1>1. TypeOK' BY DEF Inv, TypeOK
  <1>2. \A f \in fibers' : FiberInv(f)' BY FiberStays DEF Inv
  <1> QED BY <1>1, <1>2, TabsStay DEF Forgotten

LEMMA ClearTabsStep == ASSUME Inv, ClearTabs PROVE Inv'
  <1> USE DEF ClearTabs, chromeVars, replayVars
  <1>1. TypeOK' BY TabLifecycleAssumption DEF Inv, TypeOK, TabLifecycleAssumption
  <1>2. \A f \in fibers' : FiberInv(f)' BY FiberStays DEF Inv
  <1>3. AttachInv' BY DEF Inv, AttachInv, TypeOK
  <1>4. ASSUME NEW t \in Targets PROVE DrainInv(t)' /\ TellInv(t)'
    <2>1. DrainInv(t) BY DEF Inv
    <2>2. destroyer'.at = "disposing" BY DEF Inv, TypeOK
    <2> QED BY <2>1, <2>2 DEF DrainInv, TellInv
  <1> QED BY <1>1, <1>2, <1>3, <1>4 DEF Inv

LEMMA DisposeStep == ASSUME Inv, Dispose PROVE Inv'
  <1> USE DEF Dispose, chromeVars, tabVars
  <1>1. TypeOK' BY DEF Inv, TypeOK
  <1>2. \A f \in fibers' : FiberInv(f)' BY FiberStays DEF Inv
  <1>3. AttachInv'
    <2>1. destroyer'.at = "disposed" BY DEF Inv, TypeOK
    <2> QED BY <2>1 DEF Inv, AttachInv
  <1>4. ASSUME NEW t \in Targets PROVE DrainInv(t)' /\ TellInv(t)'
    <2>1. DrainInv(t) BY DEF Inv
    <2>2. destroyer'.at = "disposed" BY DEF Inv, TypeOK
    <2>3. consumer'[t] = "done" <=> consumer[t] = "done" OBVIOUS
    <2> QED BY <2>1, <2>2, <2>3 DEF DrainInv, TellInv
  <1> QED BY <1>1, <1>2, <1>3, <1>4 DEF Inv

LEMMA ConsumerDoneStep == ASSUME Inv, NEW t \in Targets, ConsumerDone(t) PROVE Inv'
  <1> USE DEF ConsumerDone, chromeVars, tabVars
  <1>1. TypeOK' BY DEF Inv, TypeOK
  <1>2. \A f \in fibers' : FiberInv(f)' BY FiberStays DEF Inv
  <1>3. AttachInv' BY DEF Inv, AttachInv
  <1>4. ASSUME NEW u \in Targets PROVE DrainInv(u)' /\ TellInv(u)'
    <2>1. DrainInv(u) /\ TellInv(u) BY DEF Inv
    <2>2. consumer'[u] = IF u = t THEN "done" ELSE consumer[u] BY DEF Inv, TypeOK
    <2> QED BY <2>1, <2>2 DEF DrainInv, TellInv
  <1> QED BY <1>1, <1>2, <1>3, <1>4 DEF Inv

-----------------------------------------------------------------------------
(* The finalizers, and what begins them.                                   *)

\* A scope that moves on: attachments keep theirs, and no fiber of another map is concerned.
LEMMA ScopeMoves ==
  ASSUME Inv, NEW tab \in Tabs, NEW s, s # "none", scope[tab] # "none",
         scope' = [scope EXCEPT ![tab] = s],
         UNCHANGED <<attached, tabs, activated>>, Forgotten => Forgotten'
  PROVE  /\ AttachInv'
         /\ \A f : FiberInv(f) /\ f.map # tab => FiberInv(f)'
         /\ \A n \in Tabs \ {tab} : scope'[n] = scope[n]
         /\ scope'[tab] = s
  <1>1. /\ \A n \in Tabs \ {tab} : scope'[n] = scope[n]
        /\ scope'[tab] = s
    BY DEF Inv, TypeOK
  <1>2. \A n \in Tabs : scope'[n] = "none" <=> scope[n] = "none" BY <1>1
  <1>3. AttachInv'
    <2>1. \A t \in Targets, n \in Attachments : <<t, n>> \in Tabs BY DEF Tabs
    <2> QED BY <1>2, <2>1 DEF Inv, AttachInv, Forgotten
  <1>4. \A f : FiberInv(f) /\ f.map # tab => FiberInv(f)' BY <1>1 DEF FiberInv
  <1> QED BY <1>1, <1>3, <1>4

\* A finalizer works on a scope that is closing, so no fiber of the tab's map is left.
LEMMA FinalizerMoves ==
  ASSUME Inv, NEW tab \in Tabs, scope[tab] \in {"cf", "drain", "draining", "callback"},
         NEW s, s # "none", scope' = [scope EXCEPT ![tab] = s],
         UNCHANGED <<destroyer, attached, tabs, activated, fibers>>
  PROVE  /\ AttachInv'
         /\ \A f \in fibers' : FiberInv(f)'
         /\ \A n \in Tabs \ {tab} : scope'[n] = scope[n]
         /\ scope'[tab] = s
  <1>1. \A f \in fibers : FiberInv(f) /\ f.map # tab BY DEF Inv, FiberInv
  <1> QED BY <1>1, ScopeMoves DEF Forgotten

\* The tab that the invariant of a target is about, and the number of an attachment.
LEMMA FirstTab ==
  ASSUME NEW t \in Targets
  PROVE  <<t, 1>> \in Tabs
  BY TabLifecycleAssumption DEF TabLifecycleAssumption, Tabs, Attachments

LEMMA CfCleanedStep == ASSUME Inv, NEW tab \in Tabs, CfCleaned(tab) PROVE Inv'
  <1> USE DEF CfCleaned, chromeVars, replayVars
  <1>1. TypeOK' BY DEF Inv, TypeOK
  <1>2. /\ AttachInv' /\ \A f \in fibers' : FiberInv(f)'
        /\ \A n \in Tabs \ {tab} : scope'[n] = scope[n]
        /\ scope[tab] = "cf" /\ scope'[tab] = "drain"
    BY FinalizerMoves
  <1>3. ASSUME NEW t \in Targets PROVE DrainInv(t)' /\ TellInv(t)'
    <2>1. DrainInv(t) /\ TellInv(t) BY DEF Inv
    <2>2. <<t, 1>> \in Tabs BY FirstTab
    <2>3. \/ scope'[<<t, 1>>] = scope[<<t, 1>>]
          \/ scope[<<t, 1>>] = "cf" /\ scope'[<<t, 1>>] = "drain"
      BY <1>2, <2>2
    <2> QED BY <2>1, <2>3 DEF DrainInv, TellInv
  <1> QED BY <1>1, <1>2, <1>3 DEF Inv

LEMMA DrainQueueStep == ASSUME Inv, NEW tab \in Tabs, DrainQueue(tab) PROVE Inv'
  <1> USE DEF DrainQueue, chromeVars
  <1> DEFINE u == tab[1]
             s == IF ActiveNow(u) /\ u \in deferred THEN "draining" ELSE "callback"
  <1>1. u \in Targets /\ tab = <<u, tab[2]>> /\ tab[2] \in Attachments BY DEF Tabs
  <1>2. TypeOK' BY <1>1 DEF Inv, TypeOK
  <1>3. scope[tab] = "drain" /\ scope' = [scope EXCEPT ![tab] = s] OBVIOUS
  <1>4. /\ AttachInv' /\ \A f \in fibers' : FiberInv(f)'
        /\ \A n \in Tabs \ {tab} : scope'[n] = scope[n]
        /\ scope'[tab] = s
    BY <1>3, FinalizerMoves
  <1>5. ASSUME NEW t \in Targets PROVE DrainInv(t)' /\ TellInv(t)'
    <2>1. DrainInv(t) /\ TellInv(t) BY DEF Inv
    <2>2. <<t, 1>> \in Tabs BY FirstTab
    <2>3. queue' \subseteq queue /\ undrained \subseteq undrained' BY DEF ActiveNow
    <2>4. CASE tab # <<t, 1>>
      <3>1. scope'[<<t, 1>>] = scope[<<t, 1>>] BY <1>4, <2>2, <2>4
      <3> QED BY <2>1, <2>3, <3>1 DEF DrainInv, TellInv
    <2>5. CASE tab = <<t, 1>>
      <3>1. u = t /\ scope[<<t, 1>>] = "drain" /\ scope'[<<t, 1>>] = s BY <1>3, <1>4, <2>5
      <3>2. CASE ActiveNow(t) /\ attached[t] = 1
        <4>1. <<t, 1>> \in activated
          BY <3>2 DEF ActiveNow, Tab, Inv, AttachInv
        <4>2. t \in deferred BY <2>1, <3>1, <3>2, <4>1 DEF DrainInv
        <4>3. s = "draining" BY <3>1, <3>2, <4>2
        <4> QED BY <2>1, <2>3, <3>1, <4>1, <4>2, <4>3 DEF DrainInv, TellInv
      <3>3. CASE ~ActiveNow(t)
        <4>1. t \in undrained' /\ s = "callback" BY <3>1, <3>3
        <4> QED BY <2>1, <2>3, <3>1, <4>1 DEF DrainInv, TellInv
      <3>4. CASE attached[t] # 1
        BY <2>1, <2>3, <3>4 DEF DrainInv, TellInv
      <3> QED BY <3>2, <3>3, <3>4
    <2> QED BY <2>4, <2>5
  <1> QED BY <1>2, <1>4, <1>5 DEF Inv

LEMMA DrainedStep == ASSUME Inv, NEW tab \in Tabs, Drained(tab) PROVE Inv'
  <1> USE DEF Drained, chromeVars
  <1> DEFINE u == tab[1]
  <1>1. u \in Targets /\ tab = <<u, tab[2]>> /\ tab[2] \in Attachments BY DEF Tabs
  <1>2. TypeOK' BY <1>1 DEF Inv, TypeOK
  <1>3. /\ AttachInv' /\ \A f \in fibers' : FiberInv(f)'
        /\ \A n \in Tabs \ {tab} : scope'[n] = scope[n]
        /\ scope[tab] = "draining" /\ scope'[tab] = "callback"
    BY FinalizerMoves
  <1>4. ASSUME NEW t \in Targets PROVE DrainInv(t)' /\ TellInv(t)'
    <2>1. DrainInv(t) /\ TellInv(t) BY DEF Inv
    <2>2. <<t, 1>> \in Tabs BY FirstTab
    <2>3. undrained \subseteq undrained' OBVIOUS
    <2>4. CASE tab # <<t, 1>>
      <3>1. scope'[<<t, 1>>] = scope[<<t, 1>>] BY <1>3, <2>2, <2>4
      <3>2. attached[t] = 1 /\ u = t => FALSE
        <4> SUFFICES ASSUME attached[t] = 1, u = t PROVE FALSE
          OBVIOUS
        <4>1. tab[2] > 1 BY <1>1, <2>4 DEF Attachments
        <4>2. scope[tab] = "none" BY <1>1, <4>1 DEF Inv, AttachInv
        <4> QED BY <1>3, <4>2
      <3> QED BY <2>1, <2>3, <3>1, <3>2 DEF DrainInv, TellInv
    <2>5. CASE tab = <<t, 1>>
      BY <1>3, <2>1, <2>3, <2>5 DEF DrainInv, TellInv
    <2> QED BY <2>4, <2>5
  <1> QED BY <1>2, <1>3, <1>4 DEF Inv

LEMMA TabCallbackStep == ASSUME Inv, NEW tab \in Tabs, TabCallback(tab) PROVE Inv'
  <1> USE DEF TabCallback, chromeVars, replayVars
  <1> DEFINE u == tab[1]
  <1>1. u \in Targets /\ tab = <<u, tab[2]>> /\ tab[2] \in Attachments BY DEF Tabs
  <1>2. TypeOK' BY <1>1 DEF Inv, TypeOK
  <1>3. /\ AttachInv' /\ \A f \in fibers' : FiberInv(f)'
        /\ \A n \in Tabs \ {tab} : scope'[n] = scope[n]
        /\ scope[tab] = "callback" /\ scope'[tab] = "Closed"
    BY FinalizerMoves
  <1>4. /\ announced' = [announced EXCEPT ![u] =
                           IF ActiveNow(u) /\ u \in registered THEN announced[u] + 1 ELSE announced[u]]
        /\ registered' = registered \ {u}
    BY DEF Inv, TypeOK
  <1>5. ASSUME NEW t \in Targets PROVE DrainInv(t)' /\ TellInv(t)'
    <2>1. DrainInv(t) /\ TellInv(t) BY DEF Inv
    <2>2. <<t, 1>> \in Tabs BY FirstTab
    <2>3. tab[2] <= attached[u] BY <1>1, <1>3 DEF Inv, AttachInv, TypeOK, Attachments
    <2>4. CASE u # t
      <3>1. scope'[<<t, 1>>] = scope[<<t, 1>>] BY <1>1, <1>3, <2>2, <2>4
      <3>2. announced'[t] = announced[t] /\ (t \in registered' <=> t \in registered)
        BY <1>4, <2>4 DEF Inv, TypeOK
      <3> QED BY <2>1, <3>1, <3>2 DEF DrainInv, TellInv
    <2>5. CASE u = t /\ attached[t] # 1
      <3>1. attached[t] # 0 BY <1>1, <2>3, <2>5 DEF Attachments, Inv, TypeOK
      <3> QED BY <2>1, <2>5, <3>1 DEF DrainInv, TellInv
    <2>6. CASE u = t /\ attached[t] = 1
      <3>1. tab = <<t, 1>> BY <1>1, <2>3, <2>6 DEF Attachments
      <3>2. announced[t] = 0 BY <1>3, <2>1, <2>6, <3>1 DEF DrainInv, Inv, TypeOK
      <3>3. DrainInv(t)' BY <1>3, <2>1, <2>6, <3>1 DEF DrainInv
      <3>4. ~Forgotten /\ t \notin undrained => announced'[t] = 1
        <4> SUFFICES ASSUME ~Forgotten, t \notin undrained PROVE announced'[t] = 1
          OBVIOUS
        <4>1. tabs[t] = 1 /\ <<t, 1>> \in activated
          BY <1>3, <2>1, <2>6, <3>1 DEF DrainInv, Inv, AttachInv, Forgotten
        <4>2. t \in registered BY <1>3, <2>1, <2>6, <3>1 DEF TellInv, Forgotten
        <4>3. ActiveNow(t) BY <4>1 DEF ActiveNow, Tab
        <4> QED BY <1>4, <2>6, <3>2, <4>2, <4>3 DEF Inv, TypeOK
      <3> QED BY <1>3, <3>1, <3>3, <3>4 DEF TellInv, Forgotten
    <2> QED BY <2>4, <2>5, <2>6
  <1> QED BY <1>2, <1>3, <1>5 DEF Inv

\* A scope that is open belongs to an attachment.
LEMMA OpenTab ==
  ASSUME Inv, NEW t \in Targets, tabs[t] # 0
  PROVE  Tab(t) \in Tabs /\ tabs[t] = attached[t] /\ Tab(t) = <<t, attached[t]>>
  BY TabLifecycleAssumption DEF Inv, TypeOK, AttachInv, Tab, Tabs, Attachments, TabLifecycleAssumption

\* Closing an open scope, whoever does it.
LEMMA ScopeClosingFacts ==
  ASSUME Inv, NEW t \in Targets, TabOpen(t), NEW others, ScopeClosing(Tab(t), others),
         \A f \in others : FiberInv(f),
         UNCHANGED <<attached, tabs, activated, registered, queue, deferred, consumer,
                     pending, announced, undrained>>,
         Forgotten => Forgotten'
  PROVE  /\ AttachInv'
         /\ \A f \in fibers' : f \in others /\ FiberInv(f)'
         /\ scope' \in [Tabs -> {"none", "Open", "cf", "drain", "draining", "callback", "Closed"}]
         /\ \A u \in Targets : DrainInv(u)' /\ TellInv(u)'
  <1>1. Tab(t) \in Tabs /\ scope[Tab(t)] = "Open" BY OpenTab DEF TabOpen
  <1>2. scope' = [scope EXCEPT ![Tab(t)] = "cf"] BY DEF ScopeClosing
  <1>3. /\ AttachInv'
        /\ \A f : FiberInv(f) /\ f.map # Tab(t) => FiberInv(f)'
        /\ \A n \in Tabs \ {Tab(t)} : scope'[n] = scope[n]
        /\ scope'[Tab(t)] = "cf"
    BY <1>1, <1>2, ScopeMoves
  <1>4. \A f \in fibers' : f \in others /\ FiberInv(f)' BY <1>3 DEF ScopeClosing
  <1>5. scope' \in [Tabs -> {"none", "Open", "cf", "drain", "draining", "callback", "Closed"}]
    BY <1>2 DEF Inv, TypeOK
  <1>6. ASSUME NEW u \in Targets PROVE DrainInv(u)' /\ TellInv(u)'
    <2>1. DrainInv(u) /\ TellInv(u) BY DEF Inv
    <2>2. <<u, 1>> \in Tabs BY FirstTab
    <2>3. \/ scope'[<<u, 1>>] = scope[<<u, 1>>]
          \/ scope[<<u, 1>>] = "Open" /\ scope'[<<u, 1>>] = "cf"
      BY <1>1, <1>3, <2>2
    <2>4. DrainInv(u)' BY <2>1, <2>3 DEF DrainInv
    <2>5. TellInv(u)' BY <2>1, <2>3 DEF TellInv, Forgotten
    <2> QED BY <2>4, <2>5
  <1> QED BY <1>3, <1>4, <1>5, <1>6

LEMMA CloseNextStep == ASSUME Inv, NEW t \in Targets, CloseNext(t) PROVE Inv'
  <1> USE DEF CloseNext, chromeVars, replayVars
  <1>1. CASE TabOpen(t)
    <2>1. Tab(t) \in Tabs BY <1>1, OpenTab DEF TabOpen
    <2>2. Forgotten => Forgotten' BY DEF Forgotten
    <2>3. \A f \in fibers : FiberInv(f) BY DEF Inv
    <2>4. /\ AttachInv'
          /\ \A f \in fibers' : f \in fibers /\ FiberInv(f)'
          /\ scope' \in [Tabs -> {"none", "Open", "cf", "drain", "draining", "callback", "Closed"}]
          /\ \A u \in Targets : DrainInv(u)' /\ TellInv(u)'
      BY <1>1, <2>2, <2>3, ScopeClosingFacts
    <2>5. destroyer' \in
            [at : {"idle", "finalizing", "closing", "solver", "disposing", "disposed"},
             source : {"none", "cleanup", "ws_close", "error"},
             todo : SUBSET Targets, seen : SUBSET Targets,
             busy : Tabs \cup (Targets \X {0}) \cup {Session}]
      <3>1. destroyer \in
              [at : {"idle", "finalizing", "closing", "solver", "disposing", "disposed"},
               source : {"none", "cleanup", "ws_close", "error"},
               todo : SUBSET Targets, seen : SUBSET Targets,
               busy : Tabs \cup (Targets \X {0}) \cup {Session}]
        BY DEF Inv, TypeOK
      <3>2. destroyer' = [destroyer EXCEPT !.busy = Tab(t), !.seen = @ \cup {t}] BY <1>1
      <3>3. destroyer.seen \cup {t} \in SUBSET Targets BY <3>1
      <3> QED BY <2>1, <3>1, <3>2, <3>3
    <2>6. fibers' \subseteq Fibers BY <2>4 DEF Inv, TypeOK
    <2>7. TypeOK' BY <2>4, <2>5, <2>6 DEF Inv, TypeOK
    <2> QED BY <2>4, <2>7 DEF Inv
  <1>2. CASE ~TabOpen(t)
    <2>1. TypeOK' BY <1>2 DEF Inv, TypeOK
    <2>2. \A f \in fibers' : FiberInv(f)' BY <1>2, FiberStays DEF Inv
    <2> QED BY <1>2, <2>1, <2>2, TabsStay DEF Forgotten
  <1> QED BY <1>1, <1>2

LEMMA HandlerFinalizedStep == ASSUME Inv, NEW f \in fibers, HandlerFinalized(f) PROVE Inv'
  <1> USE DEF HandlerFinalized, chromeVars, replayVars
  <1> DEFINE t == f.of[1]
  <1>1. f \in Fibers /\ FiberInv(f) BY DEF Inv, TypeOK
  <1>2. t \in Targets /\ attached[t] > 0 BY <1>1 DEF Fibers, Tabs, FiberInv
  <1>3. CASE TabOpen(t)
    <2> DEFINE g == [f EXCEPT !.at = "closing", !.of = Tab(t)]
               others == (fibers \ {f}) \cup {g}
    <2>1. Tab(t) \in Tabs /\ Tab(t)[1] = t BY <1>2, <1>3, OpenTab DEF TabOpen, Tab
    <2>2. g \in Fibers BY <1>1, <2>1 DEF Fibers, Steps
    <2>3. g.map = f.map /\ g.at = "closing" /\ g.of = Tab(t) BY <1>1 DEF Fibers
    <2>4. FiberInv(g) BY <1>1, <1>2, <2>1, <2>3 DEF FiberInv
    <2> HIDE DEF g
    <2>5. \A h \in others : h \in Fibers /\ FiberInv(h) BY <2>2, <2>4 DEF Inv, TypeOK
    <2>6. ScopeClosing(Tab(t), others) BY <1>3 DEF g
    <2>7. finalized' = finalized \cup ({t} \cap registered) BY <1>3
    <2> HIDE DEF others
    <2>8. /\ AttachInv'
          /\ \A h \in fibers' : h \in others /\ FiberInv(h)'
          /\ scope' \in [Tabs -> {"none", "Open", "cf", "drain", "draining", "callback", "Closed"}]
          /\ \A u \in Targets : DrainInv(u)' /\ TellInv(u)'
      BY <1>2, <1>3, <2>5, <2>6, ScopeClosingFacts DEF Forgotten
    <2>9. TypeOK' BY <1>3, <2>5, <2>7, <2>8 DEF Inv, TypeOK
    <2> QED BY <2>8, <2>9 DEF Inv
  <1>4. CASE ~TabOpen(t)
    <2>1. TypeOK' BY <1>4 DEF Inv, TypeOK
    <2>2. \A h \in fibers' : FiberInv(h)' BY <1>4, FiberStays DEF Inv
    <2>3. AttachInv' BY <1>4 DEF Inv, AttachInv
    <2>4. ~Forgotten => registered' = registered
      BY <1>2, <1>4 DEF Inv, AttachInv, Forgotten
    <2>5. ASSUME NEW u \in Targets PROVE DrainInv(u)' /\ TellInv(u)'
      <3>1. DrainInv(u) /\ TellInv(u) BY DEF Inv
      <3>2. DrainInv(u)' BY <1>4, <3>1 DEF DrainInv
      <3>3. TellInv(u)' BY <1>4, <2>4, <3>1 DEF TellInv, Forgotten
      <3> QED BY <3>2, <3>3
    <2> QED BY <2>1, <2>2, <2>3, <2>5 DEF Inv
  <1> QED BY <1>3, <1>4

-----------------------------------------------------------------------------
(* Attachments and activations.                                            *)

\* An activation, of an open tab or of one that has begun to close.
LEMMA ActivateFacts ==
  ASSUME Inv, NEW t \in Targets, NeedsActivation(t), Activate(t),
         UNCHANGED <<destroyer, attached, tabs, scope, registered, announced, undrained>>
  PROVE  /\ AttachInv'
         /\ activated' \subseteq Tabs /\ queue' \subseteq Targets /\ deferred' \subseteq Targets
         /\ consumer' \in [Targets -> {"none", "running", "done", "dead"}]
         /\ pending' \in [Targets -> 0..MaxEvents]
         /\ \A u \in Targets : DrainInv(u)' /\ TellInv(u)'
  <1> USE DEF Activate, NeedsActivation, replayVars
  <1>1. /\ Tab(t) \in Tabs /\ tabs[t] = attached[t] /\ Tab(t) = <<t, attached[t]>>
        /\ attached[t] # 0
    BY OpenTab
  <1>2. AttachInv' BY <1>1 DEF Inv, AttachInv, TypeOK
  <1>3. /\ activated' \subseteq Tabs /\ queue' \subseteq Targets /\ deferred' \subseteq Targets
        /\ consumer' \in [Targets -> {"none", "running", "done", "dead"}]
        /\ pending' \in [Targets -> 0..MaxEvents]
    BY <1>1, TabLifecycleAssumption DEF Inv, TypeOK, TabLifecycleAssumption
  <1>4. ASSUME NEW u \in Targets PROVE DrainInv(u)' /\ TellInv(u)'
    <2>1. DrainInv(u) /\ TellInv(u) BY DEF Inv
    <2>2. CASE u # t
      <3>1. /\ consumer'[u] = consumer[u] /\ pending'[u] = pending[u]
            /\ (u \in queue' <=> u \in queue) /\ (u \in deferred' <=> u \in deferred)
        BY <2>2 DEF Inv, TypeOK
      <3>2. <<u, 1>> \in activated' <=> <<u, 1>> \in activated BY <1>1, <2>2
      <3> QED BY <2>1, <3>1, <3>2 DEF DrainInv, TellInv
    <2>3. CASE u = t /\ t \in queue
      <3>1. attached[t] # 1 BY <1>1, <2>1, <2>3 DEF DrainInv
      <3> QED BY <1>1, <2>1, <2>3, <3>1 DEF DrainInv, TellInv
    <2>4. CASE u = t /\ t \notin queue
      <3>1. consumer'[t] = "running" /\ t \in deferred' BY <2>4 DEF Inv, TypeOK
      <3>2. attached[t] = 1 => /\ <<t, 1>> \notin activated /\ <<t, 1>> \in activated'
        BY <1>1
      <3> QED BY <1>1, <2>1, <2>4, <3>1, <3>2 DEF DrainInv, TellInv
    <2> QED BY <2>2, <2>3, <2>4
  <1> QED BY <1>2, <1>3, <1>4

LEMMA AttachEnabledStep == ASSUME Inv, NEW f \in fibers, AttachEnabled(f) PROVE Inv'
  <1> USE DEF AttachEnabled, chromeVars
  <1> DEFINE t == f.of[1]
  <1>1. f \in Fibers /\ FiberInv(f) BY DEF Inv, TypeOK
  <1>2. t \in Targets /\ f.of \in Tabs BY <1>1 DEF Fibers, Tabs, FiberInv
  <1>3. CASE NeedsActivation(t)
    <2>1. \A g \in fibers' : g \in Fibers /\ FiberInv(g)
      BY <1>2, <1>3, FiberMoves DEF Moved, Inv, TypeOK, Steps
    <2>2. \A g \in fibers' : FiberInv(g)' BY <2>1, FiberStays
    <2>3. Activate(t) BY <1>3
    <2>4. /\ AttachInv'
          /\ activated' \subseteq Tabs /\ queue' \subseteq Targets /\ deferred' \subseteq Targets
          /\ consumer' \in [Targets -> {"none", "running", "done", "dead"}]
          /\ pending' \in [Targets -> 0..MaxEvents]
          /\ \A u \in Targets : DrainInv(u)' /\ TellInv(u)'
      BY <1>2, <1>3, <2>3, ActivateFacts
    <2>5. TypeOK' BY <2>1, <2>4 DEF Inv, TypeOK
    <2> QED BY <2>2, <2>4, <2>5 DEF Inv
  <1>4. CASE ~NeedsActivation(t)
    <2>1. TypeOK' BY <1>4 DEF Inv, TypeOK, replayVars
    <2>2. \A g \in fibers' : FiberInv(g)' BY <1>4, FiberStays DEF Inv
    <2> QED BY <1>4, <2>1, <2>2, TabsStay DEF Forgotten, replayVars
  <1> QED BY <1>3, <1>4

\* The FiberMap an event is handled in.
LEMMA MapForFacts ==
  ASSUME Inv, NEW t \in Targets
  PROVE  /\ MapFor(t) \in Tabs \cup {Session}
         /\ MapFor(t) \in Tabs => scope[MapFor(t)] = "Open"
  <1>1. Session \notin Tabs
    BY TabLifecycleAssumption DEF Session, Tabs, Attachments, TabLifecycleAssumption
  <1> QED BY <1>1, OpenTab DEF MapFor, TabOpen

LEMMA TargetInfoChangedStep ==
  ASSUME Inv, NEW t \in Targets, TargetInfoChanged(t) PROVE Inv'
  <1> USE DEF TargetInfoChanged
  <1> DEFINE h(step) == Fiber(MapFor(t), <<"infoChanged", t>>, Tab(t), step)
  <1>1. attached[t] > 0 /\ tabs[t] \in 0..MaxAttach BY DEF Inv, TypeOK
  <1>2. Tab(t) \in Tabs \cup (Targets \X {0}) /\ Tab(t)[1] = t
    BY <1>1, TabLifecycleAssumption DEF Tab, Tabs, Attachments, TabLifecycleAssumption
  <1>3. ASSUME NEW step \in Steps, step = "detecting" \/ Tab(t) \in Tabs
        PROVE  step \in {"provisioning", "detecting"} =>
                 h(step) \in Fibers /\ FiberInv(h(step))
    <2>1. h(step) \in Fibers BY <1>2, MapForFacts DEF Fiber, Fibers, Events, Steps
    <2>2. h(step).of = Tab(t) /\ h(step).map = MapFor(t) /\ h(step).at = step BY DEF Fiber
    <2> QED BY <1>1, <1>2, <1>3, <2>1, <2>2, MapForFacts DEF FiberInv
  <1>4. \A f \in fibers : f \in Fibers /\ FiberInv(f) BY DEF Inv, TypeOK
  <1>5. page' \in [Targets -> {"absent", "blank", "real", "gone"}] BY DEF Inv, TypeOK
  <1>6. CASE NeedsActivation(t) /\ t \in registered
    <2>1. Tab(t) \in Tabs BY <1>6, OpenTab DEF NeedsActivation
    <2>2. fibers' = Without(MapFor(t), <<"infoChanged", t>>) \cup {h("provisioning")}
      BY <1>6
    <2>3. h("provisioning") \in Fibers /\ FiberInv(h("provisioning"))
      BY <1>3, <2>1 DEF Steps
    <2> HIDE DEF h
    <2>4. \A f \in fibers' : f \in Fibers /\ FiberInv(f) BY <1>4, <2>2, <2>3 DEF Without
    <2>5. \A f \in fibers' : FiberInv(f)' BY <2>4, FiberStays
    <2>6. Activate(t) /\ NeedsActivation(t) BY <1>6
    <2>7. /\ AttachInv'
          /\ activated' \subseteq Tabs /\ queue' \subseteq Targets /\ deferred' \subseteq Targets
          /\ consumer' \in [Targets -> {"none", "running", "done", "dead"}]
          /\ pending' \in [Targets -> 0..MaxEvents]
          /\ \A u \in Targets : DrainInv(u)' /\ TellInv(u)'
      BY <2>6, ActivateFacts
    <2>8. TypeOK' BY <1>5, <2>4, <2>7 DEF Inv, TypeOK
    <2> QED BY <2>5, <2>7, <2>8 DEF Inv
  <1>7. CASE ~(NeedsActivation(t) /\ t \in registered)
    <2>1. fibers' \subseteq Without(MapFor(t), <<"infoChanged", t>>) \cup {h("detecting")}
      BY <1>7
    <2>2. h("detecting") \in Fibers /\ FiberInv(h("detecting")) BY <1>3 DEF Steps
    <2> HIDE DEF h
    <2>3. \A f \in fibers' : f \in Fibers /\ FiberInv(f) BY <1>4, <2>1, <2>2 DEF Without
    <2>4. \A f \in fibers' : FiberInv(f)' BY <2>3, FiberStays
    <2>5. UNCHANGED <<activated, replayVars>> BY <1>7
    <2>6. TypeOK' BY <1>5, <2>3, <2>5 DEF Inv, TypeOK, replayVars
    <2> QED BY <2>4, <2>5, <2>6, TabsStay DEF Forgotten, replayVars
  <1> QED BY <1>6, <1>7

\* A target attached for the first time has no history; one attached again is of no
\* concern to what is promised of those attached once.
LEMMA TargetAttachedStep == ASSUME Inv, NEW t \in Targets, TargetAttached(t) PROVE Inv'
  <1> USE DEF TargetAttached, replayVars
  <1> DEFINE n == attached[t] + 1
             h == Fiber(Session, <<"attached", t>>, <<t, n>>, "enabling")
  <1>1. n \in Attachments /\ <<t, n>> \in Tabs /\ n \in 1..MaxAttach /\ attached[t] \in Nat
    BY TabLifecycleAssumption DEF Inv, TypeOK, Tabs, Attachments, TabLifecycleAssumption
  <1>2. PICK p \in IF page[t] = "absent" THEN {"blank", "real"} ELSE {page[t]} :
          /\ page' = [page EXCEPT ![t] = p]
          /\ fibers' \subseteq fibers \cup {h}
    BY DEF Without
  <1>3. /\ attached' = [attached EXCEPT ![t] = n] /\ tabs' = [tabs EXCEPT ![t] = n]
        /\ scope' = [scope EXCEPT ![<<t, n>>] = "Open"]
    BY DEF Inv, TypeOK
  <1>4. h \in Fibers BY <1>1 DEF Fiber, Fibers, Events, Steps
  <1>5. h.of = <<t, n>> /\ h.map = Session /\ Session \notin Tabs
    BY TabLifecycleAssumption DEF Fiber, Session, Tabs, Attachments, TabLifecycleAssumption
  <1> HIDE DEF n, h
  <1>6. /\ attached'[t] = n /\ \A u \in Targets \ {t} : attached'[u] = attached[u]
        /\ tabs'[t] = n /\ \A u \in Targets \ {t} : tabs'[u] = tabs[u]
        /\ scope'[<<t, n>>] = "Open"
        /\ \A tab \in Tabs \ {<<t, n>>} : scope'[tab] = scope[tab]
    BY <1>1, <1>3 DEF Inv, TypeOK
  <1>7. TypeOK'
    <2>1. page' \in [Targets -> {"absent", "blank", "real", "gone"}] BY <1>2 DEF Inv, TypeOK
    <2>2. /\ attached' \in [Targets -> 0..MaxAttach] /\ tabs' \in [Targets -> 0..MaxAttach]
          /\ scope' \in
               [Tabs -> {"none", "Open", "cf", "drain", "draining", "callback", "Closed"}]
      BY <1>1, <1>3 DEF Inv, TypeOK
    <2>3. fibers' \subseteq Fibers BY <1>2, <1>4 DEF Inv, TypeOK
    <2>4. registered' \subseteq Targets /\ finalized' \subseteq registered' BY DEF Inv, TypeOK
    <2> QED BY <2>1, <2>2, <2>3, <2>4 DEF Inv, TypeOK
  <1>8. AttachInv'
    <2>1. ASSUME NEW u \in Targets, NEW m \in Attachments
          PROVE  /\ scope'[<<u, m>>] = "none" <=> m > attached'[u]
                 /\ <<u, m>> \in activated' => m <= attached'[u]
      <3>1. /\ scope[<<u, m>>] = "none" <=> m > attached[u]
            /\ <<u, m>> \in activated => m <= attached[u]
            /\ <<u, m>> \in Tabs
        BY DEF Inv, AttachInv, Tabs
      <3>2. CASE u # t BY <1>6, <3>1, <3>2
      <3>3. CASE u = t /\ m = n BY <1>1, <1>6, <3>3 DEF Attachments
      <3>4. CASE u = t /\ m # n BY <1>1, <1>6, <3>1, <3>4 DEF Attachments, n
      <3> QED BY <3>2, <3>3, <3>4
    <2>2. \A u \in Targets : tabs'[u] \in {0, attached'[u]} BY <1>6 DEF Inv, AttachInv
    <2>3. destroyer'.at \notin {"disposing", "disposed"} =>
            \A u \in Targets : tabs'[u] = attached'[u]
      BY <1>6 DEF Inv, AttachInv
    <2> QED BY <2>1, <2>2, <2>3 DEF AttachInv
  <1>9. \A f \in fibers' : FiberInv(f)'
    <2>1. ASSUME NEW f \in fibers PROVE FiberInv(f)'
      <3>1. f \in Fibers /\ FiberInv(f) BY DEF Inv, TypeOK
      <3>2. f.of[1] \in Targets BY <3>1 DEF Fibers, Tabs
      <3>3. attached'[f.of[1]] > 0 BY <1>1, <1>6, <3>1, <3>2 DEF FiberInv
      <3>4. f.map \in Tabs => scope'[f.map] = "Open" BY <1>6, <3>1 DEF FiberInv
      <3> QED BY <3>1, <3>3, <3>4 DEF FiberInv
    <2>2. \A f : f = h => FiberInv(f)'
      <3>1. attached'[t] > 0 BY <1>1, <1>6
      <3>2. ASSUME NEW f, f = h PROVE FiberInv(f)' BY <1>1, <1>5, <3>1, <3>2 DEF FiberInv
      <3> QED BY <3>2
    <2> QED BY <1>2, <2>1, <2>2
  <1>10. ASSUME NEW u \in Targets PROVE DrainInv(u)' /\ TellInv(u)'
    <2>1. DrainInv(u) /\ TellInv(u) /\ <<u, 1>> \in Tabs BY FirstTab DEF Inv
    <2>2. CASE u # t
      BY <1>6, <2>1, <2>2 DEF DrainInv, TellInv
    <2>3. CASE u = t /\ n = 1
      <3>1. attached[t] = 0 BY <1>1, <2>3 DEF n
      <3>2. <<t, 1>> \notin activated
        BY <1>1, <3>1, <2>3 DEF Inv, AttachInv
      <3> QED BY <1>6, <2>1, <2>3, <3>1, <3>2 DEF DrainInv, TellInv
    <2>4. CASE u = t /\ n # 1
      <3>1. attached'[t] # 1 /\ attached'[t] # 0 BY <1>1, <1>6, <2>4
      <3> QED BY <2>1, <2>4, <3>1 DEF DrainInv, TellInv
    <2> QED BY <2>2, <2>3, <2>4
  <1> QED BY <1>7, <1>8, <1>9, <1>10 DEF Inv

-----------------------------------------------------------------------------
(* The theorems.                                                           *)

LEMMA InvStep == Inv /\ [Next]_vars => Inv'
  <1> SUFFICES ASSUME Inv, [Next]_vars PROVE Inv'
    OBVIOUS
  <1>1. CASE Initialize \/ Destroy \/ WsClosed BY <1>1, InitializeStep, DestroyStep
  <1>2. ASSUME NEW t \in Targets, Chrome(t) \/ OfferEvents(t) \/ Flush(t) \/ ConsumerDone(t)
        PROVE  Inv'
    BY <1>2, TargetAttachedStep, TargetInfoChangedStep, TargetDestroyedStep, OfferEventsStep,
       FlushStep, ConsumerDoneStep DEF Chrome
  <1>3. ASSUME NEW tab \in Tabs, Finalizer(tab) PROVE Inv'
    BY <1>3, CfCleanedStep, DrainQueueStep, DrainedStep, TabCallbackStep DEF Finalizer
  <1>4. ASSUME NEW f \in fibers, Handler(f) PROVE Inv'
    BY <1>4, AttachEnabledStep, ProvisionedStep, HandlerEnds, HandlerFinalizedStep DEF Handler
  <1>5. CASE Teardown
    BY <1>5, FinalizeStep, FinalizeEndStep, CloseNextStep, CloseEndStep, ClearTabsStep,
       DisposeStep DEF Teardown
  <1>6. CASE UNCHANGED vars
    <2> USE <1>6 DEF vars, chromeVars, tabVars, replayVars
    <2>1. TypeOK' BY DEF Inv, TypeOK
    <2>2. \A f \in fibers' : FiberInv(f)' BY FiberStays DEF Inv
    <2> QED BY <2>1, <2>2, TabsStay DEF Forgotten
  <1> QED BY <1>1, <1>2, <1>3, <1>4, <1>5, <1>6 DEF Next, Rest

LEMMA InvAlways == Spec => []Inv
  <1> QED BY InvInit, InvStep, PTL DEF Spec

\* When tabReplayComplete has been sent, the replay it names is stored, unless the drain
\* was given up or the target was attached again.
THEOREM Stored == Spec => []AnnouncedIsStored
  <1>1. Inv => AnnouncedIsStored
    <2> SUFFICES ASSUME Inv, NEW t \in Targets,
                        announced[t] > 0, attached[t] = 1, t \notin undrained
                 PROVE  t \notin queue /\ pending[t] = 0
      BY DEF AnnouncedIsStored
    <2>1. DrainInv(t) BY DEF Inv
    <2> QED BY <2>1 DEF DrainInv
  <1> QED BY InvAlways, <1>1, PTL

\* No activated tab that has closed and was drained goes unannounced while destroy() waits.
THEOREM Announced == Spec => []ClosedMeansAnnounced
  <1>1. Inv => ClosedMeansAnnounced
    <2> SUFFICES ASSUME Inv, NEW t \in Targets,
                        attached[t] = 1, scope[<<t, 1>>] = "Closed", t \notin undrained,
                        destroyer.at \in {"finalizing", "closing", "solver"}
                 PROVE  announced[t] = 1
      BY DEF ClosedMeansAnnounced
    <2>1. TellInv(t) BY DEF Inv
    <2> QED BY <2>1 DEF TellInv
  <1> QED BY InvAlways, <1>1, PTL

\* No handler of a tab's own FiberMap outlives the beginning of the close of its scope.
THEOREM NoGhosts == Spec => []NoGhostFibers
  <1>1. Inv => NoGhostFibers BY DEF Inv, FiberInv, NoGhostFibers
  <1> QED BY InvAlways, <1>1, PTL
=============================================================================

-------------------------- MODULE SessionLifecycle --------------------------
(***************************************************************************)
(* Browser sessions from launch to destruction: the launcher's steps, the  *)
(* registry of sessions, the router that gives a browser back when its     *)
(* handler ends, and the single destruction pipeline that release, client  *)
(* close, kill, watchdog and shutdown all run, possibly at the same time.  *)
(*                                                                         *)
(* A session is named by the request that launched it; other requests may  *)
(* reconnect to it.  Time is abstract: every timeout may fire at any       *)
(* moment at which the code waits for something.                           *)
(***************************************************************************)
EXTENDS FiniteSets

CONSTANTS
    Requests,   \* the requests of browser routes that own a session
    ManualDir,  \* those that bring a user data directory of their own
    Killers,    \* the calls of killSessions
    NoBrowser   \* the request has no browser yet

ASSUME SessionLifecycleAssumption ==
    /\ ManualDir \subseteq Requests
    /\ NoBrowser \notin Requests
    /\ Requests \cap Killers = {}
    /\ {"beforeClose", "watchdog", "shutdown"} \cap (Requests \cup Killers) = {}

VARIABLES
    stage,        \* how far each request has come
    browserOf,    \* the session whose browser a request was given
    dir,          \* a session's temporary user data directory
    chrome,       \* its Chrome process
    handle,       \* its browser object still holds the process (this.browser)
    aged,         \* it is older than its ttl, or TIMEOUT, plus a minute
    armed,        \* the request's CDPProxy may still call onBeforeClose
    registry,     \* SessionRegistry.sessionsMap
    solvers,      \* SessionCoordinator.cloudflareSolvers
    cdpSessions,  \* SessionCoordinator.cdpSessions
    tasks,        \* the destructions under way
    killed,       \* what each killSessions call has found
    killLeft,     \* and has yet to close
    phase         \* of the shutdown

vars == <<stage, browserOf, dir, chrome, handle, aged, armed, registry,
          solvers, cdpSessions, tasks, killed, killLeft, phase>>

sessionVars == <<dir, chrome, aged, solvers, cdpSessions>>
requestVars == <<stage, browserOf, armed>>
killVars == <<killed, killLeft>>

Stages == {"new", "launching", "hooking", "setup", "returned",
           "handling", "ended"}
Callers == Requests \cup Killers \cup {"beforeClose", "watchdog", "shutdown"}

TypeOK ==
    /\ stage \in [Requests -> Stages]
    /\ browserOf \in [Requests -> Requests \cup {NoBrowser}]
    /\ dir \in [Requests -> {"none", "present", "removed", "left"}]
    /\ chrome \in [Requests -> {"none", "running", "dead"}]
    /\ handle \in [Requests -> BOOLEAN]
    /\ aged \in [Requests -> BOOLEAN]
    /\ armed \in [Requests -> BOOLEAN]
    /\ registry \subseteq Requests
    /\ solvers \subseteq Requests
    /\ cdpSessions \subseteq Requests
    /\ tasks \subseteq [by : Callers, of : Requests,
                        at : {"waiting", "closing", "replay", "rmdir"}]
    /\ killed \in [Killers -> SUBSET Requests]
    /\ killLeft \in [Killers -> SUBSET Requests]
    /\ phase \in {"up", "stopping", "destroying", "down"}

Init ==
    /\ stage = [r \in Requests |-> "new"]
    /\ browserOf = [r \in Requests |-> NoBrowser]
    /\ dir = [r \in Requests |-> "none"]
    /\ chrome = [r \in Requests |-> "none"]
    /\ handle = [r \in Requests |-> FALSE]
    /\ aged = [r \in Requests |-> FALSE]
    /\ armed = [r \in Requests |-> FALSE]
    /\ registry = {} /\ solvers = {} /\ cdpSessions = {} /\ tasks = {}
    /\ killed = [k \in Killers |-> {}]
    /\ killLeft = [k \in Killers |-> {}]
    /\ phase = "up"

To(r, s) == stage' = [stage EXCEPT ![r] = s]

-----------------------------------------------------------------------------
(* The destruction pipeline.  Its first part runs without a break: out of  *)
(* the registry, and browser.close(), which finds nothing to wait for if   *)
(* another caller has taken the process from the browser object.           *)

Destroyed(S, by) ==
    {[by |-> by, of |-> s, at |-> IF handle[s] THEN "closing" ELSE "replay"] : s \in S}

CloseBrowsers(S) == handle' = [s \in Requests |-> handle[s] /\ s \notin S]

BeginKeepingEntry(S, by, rest) ==
    /\ tasks' = rest \cup Destroyed(S, by)
    /\ CloseBrowsers(S)
    /\ UNCHANGED registry

Begin(S, by, rest) ==
    /\ registry' = registry \ S
    /\ tasks' = rest \cup Destroyed(S, by)
    /\ CloseBrowsers(S)

Moved(t, at) == (tasks \ {t}) \cup {[t EXCEPT !.at = at]}

\* browser.close() has returned, or its five seconds are over.
BrowserClosed(t) ==
    /\ t \in tasks /\ t.at = "closing"
    /\ tasks' = Moved(t, "replay")
    /\ UNCHANGED <<requestVars, sessionVars, killVars, handle, registry, phase>>

\* stopReplayEffect has ended or timed out; its finaliser empties the maps.
ReplayStopped(t) ==
    /\ t \in tasks /\ t.at = "replay"
    /\ tasks' = Moved(t, "rmdir")
    /\ solvers' = solvers \ {t.of}
    /\ cdpSessions' = cdpSessions \ {t.of}
    /\ UNCHANGED <<requestVars, killVars, dir, chrome, aged, handle, registry, phase>>

\* The finaliser of destroySession, with a directory the client brought treated
\* like any other.
RemoveAnyDataDir(t) ==
    /\ t \in tasks /\ t.at = "rmdir"
    /\ tasks' = tasks \ {t}
    /\ dir' = [dir EXCEPT ![t.of] = "removed"]
    /\ UNCHANGED <<requestVars, killVars, chrome, aged, solvers, cdpSessions,
                   handle, registry, phase>>

\* The finaliser of destroySession tries to remove a temporary directory that is
\* still there.  A rm that fails, while Chrome still writes for instance, is
\* logged and leaves the directory; nobody is told and nobody tries again.
RemoveUserDataDir(t) ==
    /\ t \in tasks /\ t.at = "rmdir"
    /\ tasks' = tasks \ {t}
    /\ IF t.of \in ManualDir \/ dir[t.of] = "removed"
       THEN UNCHANGED dir
       ELSE \E end \in {"removed", "left"} : dir' = [dir EXCEPT ![t.of] = end]
    /\ UNCHANGED <<requestVars, killVars, chrome, aged, solvers, cdpSessions,
                   handle, registry, phase>>

-----------------------------------------------------------------------------
(* A request                                                               *)

\* A trackingId in use, a malformed one, or a browser id nobody has.
Refused(r) ==
    /\ stage[r] = "new"
    /\ To(r, "ended")
    /\ UNCHANGED <<browserOf, armed, sessionVars, killVars, handle, registry, tasks, phase>>

\* generateDataDir has returned; the launch of Chrome begins.
DirMade(r) ==
    /\ stage[r] = "new"
    /\ To(r, "launching")
    /\ dir' = [dir EXCEPT ![r] = "present"]
    /\ UNCHANGED <<browserOf, armed, chrome, aged, solvers, cdpSessions, killVars,
                   handle, registry, tasks, phase>>

\* Chrome is up and the browser hook runs.
Launched(r) ==
    /\ stage[r] = "launching"
    /\ To(r, "hooking")
    /\ chrome' = [chrome EXCEPT ![r] = "running"]
    /\ handle' = [handle EXCEPT ![r] = TRUE]
    /\ UNCHANGED <<browserOf, armed, dir, aged, solvers, cdpSessions, killVars,
                   registry, tasks, phase>>

\* browser.launch or the hook rejects: a defect, which nothing catches.
LaunchFails(r) ==
    /\ stage[r] \in {"launching", "hooking"}
    /\ To(r, "ended")
    /\ UNCHANGED <<browserOf, armed, sessionVars, killVars, handle, registry, tasks, phase>>

\* The session is registered; with replay, setupSession is awaited as well.
Register(r) ==
    /\ stage[r] = "hooking"
    /\ browserOf' = [browserOf EXCEPT ![r] = r]
    /\ registry' = registry \cup {r}
    /\ \/ To(r, "returned") /\ UNCHANGED solvers
       \/ To(r, "setup") /\ solvers' = solvers \cup {r}
    /\ UNCHANGED <<armed, dir, chrome, aged, cdpSessions, killVars, handle, tasks, phase>>

\* CdpSession.initialize resolves, even when the browser's WebSocket never
\* opened, or rejects.
SetUp(r) ==
    /\ stage[r] = "setup"
    /\ To(r, "returned")
    /\ \/ cdpSessions' = cdpSessions \cup {r} /\ UNCHANGED solvers
       \/ solvers' = solvers \ {r} /\ UNCHANGED cdpSessions
    /\ UNCHANGED <<browserOf, armed, dir, chrome, aged, killVars, handle, registry, tasks, phase>>

\* handleReconnection: a registered browser whose endpoint has the id.
Reconnect(r) ==
    /\ stage[r] = "new"
    /\ To(r, "returned")
    /\ \E s \in registry : handle[s] /\ browserOf' = [browserOf EXCEPT ![r] = s]
    /\ UNCHANGED <<armed, sessionVars, killVars, handle, registry, tasks, phase>>

Handle(r) ==
    /\ stage[r] = "returned"
    /\ To(r, "handling")
    /\ armed' = [armed EXCEPT ![r] = TRUE]
    /\ UNCHANGED <<browserOf, sessionVars, killVars, handle, registry, tasks, phase>>

InBeforeClose(s) == \E t \in tasks : t.by = "beforeClose" /\ t.of = s

\* destroyForBrowser, or manager.destroy when there is nothing to wait for.
DestroyForBrowser(r, rest) ==
    IF browserOf[r] \in registry
    THEN Begin({browserOf[r]}, r, rest)
    ELSE CloseBrowsers({browserOf[r]}) /\ tasks' = rest /\ UNCHANGED registry

\* manager.destroy: waits for an onBeforeClose under way, then looks again.
Destroy(r) ==
    IF browserOf[r] \in registry /\ InBeforeClose(browserOf[r])
    THEN /\ tasks' = tasks \cup {[by |-> r, of |-> browserOf[r], at |-> "waiting"]}
         /\ UNCHANGED <<handle, registry>>
    ELSE DestroyForBrowser(r, tasks)

\* The handler returns, or the client had gone before it began.
HandlerEnds(r) ==
    /\ stage[r] \in {"returned", "handling"}
    /\ To(r, "ended")
    /\ Destroy(r)
    /\ UNCHANGED <<browserOf, armed, sessionVars, killVars, phase>>

\* The handler's promise rejects, which ends the generator: whether its finally
\* block still runs is up to the library.  A proxy that cannot be set up
\* closes the browser first.
HandlerFails(r) ==
    /\ stage[r] = "handling"
    /\ To(r, "ended")
    /\ \/ Destroy(r)
       \/ UNCHANGED <<handle, registry, tasks>>
       \/ CloseBrowsers({browserOf[r]}) /\ UNCHANGED <<registry, tasks>>
    /\ UNCHANGED <<browserOf, armed, sessionVars, killVars, phase>>

ReleaseResumes(t) ==
    /\ t \in tasks /\ t.at = "waiting" /\ ~InBeforeClose(t.of)
    /\ DestroyForBrowser(t.by, tasks \ {t})
    /\ UNCHANGED <<requestVars, sessionVars, killVars, phase>>

\* The request's client closes its browser or its WebSocket: closeForBrowser.
BeforeClose(r) ==
    /\ armed[r]
    /\ armed' = [armed EXCEPT ![r] = FALSE]
    /\ IF browserOf[r] \in registry
       THEN Begin({browserOf[r]}, "beforeClose", tasks)
       ELSE UNCHANGED <<handle, registry, tasks>>
    /\ UNCHANGED <<stage, browserOf, sessionVars, killVars, phase>>

-----------------------------------------------------------------------------
(* Kill, watchdog, shutdown                                                *)

KillSessions(k, S) ==
    /\ killed[k] = {} /\ S # {} /\ S \subseteq registry
    /\ killed' = [killed EXCEPT ![k] = S]
    /\ killLeft' = [killLeft EXCEPT ![k] = S]
    /\ UNCHANGED <<requestVars, sessionVars, handle, registry, tasks, phase>>

\* One session of the snapshot after another, each awaited; it may have been
\* destroyed by somebody else in the meantime and is destroyed again.
KillNextIfListed(k) ==
    /\ ~\E t \in tasks : t.by = k
    /\ \E s \in killLeft[k] :
         /\ killLeft' = [killLeft EXCEPT ![k] = @ \ {s}]
         /\ Begin({s} \cap registry, k, tasks)
    /\ UNCHANGED <<requestVars, sessionVars, killed, phase>>

KillNext(k) ==
    /\ ~\E t \in tasks : t.by = k
    /\ \E s \in killLeft[k] :
         /\ killLeft' = [killLeft EXCEPT ![k] = @ \ {s}]
         /\ Begin({s}, k, tasks)
    /\ UNCHANGED <<requestVars, sessionVars, killed, phase>>

StaleWhenUnused == {s \in registry : aged[s] /\ stage[s] = "ended" /\ ~armed[s]}
Stale == {s \in registry : aged[s]}

\* The watchdog destroys its stale sessions in parallel and waits for them all.
WatchdogTick ==
    /\ phase = "up"
    /\ ~\E t \in tasks : t.by = "watchdog"
    /\ Stale # {}
    /\ Begin(Stale, "watchdog", tasks)
    /\ UNCHANGED <<requestVars, sessionVars, killVars, phase>>

\* A faulty shutdown: the watchdog's destructions are interrupted whole.
ShutdownDropsTasks ==
    /\ phase = "up"
    /\ phase' = "stopping"
    /\ tasks' = {t \in tasks : t.by # "watchdog"}
    /\ UNCHANGED <<requestVars, sessionVars, killVars, handle, registry>>

\* Interrupting the watchdog leaves of its destructions only the finalisers.
Shutdown ==
    LET cut == {t \in tasks : t.by = "watchdog"}
    IN  /\ phase = "up"
        /\ phase' = "stopping"
        /\ tasks' = (tasks \ cut) \cup {[t EXCEPT !.at = "rmdir"] : t \in cut}
        /\ LET stopped == {t.of : t \in {u \in cut : u.at = "replay"}}
           IN  /\ solvers' = solvers \ stopped
               /\ cdpSessions' = cdpSessions \ stopped
        /\ UNCHANGED <<requestVars, dir, chrome, aged, killVars, handle, registry>>

ShutdownDestroys ==
    /\ phase = "stopping"
    /\ ~\E t \in tasks : t.by = "watchdog"
    /\ phase' = "destroying"
    /\ Begin(registry, "shutdown", tasks)
    /\ UNCHANGED <<requestVars, sessionVars, killVars>>

ShutdownEnds ==
    /\ phase = "destroying"
    /\ ~\E t \in tasks : t.by = "shutdown"
    /\ phase' = "down"
    /\ registry' = {}
    /\ UNCHANGED <<requestVars, sessionVars, killVars, handle, tasks>>

-----------------------------------------------------------------------------
(* Chrome and time                                                         *)

\* A process that was told to close exits or is killed after five seconds.
ChromeExits(s) ==
    /\ chrome[s] = "running" /\ ~handle[s]
    /\ chrome' = [chrome EXCEPT ![s] = "dead"]
    /\ UNCHANGED <<requestVars, dir, aged, solvers, cdpSessions, killVars, handle,
                   registry, tasks, phase>>

ChromeCrashes(s) ==
    /\ chrome[s] = "running" /\ handle[s]
    /\ chrome' = [chrome EXCEPT ![s] = "dead"]
    /\ UNCHANGED <<requestVars, dir, aged, solvers, cdpSessions, killVars, handle,
                   registry, tasks, phase>>

Ages(s) ==
    /\ s \in registry /\ ~aged[s]
    /\ aged' = [aged EXCEPT ![s] = TRUE]
    /\ UNCHANGED <<requestVars, dir, chrome, solvers, cdpSessions, killVars, handle,
                   registry, tasks, phase>>

\* Every request has ended and nothing is left to do.
Rest ==
    /\ \A r \in Requests : stage[r] = "ended"
    /\ tasks = {}
    /\ UNCHANGED vars

Serve(r) ==
    \/ Refused(r) \/ DirMade(r) \/ Launched(r) \/ LaunchFails(r)
    \/ Register(r) \/ SetUp(r) \/ Reconnect(r) \/ Handle(r)
    \/ HandlerEnds(r) \/ HandlerFails(r) \/ BeforeClose(r)

Work(t) == BrowserClosed(t) \/ ReplayStopped(t) \/ RemoveUserDataDir(t) \/ ReleaseResumes(t)

Next ==
    \/ \E r \in Requests : Serve(r)
    \/ \E t \in tasks : Work(t)
    \/ \E k \in Killers : KillNext(k) \/ \E S \in SUBSET registry : KillSessions(k, S)
    \/ WatchdogTick
    \/ Shutdown \/ ShutdownDestroys \/ ShutdownEnds
    \/ \E s \in Requests : ChromeExits(s) \/ ChromeCrashes(s) \/ Ages(s)
    \/ Rest

Spec == Init /\ [][Next]_vars

\* Time passes, the watchdog's fiber is scheduled, every wait of the pipeline
\* has a timeout, and a process that was killed exits.  Clients, handlers and
\* launches owe nothing.
FairSpec ==
    /\ Spec
    /\ WF_vars(WatchdogTick)
    /\ WF_vars(\E t \in tasks : Work(t))
    /\ \A s \in Requests : WF_vars(ChromeExits(s)) /\ WF_vars(Ages(s))

-----------------------------------------------------------------------------
(* Properties                                                              *)

UnderDestruction(s) == \E t \in tasks : t.of = s /\ t.at # "waiting"

\* The removal of its directory has been tried.
Tried(s) == dir[s] \in {"removed", "left"}

\* The registry lists no session that is being destroyed or whose directory
\* somebody has set out to remove, whichever of the five callers came first
\* ("prevents stale /sessions").
ListedSessionsWhole ==
    \A s \in registry : ~UnderDestruction(s) /\ dir[s] = "present" /\ chrome[s] # "none"

\* A user data directory is touched only after its Chrome was told to close, and
\* one that the client brought along never.
DirOutlivesBrowser ==
    \A s \in Requests : Tried(s) => ~handle[s] /\ s \notin ManualDir

\* When killSessions returns, every session it found has been told to close and
\* has had the removal of its directory tried, also those that another caller
\* was destroying at the same time.  Whether rm succeeded is another matter.
KillSeesAllThrough ==
    \A k \in Killers :
        killLeft[k] = {} /\ (~\E t \in tasks : t.by = k) =>
            \A s \in killed[k] : ~handle[s] /\ s \notin registry /\ (s \in ManualDir \/ Tried(s))

\* Where each session with a temporary directory stands in the terms of SessionLife.
Life(s) ==
    IF dir[s] = "removed" THEN "removed"
    ELSE IF s \in registry THEN "listed"
    ELSE IF UnderDestruction(s) THEN "ending"
    ELSE IF dir[s] = "left" THEN "left"
    ELSE IF dir[s] = "none" THEN "absent"
    ELSE IF stage[s] \in {"launching", "hooking"} THEN "launching"
    ELSE IF browserOf[s] # s THEN "failed" ELSE "forgotten"

Promise == INSTANCE SessionLife
           WITH Sessions <- Requests \ ManualDir, up <- phase # "down",
                life <- [s \in Requests \ ManualDir |-> Life(s)]

\* No destruction is lost, neither to another caller of the pipeline nor to the shutdown
\* that interrupts the watchdog: the server implements SessionLife.
ImplementsSessionLife == Promise!Spec

\* A registered session goes sooner or later, whatever its clients and its
\* handlers do: Chrome exits and the removal of its directory is tried.
SessionsEnd ==
    \A s \in Requests \ ManualDir :
        s \in registry ~> (chrome[s] = "dead" /\ Tried(s)) \/ phase # "up"
=============================================================================
